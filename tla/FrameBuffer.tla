----------------------------- MODULE FrameBuffer ----------------------------
(***************************************************************************)
(* Pixels in memory (kernel/video.c): draw_pixel stores three bytes in     *)
(* vmem_buffer, update_screen copies the buffer to the video memory, and   *)
(* the adapter, which is external, shows the bytes at the place of each    *)
(* pixel: rows are pitch bytes apart, which may be more than 3 * Xres.     *)
(***************************************************************************)
EXTENDS Integers

CONSTANTS Xres, Yres, pitch,  \* of mode_info
          BufSize,            \* sizeof(vmem_buffer): 800 * 600 * 3
          Points,             \* arguments of draw_pixel, on the screen or off
          Colors,             \* its colours, as the three bytes of a picture
          Junk                \* what .bss and the video memory may hold

Octets == 0..255

(* draw_pixel clips by Xres and Yres alone: that the rows fit into the     *)
(* buffer is a property of the mode that boot.S asks for (0x0115).         *)
ASSUME FrameBufferAssumption ==
    /\ {Xres, Yres, pitch, BufSize} \subseteq Nat
    /\ pitch >= 3 * Xres
    /\ Yres * pitch <= BufSize
    /\ Points \subseteq Int \X Int
    /\ Colors \subseteq Octets \X Octets \X Octets
    /\ Junk \subseteq Octets

VARIABLES vmem_buffer,  \* the kernel's copy of the screen
          vmem,         \* the part of the video memory that it covers
          request       \* history: the last call and its arguments

drawing == <<vmem_buffer, vmem, request>>

BufferBytes == 0..(BufSize - 1)
ScreenPixels == (0..(Xres - 1)) \X (0..(Yres - 1))

(* Mutant: the rows are taken to follow each other.                        *)
PixelPacked(x, y) == y * (Xres * 3) + x * 3

pixel(x, y) == y * pitch + x * 3

OnScreen(x, y) == 0 <= x /\ x < Xres /\ 0 <= y /\ y < Yres

-----------------------------------------------------------------------------
FrameBufferInit == /\ \E junk, noise \in Junk :
                         /\ vmem_buffer = [a \in BufferBytes |-> junk]
                         /\ vmem = [a \in BufferBytes |-> noise]
                   /\ request = [op |-> "none"]

init_video_buffer == /\ vmem_buffer' = [a \in BufferBytes |-> 0]
                     /\ UNCHANGED vmem

draw_pixel_bgr(x, y, b, g, r) ==
    /\ vmem_buffer' = IF OnScreen(x, y)
                      THEN [vmem_buffer EXCEPT ![pixel(x, y)] = b,
                                               ![pixel(x, y) + 1] = g,
                                               ![pixel(x, y) + 2] = r]
                      ELSE vmem_buffer
    /\ UNCHANGED vmem

draw_pixel(x, y, color) == draw_pixel_bgr(x, y, (color \div 65536) % 256,
                                          (color \div 256) % 256, color % 256)

update_screen == /\ vmem' = vmem_buffer
                 /\ UNCHANGED vmem_buffer

(* The colour of a picture's pixel, whose bytes are blue, green and red;   *)
(* every colour of 24 bits is that of some three bytes.                    *)
get_color(bgr) == bgr[1] * 65536 + bgr[2] * 256 + bgr[3]

Draw(p, bgr) ==
    /\ draw_pixel(p[1], p[2], get_color(bgr))
    /\ request' = [op |-> "draw", point |-> p, colour |-> bgr]

DrawNext == \/ init_video_buffer /\ request' = [op |-> "black"]
            \/ update_screen /\ request' = [op |-> "update"]
            \/ \E p \in Points, bgr \in Colors : Draw(p, bgr)

DrawSpec == FrameBufferInit /\ [][DrawNext]_drawing

-----------------------------------------------------------------------------
(* The colour that the adapter finds for a pixel: blue, green and red.     *)
At(bytes, p) == LET a == p[2] * pitch + p[1] * 3
                IN  <<bytes[a], bytes[a + 1], bytes[a + 2]>>

(* Every pixel of the screen has three bytes of its own inside the buffer, *)
(* at the place where the adapter looks for it, whatever the padding of    *)
(* the rows; one that is off the screen has none.  And the colour that     *)
(* get_color reads from a picture is shown with the picture's own bytes.   *)
(* So vmem_buffer and the video memory implement a canvas and a screen.    *)
Screen == INSTANCE Canvas WITH Pixels <- ScreenPixels,
                               Colours <- Octets \X Octets \X Octets,
                               Black <- <<0, 0, 0>>, Palette <- Colors,
                               canvas <- [p \in ScreenPixels |-> At(vmem_buffer, p)],
                               screen <- [p \in ScreenPixels |-> At(vmem, p)]
CanvasSpec == Screen!CanvasSpec
=============================================================================
