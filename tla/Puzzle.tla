------------------------------- MODULE Puzzle -------------------------------
(***************************************************************************)
(* The puzzle of kernel/game.c and what it draws with kernel/video.c.  The *)
(* loop draws a frame, ends if the blocks are in order, and otherwise      *)
(* waits for a key and changes the game's state by it.                     *)
(*                                                                         *)
(* A colour of the picture is the pixel that it has there, so that any two *)
(* of them differ; the lines and the background are black, and the borders *)
(* have the two colours that update_frame gives them.                      *)
(***************************************************************************)
EXTENDS Integers

CONSTANTS PicW, PicH,    \* pic_w, pic_h
          BlockW, BlockH,\* block_w, block_h: 100
          Xres, Yres,    \* mode_info.Xres, mode_info.Yres
          LineWidth,     \* of the lines between the blocks: 6
          Thick          \* of the borders: 3

NrBlockH == PicW \div BlockW
NrBlockV == PicH \div BlockH
NrBlock == NrBlockH * NrBlockV

ASSUME PuzzleAssumption ==
    /\ {PicW, PicH, BlockW, BlockH, Xres, Yres, LineWidth, Thick} \subseteq Nat \ {0}
    /\ PicW <= Xres /\ PicH <= Yres
    /\ NrBlock > 0
    /\ LineWidth <= 2 * Thick
    /\ 2 * Thick < BlockW /\ 2 * Thick < BlockH

VARIABLES block,    \* game.block: the picture's block at each place
          block_x, block_y,                \* the cursor
          select,                          \* 1 when a block is selected
          select_block_x, select_block_y,
          screen,   \* the pixels that update_screen has shown
          pc        \* where game_mainloop is

cursor == <<block_x, block_y>>
selection == <<select, select_block_x, select_block_y>>
vars == <<block, cursor, selection, screen, pc>>

Places == 0..(NrBlock - 1)
Pixels == (0..(Xres - 1)) \X (0..(Yres - 1))
Picture == (0..(PicW - 1)) \X (0..(PicH - 1))

(* The other colours: 0 and the two of update_frame's borders.             *)
Black == <<-1, 0>>
CursorColour == <<-1, 1>>
SelectColour == <<-1, 2>>

Keys == {"space", "up", "down", "left", "right", "other"}

-----------------------------------------------------------------------------
(* The pixels that the drawing functions of video.c write; draw_pixel      *)
(* leaves out those that are not on the screen.                            *)
Rectangle(x, y, w, h) == {p \in Pixels : /\ x <= p[1] /\ p[1] < x + w
                                         /\ y <= p[2] /\ p[2] < y + h}

draw_column(x, y, width, length) ==
    Rectangle(x - width \div 2, y, width, length)

draw_row(x, y, width, length) ==
    Rectangle(x, y - width \div 2, length, width)

(* Mutant: column C starts at the right edge.                              *)
DrawBorderOutside(x, y, w, h, thick) ==
    UNION {draw_row(x, y + thick \div 2, thick, w),
           draw_row(x, y + h - thick + thick \div 2, thick, w),
           draw_column(x + thick \div 2, y + thick, thick, h - thick * 2),
           draw_column(x + w + thick \div 2, y + thick, thick, h - thick * 2)}

draw_border(x, y, w, h, thick) ==
    UNION {draw_row(x, y + thick \div 2, thick, w),
           draw_row(x, y + h - thick + thick \div 2, thick, w),
           draw_column(x + thick \div 2, y + thick, thick, h - thick * 2),
           draw_column(x + w - thick + thick \div 2, y + thick,
                       thick, h - thick * 2)}

Border(x, y) == draw_border(x * BlockW, y * BlockH, BlockW, BlockH, Thick)

Lines ==
    UNION ({draw_column(i * BlockW, 0, LineWidth, Yres) : i \in 0..NrBlockH}
           \cup {draw_row(0, i * BlockH, LineWidth, Xres) : i \in 0..NrBlockV})

(* The place that a pixel belongs to; update_frame draws no others.        *)
PlaceOf(p) == (p[2] \div BlockH) * NrBlockH + p[1] \div BlockW
InBlocks(p) == p[1] < NrBlockH * BlockW /\ p[2] < NrBlockV * BlockH

(* The pixel of the picture that is drawn at pixel p.                      *)
Drawn(p) ==
    LET index == block[PlaceOf(p)]
    IN  <<(index % NrBlockH) * BlockW + (p[1] % BlockW),
          (index \div NrBlockH) * BlockH + (p[2] % BlockH)>>

(* What is drawn later hides what was drawn before.                        *)
Frame == LET select_border == IF select = 1
                              THEN Border(select_block_x, select_block_y) ELSE {}
             cursor_border == Border(block_x, block_y)
             lines == Lines
         IN  [p \in Pixels |-> IF p \in select_border THEN SelectColour
                               ELSE IF p \in cursor_border THEN CursorColour
                               ELSE IF p \in lines THEN Black
                               ELSE IF InBlocks(p) THEN Drawn(p)
                               ELSE Black]

-----------------------------------------------------------------------------
Init == /\ block = [i \in Places |-> NrBlock - 1 - i]
        /\ block_x = 0 /\ block_y = 0
        /\ select = 0 /\ select_block_x = 0 /\ select_block_y = 0
        /\ screen = [p \in Pixels |-> Black]
        /\ pc = "frame"

update_frame == /\ pc = "frame"
                /\ screen' = Frame
                /\ pc' = "check"
                /\ UNCHANGED <<block, cursor, selection>>

(* Mutant: the last pair is left out.                                      *)
InOrderButLast == \A i \in 0..(NrBlock - 3) : block[i] <= block[i + 1]

InOrder == \A i \in 0..(NrBlock - 2) : block[i] <= block[i + 1]

check_valid == /\ pc = "check"
               /\ pc' = IF InOrder THEN "success" ELSE "key"
               /\ UNCHANGED <<block, cursor, selection, screen>>

(* Mutant: the wrong factor for the selected block's row.                  *)
SwapTransposed ==
    LET first == block_y * NrBlockH + block_x
        second == select_block_x * NrBlockV + select_block_y
    IN  block' = [block EXCEPT ![first] = block[second],
                               ![second] = block[first]]

(* Mutant: the first assignment is seen by the second one.                 *)
SwapOverwrites ==
    LET first == block_y * NrBlockH + block_x
        second == select_block_y * NrBlockH + select_block_x
    IN  block' = [block EXCEPT ![first] = block[second]]

Swap == LET first == block_y * NrBlockH + block_x
            second == select_block_y * NrBlockH + select_block_x
        IN  block' = [block EXCEPT ![first] = block[second],
                                   ![second] = block[first]]

(* update_game_state for the space bar selects the block under the cursor  *)
(* or exchanges it with the selected one ...                               *)
Select == /\ select = 0
          /\ select' = 1
          /\ select_block_x' = block_x
          /\ select_block_y' = block_y
          /\ UNCHANGED block

Exchange == /\ select = 1
            /\ select' = 0
            /\ Swap
            /\ UNCHANGED <<select_block_x, select_block_y>>

Space == /\ pc = "key"
         /\ Select \/ Exchange
         /\ pc' = "frame"
         /\ UNCHANGED <<cursor, screen>>

(* Mutant: a column too many before the cursor wraps.                      *)
WrapLate(v, n) == IF v > n THEN 0 ELSE IF v < 0 THEN n - 1 ELSE v

(* ... and for an arrow key moves the cursor, round the edges.             *)
Wrap(v, n) == IF v >= n THEN 0 ELSE IF v < 0 THEN n - 1 ELSE v

Step(key) == CASE key = "down"  -> <<0, 1>>
               [] key = "up"    -> <<0, -1>>
               [] key = "left"  -> <<-1, 0>>
               [] key = "right" -> <<1, 0>>
               [] OTHER         -> <<0, 0>>

Move(key) == /\ pc = "key"
             /\ block_x' = Wrap(block_x + Step(key)[1], NrBlockH)
             /\ block_y' = Wrap(block_y + Step(key)[2], NrBlockV)
             /\ pc' = "frame"
             /\ UNCHANGED <<block, selection, screen>>

(* The whole picture, and nothing else, is shown at the end.               *)
Success == /\ pc = "success"
           /\ screen' = [p \in Pixels |-> IF p \in Picture THEN p ELSE Black]
           /\ pc' = "over"
           /\ UNCHANGED <<block, cursor, selection>>

Next == \/ update_frame
        \/ check_valid
        \/ Space
        \/ \E key \in Keys \ {"space"} : Move(key)
        \/ Success

Spec == Init /\ [][Next]_vars

-----------------------------------------------------------------------------
(* Types of the game's state and of the screen.                            *)
TypeOK == /\ block \in [Places -> Places]
          /\ block_x \in 0..(NrBlockH - 1) /\ block_y \in 0..(NrBlockV - 1)
          /\ select \in {0, 1}
          /\ select_block_x \in 0..(NrBlockH - 1)
          /\ select_block_y \in 0..(NrBlockV - 1)
          /\ DOMAIN screen = Pixels
          /\ pc \in {"frame", "check", "key", "success", "over"}

(* update_game_state only ever reorders the blocks: none is lost, none is  *)
(* there twice.                                                            *)
BlocksPermuted == \A i, k \in Places : block[i] = block[k] => i = k

(* check_valid compares neighbours only, yet the game ends exactly when    *)
(* every block is in its place: no key is waited for then, and the whole   *)
(* picture is never shown before.                                          *)
Solved == \A i \in Places : block[i] = i
EndsWhenSolved == /\ pc = "key" => ~Solved
                  /\ pc \in {"success", "over"} => Solved

(* The pixels within Thick of the edge of a place, and the one in its      *)
(* middle.                                                                 *)
Rim(i) == LET x == (i % NrBlockH) * BlockW
              y == (i \div NrBlockH) * BlockH
          IN  Rectangle(x, y, BlockW, BlockH)
              \ Rectangle(x + Thick, y + Thick, BlockW - 2 * Thick, BlockH - 2 * Thick)
Middle(i) == <<(i % NrBlockH) * BlockW + BlockW \div 2,
               (i \div NrBlockH) * BlockH + BlockH \div 2>>

(* What the player can tell from the screen.                               *)
Marked(colour) == {i \in Places : \A p \in Rim(i) : screen[p] = colour}
PlaceAt(x, y) == {y * NrBlockH + x}
Chosen == IF select = 1 THEN PlaceAt(select_block_x, select_block_y) ELSE {}

(* update_frame: whenever a key is waited for, the screen shows each place *)
(* with its block, the cursor's border and the selection's around the      *)
(* right places (the selection's on top), and no other borders.            *)
ScreenTells ==
    pc = "key" => /\ \A i \in Places : screen[Middle(i)] = Middle(block[i])
                  /\ Marked(SelectColour) = Chosen
                  /\ Marked(CursorColour) = PlaceAt(block_x, block_y) \ Chosen
                  /\ \A p \in Pixels : screen[p] \in {CursorColour, SelectColour} =>
                        \E i \in Marked(screen[p]) : p \in Rim(i)

(* The blocks that the space bar exchanges are the two that the screen     *)
(* marks, and nothing else changes their order.                            *)
SwapsWhatIsMarked ==
    [][block' # block =>
          \E a \in Marked(CursorColour), b \in Marked(SelectColour) :
             block' = [block EXCEPT ![a] = block[b], ![b] = block[a]]]_vars
=============================================================================
