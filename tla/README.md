# A verification of scratch-os

scratch-os is a small 32-bit x86 kernel written from scratch: a boot loader, a
physical page allocator and a page directory, a polled keyboard, a
frame buffer and, as its only program, a picture puzzle.  Beside the kernel
lives the start of a file system: a library, a tool that writes a disk image
and one that reads it back.  This directory holds TLA+ models of these parts,
TLC configurations that check them on small instances, and TLAPS proofs of
what can be said for every size.

Run `tlc -config X.cfg M` and `tlapm M.tla` in this directory; which module
goes with which configuration is in the table of runs below.

## 1. The system

| part | source | state it keeps | operations |
|---|---|---|---|
| boot sector | `boot/boot.S` | processor mode, `ModeInfoBlock` at 0xf000 | VBE query, A20, protected mode, call of `bootmain` |
| boot loader | `boot/main.c` | locals of `readseg`; memory; the disk's command | `bootmain`, `readseg`, `readsect`, `waitdisk` |
| page allocator | `kernel/page.c` | `page_pool` (`ref_count`, `next`, `frame`), `free_page_list` | `init_page`, `alloc_page`, `release_page` |
| paging | `kernel/page.c`, `kernel/video.c`, `kernel/main.c` | page directory and tables, CR0.PG | `mm_continous_map`, `init_page`, `init_video`, `test_page` |
| interrupts, segments | `kernel/interrupt/`, `kernel/segment.c` | IDT, GDT, TSS, PIC masks | `init_idt`, `init_i8259_pic`, `init_gdt`, `entry`, `irq_handle` |
| keyboard | `kernel/keyboard.c` | none but locals; the controller's buffer and latch | `get_key` |
| drawing | `kernel/video.c` | `vmem_buffer`, `mode_info` | `draw_row`, `draw_column`, `draw_border`, `update_screen` |
| puzzle | `kernel/game.c` | `game`: blocks, cursor, selection | `game_mainloop`, `update_frame`, `check_valid`, `update_game_state` |
| serial log | `kernel/serial.c`, `kernel/print.c`, `kernel/debug.h` | none | `serial_printf`, `LOG`, `PANIC`, `TEST` |
| C library | `lib/printfmt.c`, `lib/string.c` | none but locals | `vprintfmt`, `vsnprintf`, `memmove`, `memset`, ... |
| file system | `lib/fs.c` | a bitmap of blocks, a directory | `fs_get_bit`, `fs_set_bit`, `fs_alloc_blk`, `fs_alloc_file_in_dir` |
| disk tools | `fs-test/format.c`, `fs-test/extract.c` | an image file | `gen-disk`, `extract` |

How they interact.  The boot sector calls `bootmain`, which reads the kernel
from the disk to 1 MB and calls `main`.  `main` initialises one part after the
other; `init_page` and `init_video` share the allocator and the directory, and
after CR0.PG is set each access to a table goes through the tables written so
far.  `main` enables interrupts for a moment and enters the game with an `iret`
that disables them for good.  The game calls `get_key` for input and the drawing
functions for output.  `LOG` writes to the serial port from all over the kernel,
through `vprintfmt`.  `gen-disk` and `extract` are programs of the host that
share nothing but the image file.

What is hard here.  There is one processor and no thread: the concurrency is
that of devices.  The keyboard controller, the keyboard and the typist act
between any two `inb` of `get_key`, and the controller takes the boot sector's
bytes when it likes; the disk is busy for as long as it likes; from `sti` to the
game an interrupt may come between any two instructions; the UART sends a
character in its own time; `gen-disk` may be killed between two writes.  The
rest is order and arithmetic: page tables that are written through themselves,
roundings inwards and outwards, counters that wrap, an uninitialised directory
on the stack, a second look at state chosen many keys ago.  `PROJECT.json` lists
these hazards, each at its line.

What makes each part correct, in a sentence: a frame has one owner; the kernel's
image, its tables and the screen are mapped, onto themselves; a key is returned
once, after its release, and none is swallowed; a block of the image has one
use and a file reads back; the blocks of the puzzle stay a permutation and the
screen shows what the next key acts on; each segment is in memory when the
kernel is entered; interrupts neither nest nor disturb `main`, and none that is
raised blocks the others; the log arrives whole; a pixel is painted where the
adapter looks for it; a copy copies and a buffer is not overrun.

## 2. The modules

| module | models | notes |
|---|---|---|
| `FramePool` | what the allocator promises | abstract: frames available, held; `Grant`, `Return`, `Halt` |
| `PageAlloc` | `page_pool`, `free_page_list`, `alloc_page`, `release_page` | implements `FramePool` (`PoolSpec`) |
| `KernelBoot` | `init_page`, `mm_continous_map`, `init_video`, `test_page`, first `update_screen` | extends `PageAlloc` and calls its actions |
| `Segments` | `set_descriptor`, the macro `SEG`, and how the processor reads a descriptor | |
| `Machine` | `main`, `init_gdt`, `init_idt`, `init_i8259_pic`, `entry.S`, `irq_handle` and, external, processor and PIC | extends `KernelBoot` and `Segments`, and implements `KernelBoot`'s specification (`MainUndisturbed`) |
| `KeyReader` | what `get_key` promises the game | abstract |
| `Keyboard` | `get_key` and, external, controller, keyboard and typist | implements `KeyReader` (`ReaderSpec`) |
| `BlockMap` | what the bitmap promises | abstract: a set of blocks in use |
| `Bitmap` | the bytes of the bitmap | implements `BlockMap` (`MapSpec`) |
| `DiskImage` | `gen-disk`, `extract`, `fs_alloc_file_in_dir` | extends `BlockMap` |
| `Puzzle` | `kernel/game.c` and what it draws | |
| `Canvas` | what the drawing functions promise | abstract: a canvas and a screen of pixels |
| `FrameBuffer` | `draw_pixel`, `draw_pixel_bgr`, `init_video_buffer`, `update_screen`, byte by byte | implements `Canvas` (`CanvasSpec`) |
| `BootSector` | `boot/boot.S` and, external, the 8042 and address line 20 | |
| `BootLoader` | `boot/main.c` and, external, the disk | extends `BootSector`: one memory, one run from the BIOS to the kernel |
| `LogLine` | what the kernel log promises | abstract |
| `Serial` | `kernel/serial.c` and, external, the UART | implements `LogLine` (`LogDelivered`) |
| `PrintFmt` | `vsnprintf` down to `printnum`; `strtol` as its reader | |
| `MemOps` | `memset`, `memmove`, `memcpy` | |
| `Strings` | the other routines of `lib/string.c` | |
| `MCKeyboard`, `MCMachine`, `MCBootLoader`, `MCDisk`, `MCLibrary` | instances | `MCLibrary` puts the library's modules, `Bitmap`, `Serial` and `FrameBuffer` side by side |
| `PageAllocProofs`, `KernelBootProofs`, `MachineProofs` | theorems | each extends the one before, as the models do; `MachineProofs` has those about `Segments`, too |
| `KeyboardProofs`, `DiskImageProofs`, `PuzzleProofs`, `BootLoaderProofs` | theorems | |
| `LibraryProofs` | theorems about `MemOps`, `FrameBuffer`, `Serial`, `Strings` and `PrintFmt` | |

`map` in `PROJECT.json` names, for every definition that models code, the lines
it stands for.  Names are those of the code where TLA+ allows it.  Definitions
under a comment that begins with *Mutant* are plausible wrong versions of the
next definition; they are used by no specification and serve to show that each
property notices a bug.

### PageAlloc

A `PageInfo` pointer is the index of its page.  `AllocPage`, `AllocInUse` and
`AllocNoFree` are the three ways through `alloc_page`; the in-use `TEST` comes
after the list has been changed, and so it does in the model.  `Drop` is
`release_page`'s effect on the pool, with the wrap of the unsigned
`ref_count`.  The ghost `owners` counts the callers that were given a page and
have not returned it; the code has no such record.  `ReleasePage` is a caller
returning what it holds, `StrayRelease` one returning what it does not.

### KernelBoot

`pc` runs through `main`'s path: the directory, the call of `mm_continous_map`
for `[0, end)`, CR0.PG, the call for the video memory, `test_page`, the first
frame.  A page of RAM, read as a table, is a function from entries to frames;
RAM starts with junk.  An action writes through `Phys`, which is `Translate`
once paging is on; when an access translates to nothing, `PageFault` takes the
boot to `"derailed"`: `entry.S` does not drop the error code, so the `iret`
does not return to the instruction.  The union in `mm_continous_map` has two
initialisers for the same storage, and the last holds: `pg_addr` counts from 0
in each table.  `TestWalk` is `test_page`'s last loop: behind the end of the list
it reads through a null pointer, which is mapped, and then follows whatever that
yields (`Wild`), which faults.

### Machine and Segments

`mpc` is the statement of `main`, `at` the instruction of `entry` when one is
being executed.  `main`'s memory path is `KernelBoot`'s `MainStep`, a statement
at a time.  The processor pushes words on `main`'s stack and `iret` pops three;
what it finds there is not what was pushed if `addl` was left out or an error
code lies on top.  `shadow` is the delay of `sti`: one more instruction is
executed before an interrupt is taken.  `pic` is the master controller with its
requests, its lines in service and the four initialisation words; the slave is
reduced to whether it raises the master's line 2.  The gates start with what
.bss held, a present gate that leads anywhere included.  Devices may raise
`MaxRaised` interrupts, from the start.

`Segments` has `set_descriptor` and `SEG` as functions from a base and a limit
to the fields of a descriptor, and `Base` and `Limit` as what the processor makes
of the fields; 32-bit numbers are pairs of halves, so that TLC can hold them.
`Machine` uses both: `ltr` and each delivery look at the descriptors.  Of the
TSS's, `ltr` looks at the type only and no task switch uses it; that it
describes the TSS all the same is the invariant `TssDescribed`.

### Keyboard

Each `inb` is a step.  A read that finds the controller's buffer empty repeats
the last byte.  `mode` is one of several keyboards: with codes that arrive
whole, as in QEMU; the same with a small buffer that drops what does not fit;
and one whose bytes arrive one at a time, on which only keys without prefix are
pressed.  With prefixed keys on such a keyboard the second `inb` of `get_key`
reads the prefix again and the code is torn; the model says nothing about the
strokes it would then misread (the hazard at `keyboard.c:16` that `PROJECT.json`
lists without a property).

### DiskImage and Bitmap

A step of `DiskImage` is one write to the image (or one decision of the
program), and `Kill` may come between any two; `fseek` flushes, so the writes
reach the image in program order.  `a.disk` is opened, and emptied, only after
the directory's block has been allocated (`OpenDisk`, `format.c:50`): until then
it is an image of the set `Earlier`, and stays one if `gen-disk` is killed there.
The directory `dir` in `format.c` is not initialised: its contents are chosen at
the start.  `StrangeInode` is `extract` following a number out of them.

Two writes of `gen-disk` have no bound, and the model does not give them one.

* `CopyName` is the `strcpy` of the file's name into the 24 bytes of
  `fs_name`.  A name reaches `spill` slots behind its own, and leaves any of
  `GarbageOffs` and `GarbageSizes` there; one that reaches behind the last slot
  gets into the bitmap, which lies behind the directory, and leaves any of
  `NameBits`.  `fs_alloc_blk` is called after that (`AllocFile`).
* `WriteData` is one turn of `fs_write_file`'s loop, `fs_inode_off[idx++]`
  included.  The words behind `struct file` fall into three that nothing is read
  from, then into `inode_off`, then into `fp`; `inode_off'` says so for all
  lengths at once, and a damaged `fp` ends the program as `Kill` does.

What lies behind the two arrays is what the Makefile's compiler puts there
(`gcc -m32` without optimisation); the C standard says nothing about it.  The
conditions under which the properties hold are named: `Contained` (the name has
not reached the bitmap), `ShortName` (nor another slot), `Room` and `Fits` (the
block numbers are within `struct file`, and leave a word for the terminator),
`TidyDir` (the stack held no other inode number).  `NoEnd` is `extract` reading
on behind an inode without terminator.

The bitmap is a set of blocks here; `Bitmap` shows that the byte arithmetic of
`lib/fs.c` implements that set.

### Puzzle

`block` is the game's array; `screen` what `update_screen` has shown, pixel by
pixel.  A picture's pixel is its own colour, so a misplaced pixel is visible.
Drawing functions return the set of pixels they write, clipped as `draw_pixel`
does it, and `Frame` stacks them in the order of `update_frame`.

### FrameBuffer

`vmem_buffer` and the video memory are functions from addresses to bytes.
`pixel` is the address that the code computes, `At` the bytes that the adapter
shows; the two are related only by `pitch`.  A colour is that of a picture's
three bytes, put together by `get_color` and taken apart by `draw_pixel`.
`request` is the last call with its arguments: `Canvas` has the same, and its
`Paint` gives the pixel named the colour named and leaves all others alone.

### BootSector and BootLoader

The boot sector polls the keyboard controller before each of two bytes; the
controller takes a byte when it likes (`ControllerTakes`), and after the second
one the address line is on.  With the line off, `Bus` folds an address to the
megabyte below.  Nothing waits for the second byte to be taken.  That the line
is on when the first sector arrives is the one timing assumption of the model
(`DiskReady`): a disk takes milliseconds, an 8042 microseconds.

A byte of memory holds the position of the kernel file that it came from.  The
loader's actions are `readseg` up to its loop, the command and the transfer of
one sector, and the turn to the next program header.  `derailed` would be
program headers overwritten while they are walked; under the assumption that
the kernel is linked above the scratch space it is not reached.

### Serial

Each `outb` of `init_serial_com` is a step (`done` counts them), and each
character that `serial_printf`'s `putchar` is given one step behind the poll
(`count` is its `n`); `Send` takes a character from the transmitter at any time.
A character that is sent with the wrong speed or format arrives spoilt.

### PrintFmt, MemOps and Strings

One action per case of `vprintfmt`'s switch; the characters of a conversion are
put in one step, since nothing runs between two `putch`.  A field's digits are
read one by one (`WidthField`), and `WidthRead` is what the code does behind the
last.  `Unknown` is the walk back to the '%' of the `default` case, which a
format that ends within an escape takes, too.  `strtol` returns
the value and where it stopped, for any base, as `string.c` does; `NumberFields`
uses it as the reader of what was printed.  `MemOps` has a step for each
repetition of the string instruction, by words or bytes as the code chooses.
`Strings` has an action per routine, and a step is one turn of its loop: the
pointers `dst`, `src` and `tail` and the count `size` are the routine's, and
`before` is the memory when it was called.

## 3. What the runs check

| run | module | configuration | states |
|---|---|---|---|
| `page_alloc` | `PageAlloc` | `PageAlloc.cfg` | 276 228 |
| `page_release` | `PageAlloc` | `PageRelease.cfg` | violation |
| `boot` | `MCMachine` | `Machine.cfg` | 89 232 |
| `boot_range` | `KernelBoot` | `BootRange.cfg` | violation |
| `device_vectors` | `MCMachine` | `DeviceVectors.cfg` | violation |
| `keyboard` | `MCKeyboard` | `Keyboard.cfg` | 151 360 |
| `keyboard_alias` | `MCKeyboard` | `KeyboardAlias.cfg` | violation |
| `disk` | `MCDisk` | `DiskImage.cfg` | 194 402 |
| `disk_round_trip` | `MCDisk` | `DiskRoundTrip.cfg` | violation |
| `puzzle` | `Puzzle` | `Puzzle.cfg` | 340 897 |
| `boot_loader` | `MCBootLoader` | `BootLoader.cfg` | 643 506 |
| `library` | `MCLibrary` | `Library.cfg` | 221 266 |


**page_alloc.**  Five pages, every size of the image, a count modulo 4 and up to
two misuses of a frame (`MaxSkew`).  `FramesExclusive`: whatever is released by
whom, no frame has two owners.  `FreeListSound`: the list leads to no page of
the image and to none that is held.  `PanicJustified`: a PANIC means an
exhausted list or a misuse.  `PoolSpec`: the allocator implements `FramePool`,
which grants what is available and held by nobody, and halts otherwise; it does
not say when a released frame is available again, which `page_release` is about.
The modulus is small so that the count does wrap below zero.  All four are
proved for every size; that the variables keep their types is proved only
(`TypeCorrect`, and `BootTypes` for the boot).

**boot.**  `main` from `init_gdt` to the first frame.  Pages of 4 bytes, tables
and directories of 8 entries, 26 pages of RAM; images that end inside the first
directory, just below its end, and in the second and third, one of them with
exactly the pages that `test_page` logs; video memory at three places with four
sizes, one table or two; two interrupts on three lines, one of them the cascade.
`BootOutcome` says exactly which of the images boot, which derail and which
exhaust the pool.  `IdentityMap`, `TablesOwned` and `TranslationsStay` are about
the tables; `FirstFrameShown` is the liveness of the path. `HandlerAlone`: a
handler is not interrupted, so that interrupts take five words of `main`'s stack
at most, and none is served in the game.  `NoLineBlocked`: once the controllers
are set up, the first of the lines raised asks the processor, whatever was taken
before; no unfinished interrupt and no mask is in its way, though no handler
ever sends an end of interrupt.  `TssDescribed`: the descriptor of the TSS
begins at it and holds it, and the other two are flat.  `MainUndisturbed` is a
refinement: with interrupts between any two statements `main` does what
`KernelBoot` says, which knows of none, and ends where it says.  Two interrupts
are the fewest of which one can meet the handler of the other.

**keyboard.**  Four strokes of two keys.  `ReaderSpec`: strokes are reported in
order, at most once, after their release.  `ReadsWholeCodes`: a code that
arrives whole is read whole, though `get_key` never asks for it.  `WaitEnds` and
`LoneStrokeReturned` are liveness, for keyboards that lose no code.  Four
strokes allow one to be read, one to overlap it and one to follow in the buffer.

**disk.**  Ten blocks of two bytes, two of them the bitmap's own, inodes of four
words, directories of two slots and files of 0 to 9 bytes: none, one that ends
in the middle of a block and at its end, one that fills the inode and one that
overruns it.  Names that end in their slot, reach the next one, or the bitmap;
an image that was empty, or held a file.  `WriteOnce`: no block of the image is
written twice.  `BitmapExact`: the bitmap marks every block that holds
something, and no other if the file fits its inode. `KilledShowsNothing`: a
killed `gen-disk` leaves no file, or the earlier image. `FileReadBack`: a file
that fits is read back from its slot, whatever is in the other ones.
`RoundTripEnds`: if the name is short and the directory was clean, `extract`
ends, with the file and nothing else.  The inode numbers of the stack and of a
long name (`GarbageOffs`) are the two that the code tells apart, one that is the
file's own inode, one of a block that holds something else and one behind the
image.

**puzzle.**  Two by three blocks of 3 by 3 pixels on a screen that is larger
than the picture, which has a remainder beyond the last block; all 720 orders
are reached.  `ScreenTells` and `SwapsWhatIsMarked` tie what the player sees to
what the next key does.  All five properties are proved, too.

**boot_loader.**  The boot sector and the loader, from the BIOS to the kernel's
entry: a controller that is busy or not, an address line that the BIOS has
switched on or not, up to three segments at six addresses on both sides of the
line's bit, of four lengths (none, one byte, a sector, nearly two) and two
places in the file; a disk that may be busy from the start.  `KernelLoaded` says
*exactly when* all segments are in memory: unless the *last* segment that shares
a sector of memory with the end of an earlier one lies at another distance from
its place in the file.  Three segments are the fewest that show why the last one
counts: `readseg` fills whole sectors, and with a third segment that shares the
sector and lies where the first one does, what the second spoilt is put right.
`NothingElseTouched`: no other byte changes, those of `ModeInfoBlock` included.
`LoaderEnds` is liveness.

**library.**  One call, or one sequence of calls, of one of six parts.

* All formats `%xyq` and `%xyzq` over the escape characters and some longer ones,
  ints of 8 and long longs of 16 bits with their extremes, buffers of 0, 1, 4 and
  8 bytes.  `SnprintfContract`: nothing is written behind the buffer, it is
  terminated and the length of the whole text is returned.  `FormatKept`: the
  format is not read behind its NUL.  `StringFields`: a string is padded to its
  width around what its precision shows.  All three are proved, too.
  That a string has a padded field at all, and where `-` puts its padding, is not
  what the comments say: see the end of this section.
  `NumberFields`: a number is as wide as asked, `%llp` included, and `strtol`
  reads it back and stops at its end, unless it was padded by `-` or by blanks
  behind its sign.
* All calls of `memset` and `memmove` within 14 bytes with words of 4.
  `MoveExact` is proved, too.
* Each routine of `Strings` on all strings of up to two and three bytes, a small
  one and one above 127, with counts from 0 to behind the NUL.
  `StringsAsPromised` compares what a routine left and answered with
  definitions over sequences; it is proved, too.
* A bitmap of two bytes of four bits: `fs_alloc_blk` crosses a byte, fills up and
  finds each place within a byte, over all 256 contents.  `MapSpec` is the
  refinement of `BlockMap`.
* Three log lines over a UART with another speed, the latch bit set or not and
  a character in its transmitter or none.  `LogDelivered` is the refinement of
  `LogLine`, its liveness included; the safety half is proved, too.
* All sequences of drawing operations on two by two pixels with a padding byte
  per row and one behind the rows, with coordinates off the screen on every
  side.  `CanvasSpec` is the refinement of `Canvas`: the pixel asked for gets
  the colour asked for, byte by byte, and no other pixel changes, none at all
  for one off the screen.  It is proved, too.

### Where code and comments disagree

* **A released page is lost** (`page_release`, `page.c:186-187`).  `page->next
  = free_page_list; free_page_list = page->next;` leaves the head as it was.
  The comments call the function "release the page".  What is still true of the
  allocator is what `page_alloc` shows: nothing that is held is handed out again.
* **The last partial page of the image may not be mapped** (`boot_range`,
  `page.c:111`).  The comment says `[start, end)`; the end is rounded down.  An
  image that ends in the second table's part or later is mapped because the
  entries are counted from 0 in every table.
* **The devices' vectors overlap with the exceptions'** (`device_vectors`,
  `interrupt.c:29`).  The comment says that the interrupt numbers overlap with
  the 32 reserved ones and that the set-up deals with that; ICW2 is 0x00, so the
  timer is vector 0, the divide error.  All gates lead to the same empty handler,
  so that nothing comes of it: this is what `MainUndisturbed` shows.
* **A stale byte ends the wait** (`keyboard_alias`, `keyboard.c:22`).  An arrow
  key and the pad's digit key share their code but for the prefix; the release
  of the one leaves on the port what the release of the other would be.
* **A file of 128 blocks does not round-trip** (`disk_round_trip`,
  `format.c:17`).  `struct file` has room for 128 words; the 128th leaves no
  terminator, the next ones are written behind it.  In bytes: 65 024 round-trip,
  65 025 do not.

Four smaller ones are not in a run of their own.

* The comment at the head of `printfmt.c` (12-13) says that padding and a field
  width are supported for the numeric formats only.  `%s` has both (178-187):
  `%5s` puts blanks in front, `%-5s` behind.  `StringFields` says of such a field
  what the code does.
* The comment at the `-` flag (`printfmt.c:107`) says "flag to pad on the right".
  For `%s` it does; `printnum` (43) knows `padc` only as the character that it
  puts in front of the digits, so that `%-5d` of 12 is `---12`.  `NumberFields`
  says of such a field only how wide it is: on where its padding goes, code and
  comment disagree.
* The comment of `draw_pixel` (`video.c:101`) calls its colour RGB; the topmost
  byte is stored as blue, and `get_color` reads a picture in the same order, so
  that pictures come out right, which `CanvasSpec` shows.
* `segment.c:54` sets the I/O map base of the TSS to 104 to have no I/O map;
  `set_descriptor` always sets the granularity bit, which makes the TSS's limit
  0xfff, and 104 lies inside.  Nothing runs outside ring 0, where alone the map
  is looked at.

## 4. Fairness

* `Machine`: weak fairness of the processor, which always goes on to some next
  instruction, `main`'s or `entry`'s; none of the devices, which need not raise
  anything.  That interrupts do not keep `main` from running follows from the
  bound on their number: a device that raises faster than the handler returns
  would.
* `KernelBoot`: weak fairness of the whole path, which `Machine` is shown to
  provide (`MainUndisturbed`).
* `Keyboard`: weak fairness of `get_key` (the processor does nothing but poll)
  and of the delivery of bytes; strong fairness of each key's release (nobody
  holds a key for ever; strong, since a full buffer may disable it again and
  again).
* `DiskImage`: weak fairness of `gen-disk` and `extract`, none of `Kill`.
* `BootLoader`: weak fairness of the boot sector and the loader, which have the
  processor for themselves, of the keyboard controller, which takes its bytes,
  and of the disk, which answers.
* `Serial`: weak fairness of the kernel, which does nothing but poll, and of the
  UART, which sends.
* `PageAlloc`, `Bitmap`, `Puzzle`, `FrameBuffer`, `PrintFmt`, `MemOps` and
  `Strings` need none: their properties are about safety.

## 5. What is proved

For every value of the constants that the modules' assumptions allow:

| theorem | says |
|---|---|
| `PageAllocProofs!TypeCorrect` | `Spec => []TypeOK` |
| `PageAllocProofs!Exclusive` | `Spec => []FramesExclusive` |
| `PageAllocProofs!Disciplined` | without misuse the counts are the numbers of owners, and the only PANIC is that of the empty list |
| `PageAllocProofs!FreeSound` | `Spec => []FreeListSound` |
| `PageAllocProofs!PanicsJustified` | `Spec => []PanicJustified` |

| `PageAllocProofs!Refinement` | `Spec => PoolSpec`, the allocator implements `FramePool` |
| `KernelBootProofs!BootInvariant`, `BootTypes` | the inductive invariant, and `BootSpec => []BootTypeOK` |
| `KernelBootProofs!Outcomes` | `BootSpec => []BootOutcome` |
| `KernelBootProofs!MapsToItself` | `BootSpec => []IdentityMap` |
| `KernelBootProofs!TablesAreOwned` | `BootSpec => []TablesOwned` |
| `KernelBootProofs!NothingUnmapped` | `BootSpec => TranslationsStay` |
| `MachineProofs!DescriptorKept` | a descriptor keeps the base, and the limit up to the end of its page |
| `MachineProofs!KernelFlat` | the kernel's segments cover all addresses from 0 |
| `MachineProofs!MachineInvariant`, `HandlersAlone` | the inductive invariant, and `MachineSpec => []HandlerAlone` |
| `MachineProofs!LinesOpen` | `MachineSpec => []NoLineBlocked` |
| `MachineProofs!TaskSegment` | `MachineSpec => []TssDescribed` |
| `MachineProofs!Undisturbed` | `MachineSpec => BootInit /\ [][BootNext]_bootVars`: with interrupts `main` takes the steps of `KernelBoot`, or none |
| `MachineProofs!MachineBoots` | so the four properties of the boot hold of the machine |
| `KeyboardProofs!KeyInvariant` | the inductive invariant |
| `KeyboardProofs!WholeCodes` | `Spec => []ReadsWholeCodes` |
| `KeyboardProofs!Waits` | `Unambiguous => (Spec => []WaitsForRelease)` |
| `KeyboardProofs!Implements` | `Unambiguous => (Spec => ReaderSpec)`, `get_key` implements `KeyReader` |
| `DiskImageProofs!Invariant` | the inductive invariant |
| `DiskImageProofs!Once` | `DiskSpec => WriteOnce` |
| `DiskImageProofs!Exact` | `DiskSpec => []BitmapExact` |
| `DiskImageProofs!NothingShown` | `DiskSpec => []KilledShowsNothing` |
| `DiskImageProofs!ReadsBack` | `DiskSpec => []FileReadBack` |
| `PuzzleProofs!TypeCorrect` | `Spec => []TypeOK`: every index is within the array |
| `PuzzleProofs!Permuted` | `Spec => []BlocksPermuted` |
| `PuzzleProofs!EndsRight` | `Spec => []EndsWhenSolved` |
| `PuzzleProofs!ScreenShows` | `Spec => []ScreenTells` |
| `PuzzleProofs!SwapsMarked` | `Spec => SwapsWhatIsMarked` |
| `BootLoaderProofs!LoaderInvariant` | the inductive invariant |
| `BootLoaderProofs!OnlyItsSectors` | `Spec => []NothingElseTouched` |
| `BootLoaderProofs!Loads` | `Spec => []KernelLoaded` |
| `LibraryProofs!Exact` | `MemSpec => []MoveExact` |
| `LibraryProofs!Shown` | `DrawSpec => CanvasSpec`, the bytes implement the canvas |
| `LibraryProofs!LogShown` | `SerialSpec` implies the initial states and the steps of `LogLine` |
| `LibraryProofs!Promised` | `StringSpec => []StringsAsPromised` |
| `LibraryProofs!PrintInvariant`, `BufferKept` | the inductive invariant, and `PrintSpec => []SnprintfContract` |
| `LibraryProofs!FormatRead` | `PrintSpec => []FormatKept` |
| `LibraryProofs!StringsFielded` | `PrintSpec => []StringFields` |

**The allocator.**  None of the properties is inductive: that a page on the list
has no owner depends on the shape of the whole list.  The invariant `IInv` says
that the list is an ascending *tail* of `page_pool`, from `ListTop` to the last
page, whose pages have no owner and a count that is zero or was brought below
zero.  `alloc_page` moves `ListTop` up by one; `release_page` leaves the head
where it is and writes a link only into a page below `ListTop`, or into one of
the tail whose count returns to zero, which the bound on misuse excludes.  What
the list leads to (`FreePages`, the least closed set) is then that tail; this is
the one induction, done with the least member of the set of pages missed.
Assumptions (`PageAssumption`): more than one page, a count of at least three
values, fewer misuses of a frame than it takes to bring its count all the way
round (2^32 in the code).

**The boot path.**  `BootIInv` stands on the allocator's invariant: because frames
are granted in ascending order, the table of each directory entry is a page known
in advance (`TablePage`), and the invariant says entry by entry what directory
and tables hold (`Laid`), for the directories linked so far (`Done`) and within
the turn at hand (`Turn`).  Whether an access of `page.c` translates once paging
is on is then arithmetic: the first call maps the pages below `KernelEnd` of its
first directory entry, and all of the later ones, since their entries are counted
from 0.  That is what `TablesReachable` says and what the boot's outcome
hangs on.

**The machine.**  `MachineIInv` adds which statements of `main` go with which of
the boot path (`Stage`), that descriptors (`Loaded`), gates and the controller's
words (`Programmed`) are in place before anything is delivered through them,
what the stack holds at each instruction of `entry` (`Stacked`), and when
interrupts are off (`Masked`).  `HandlerAlone` follows from the last two.
`Open` says that, from ICW1 on, no line of the master is masked or in service:
with automatic end of interrupt a delivery leaves none there, and
`NoLineBlocked` follows.  Each step is then one of `KernelBoot`'s or leaves its
variables alone: `Undisturbed` is the safety half of `MainUndisturbed`.  That
`main` also runs on is left to TLC.  The number of interrupts and the set of
devices are arbitrary.

**The keyboard.**  The proof looks at the bytes in the order in which `get_key`
can still see them: the one that the port shows, the controller's buffer, the
wire (`At`).  The stream grows at its end and shrinks at its beginning, or stands
still while a byte is read again.  In it the makes come in the order of their
strokes, so do all bytes of one key, and no make follows its own break
(`InOrder`); a prefix is followed by its code (`Paired`).  While `get_key` looks
for a press code, all makes to come are of strokes newer than the last one
returned (`Seeking`): with the break of that stroke on the port, what is stale
cannot look like a press.  While it waits, no byte to come is older than the
press code's stroke (`Waiting`), so that the break it waits for ends that stroke
or a later one of the same key, and then the earlier one has ended, too.
`ReaderSpec` and `WaitsForRelease` need `Unambiguous`: among the keys in use a
code belongs to one key, and no prefixed code is torn.  The first half is what
the run `keyboard_alias` shows to be needed; the second is the limit of the model
stated in section 2.  The invariant's other parts hold without it.  Lost codes
are no exception: a code that does not fit is dropped whole.

**The disk image.**  The blocks in use are always the first ones, so that
`fs_alloc_blk`'s result is known (`Allocated`); what has been written is known
from where `gen-disk` is (`Laid`), and is nothing before the image is opened
(`Steps`); what `extract` has copied ends with a beginning of the file while it
reads the file's slot, and holds the whole file after that (`Reading`, `Holds`).
A killed `gen-disk` leaves a hole for a directory (`Hidden`).  All of this is said
of runs whose name has not reached the bitmap (`Contained`), which is settled when
the name is copied and does not change afterwards.  The length of the inode is
no part of it beyond what the size of the file gives: the overrun is followed to
its end.

**The puzzle.**  `IInv` is `TypeOK`, `BlocksPermuted` and `EndsWhenSolved`
together.  The exchange is within the array because a cursor in range makes an
index in range (`PlaceInRange`), and keeps the permutation.  `check_valid`
compares neighbours only; `AscendingIsSolved` shows that a permutation whose
neighbours ascend is the identity, by a least counterexample from each end.
For the screen, `BorderIsRim` shows that the four bars of `draw_border` are what
lies within `Thick` of the edge, `RimsApart` that borders of different places
share no pixel, and `MiddleNotInRim` and `MiddleNotInLines` that the middle of a
block is under no border and no line; so the frame that `update_frame` leaves
tells the state (`FrameTells`), and stays until a key has been read (`Current`).

**The boot loader.**  The hand-shake with the 8042 and the wait for the disk make
sure that the address line is on when a sector is taken (`Handshake`, `Line`);
`Progress` relates `readseg`'s locals to the header at hand; `Contents` says of
every byte of memory that it is as it was, or from the *last* segment whose
sectors hold it.  A byte can be wrong only in the last sector of a segment, since
segments ascend, and there only through a later one: which gives the exact
condition of `KernelLoaded`.  An earlier form of that condition let any later
segment that shares a sector spoil the kernel.  It cannot be proved, and with
three segments TLC refutes it: what one segment spoils, a third in the same
sector may put right.

**memset and memmove.**  The invariant names the part of the destination that
has been written, from below or from above, and says that all else is as it
was; the direction that the code chooses keeps what is still to be read outside
that part, and the choice between words and bytes makes the repetitions cover
the range exactly.

**Drawing.**  Three lemmas carry the refinement.  `PixelInside`: the three bytes
of a pixel on the screen are in the buffer, by the assumption that `Yres` rows
of `pitch` bytes fit.  `PixelsApart`: two pixels share no byte, in one row
because a pixel has three bytes, in two because a row has `pitch` of them and
`pitch` is at least `3 * Xres`.  `BytesApart`: `draw_pixel` takes a colour apart
into the bytes that `get_color` put together.  So a step of `draw_pixel` is the
`Paint` of the pixel asked for with the colour asked for, which changes nothing
when it is off the screen.

**The serial log.**  `SerialIInv` says which registers `init_serial_com` has
written, hence what speed and format are set and that nothing of the BIOS's is
left in the transmitter once the FIFO has been cleared; that a character is
written only after the line status has told of room; and that the terminal
shows what has been written less what waits.  A step of the model then shows
nothing or the next character.  The depth of the FIFO, the lines and what the
BIOS left are arbitrary.

**The string routines.**  The invariant relates pointers and count to the
strings at the time of the call: the bytes placed so far are the first of what
the routine is to leave, and all else is as it was (`Changed`); what has been
compared agreed (`Together`); what has been passed over was not what is looked
for (`Missed`); and `size` has gone down by the number of turns (`Counted`).
A writer also reads: that the source is still what it was rests on the
assumption that the caller's room does not overlap it (`RoomApart`), as the
standard asks.  `Promised` then holds for memories of any length and any bytes,
strings of any length and any count, 0 included.

**vsnprintf.**  `Buffered` says that the cells below `next` hold the beginning
of what was put, that `next` is the lesser of its length and `n - 1`, and that
all other cells are as they were: so the NUL has its place, whatever is put
(`PutBuffered`).  `Reading` says that within an escape a '%' lies before the next
character; the walk back of the `default` case ends there at the latest, which
is why a NUL that was consumed inside an escape is met again (`FormatRead`).
That every conversion puts a sequence of characters at all is, for a number, a
matter of a recursive function: `DigitsDefined` shows, by least counterexamples,
that `printnum`'s recursion defines a function for base 10 and for base 16.
Formats, strings, arguments and buffer sizes are arbitrary, negative widths and
sizes included.

**Descriptors.**  `Join` is the arithmetic of cutting a number of
sixteen bits at 8 or 12 and putting it together again.

Only model-checked: all liveness (`FirstFrameShown`, `WaitEnds`,
`LoneStrokeReturned`, `RoundTripEnds`, `LoaderEnds`, and the liveness in
`MainUndisturbed` and `LogDelivered`), which is outside the prover's reach;
`NumberFields`, which compares a recursion over digits with a fold over
characters and with powers of the base, an induction over data; and `MapSpec`,
whose module uses the bit operators, so that nothing can be proved about it.

## 6. Assumptions about what is outside the source

* `end` lies behind `.bss` and all common symbols (`kernel.ld` collects
  `*(.bss)`), and the image is smaller than the RAM.
* RAM holds anything at boot, .bss included; the video memory lies above the RAM
  and begins where a table's part does (adapters align their window to its
  size): `mm_continous_map` counts entries from 0 and would map another one to
  the wrong frames; the VBE mode's picture is at least as large as the buffer.
* For `FrameBuffer`, the rows of the mode fit into `vmem_buffer`: `draw_pixel`
  clips by the resolution only.
* The 8042 takes its last byte before the disk has the first sector.
* ICW1 clears the PIC's masks and forgets pending edges; `sti` takes effect after
  the next instruction; a double fault that cannot be delivered resets.
* The keyboard controller shows the last byte again when its buffer is empty;
  before the first stroke that byte is the answer 0xFA to the BIOS.
* A killed `gen-disk` is a killed process, not a power failure: what was
  flushed stays.
* Behind the directory of `format.c` lies the bitmap, behind `struct file` three
  words that nothing is read from, `inode_off` and `fp`: the stack of the build
  that the Makefile makes.
* The image that `a.disk` was before is one of `Earlier`, which the theorems leave
  open; the image given to `extract` is the one `gen-disk` left.
* The kernel's segments ascend, do not overlap, lie above the loader's scratch
  space and are congruent to their place in the file, as the linker makes them.
* The picture fits on the screen and is at least one block in size.
* A page directory has no more entries than a page has words (`NPD <= NPT`; both
  are 1024).
* The caller of `memset` and `memmove` owns both ranges, and neither wraps round
  the end of the address space.

## 7. What is not modelled

* Within `boot/boot.S`, the switch to protected mode: one step, since nothing can
  come between; the BIOS's answer is taken as it is.
* The slave PIC beyond its mask, spurious interrupts, registers other than
  `esp` around `irq_handle` (it is empty and changes none), the TSS's contents.
* The wording of `LOG`, `TEST` and `PANIC`.  The PANICs themselves are in
  `PageAlloc`.
* The C versions of `memset` and `memmove`, which `#if ASM` excludes;
  `kernel/text.c` (marked as disused); printing of bitmaps and `fs_get_blk_sz`,
  which nothing calls.
* What `game_mainloop` returns to (it has no caller).
* A code whose bytes reach the controller one by one while a prefixed key is
  pressed (section 2, Keyboard).
* What becomes of a process whose `fp` was overwritten, and of a path of which
  the copied part runs on behind the bitmap.
* `inc/` beyond the definitions that the modules use (`memlayout.h`, most of
  `mmu.h` and `x86.h` are not used by the kernel, either), and the build scripts.

## 8. Plan

1. Done: `PageAlloc` with its refinement and proofs, `KernelBoot` over it and
   `Machine` over that, `Keyboard`, the file system, `Puzzle`, `FrameBuffer` with
   its proof, `BootSector` and `BootLoader`, `Segments`, `Serial`, the library.
2. Done: the safety of all of these is proved (section 5), but for `NumberFields`
   and `MapSpec`.
3. Left: nothing of the plan.  The bitmap could be proved about if a byte were a
   set of bits, but then the trick of `mask & -mask`, which is what could be wrong
   there, would be assumed; the run checks it over all contents of two bytes.
