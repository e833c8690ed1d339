----------------------------- MODULE DiskImage ------------------------------
(***************************************************************************)
(* gen-disk (fs-test/format.c) writes one file into a fresh disk image,    *)
(* extract (fs-test/extract.c) reads the image back; lib/fs.c allocates    *)
(* the blocks.  The blocks in use are those of BlockMap, which the bitmap  *)
(* of lib/fs.c implements (module Bitmap).                                 *)
(*                                                                         *)
(* A block of the image is a record of what was written there; block       *)
(* number 0xffffffff (ALL1) is a place on the disk of its own, far behind  *)
(* the others.  The writes reach the image in the order of the program     *)
(* (every fseek flushes), and gen-disk may be killed between any two.      *)
(*                                                                         *)
(* Two writes of gen-disk are not bounded: the copy of the file's name     *)
(* into the directory and the array of block numbers in struct file.  What *)
(* lies behind them is what the Makefile's build (gcc -O0) puts there: the *)
(* bitmap behind the directory; unused bytes, inode_off and then fp behind *)
(* struct file.  A damaged fp ends gen-disk, as Kill does.                 *)
(***************************************************************************)
EXTENDS BlockMap, Sequences

CONSTANTS Header,      \* blocks of the bitmap itself, sizeof(bm) / 512
          BlkSize,     \* bytes of a block, 512
          Words,       \* block numbers that fit into struct file, 128
          NSlots,      \* entries of a directory, 15
          MaxSize,     \* bound on the size of the file
          MaxSpill,    \* bound on the slots that a name reaches behind its own
          GarbageOffs, \* inode numbers that the stack, or a long name, may leave
          GarbageSizes,\* file sizes that they may leave
          NameBits,    \* bitmaps that a name behind the directory may leave
          Earlier,     \* what a.disk may hold before gen-disk opens it
          SizeMod      \* file sizes are unsigned integers modulo SizeMod

Slots == 0..(NSlots - 1)
BlocksOf(size) == (size + BlkSize - 1) \div BlkSize

Addr == Blocks \cup {ALL1}
SlotSet == [Slots -> [off : Addr \cup GarbageOffs, size : 0..(SizeMod - 1)]]

(* What a block of the image can hold.                                     *)
Contents == [t : {"hole"}, v : {0}]
            \cup [t : {"data"}, v : Nat]
            \cup [t : {"inode"}, v : {q \in Seq(Addr) : Len(q) <= Words}]
            \cup [t : {"bitmap"}, v : SUBSET Blocks]
            \cup [t : {"dir"}, v : SlotSet]

ASSUME DiskAssumption ==
    /\ {Header, BlkSize, Words, NSlots, SizeMod} \subseteq Nat \ {0}
    /\ MaxSize \in Nat /\ MaxSize < SizeMod
    /\ Header + 2 + BlocksOf(MaxSize) <= NBlocks
    /\ MaxSpill \in Nat
    /\ GarbageOffs \subseteq Nat /\ GarbageSizes \subseteq 0..(SizeMod - 1)
    /\ NameBits \subseteq SUBSET Blocks
    /\ Earlier \subseteq [Addr -> Contents]

VARIABLES size,     \* bytes of the file
          spill,    \* slots behind its own that the file's name reaches into
          pc,       \* where gen-disk or extract is
          killed,   \* gen-disk was killed
          opened,   \* gen-disk has opened a.disk
          dir,      \* format.c: the directory, in memory
          taken,    \* the slot that the file was given, NSlots if none
          inode,    \* format.c: the words written from file.fs_inode_off on
          inode_off,\* format.c: the block for struct file
          disk,     \* the image
          root,     \* extract.c: the directory read
          slot,     \* extract.c: i
          file,     \* extract.c: the block numbers read
          j,        \* extract.c: j
          filesz,   \* extract.c: bytes left
          dump      \* what extract has written

format == <<size, spill, killed, opened, dir, taken, inode, inode_off>>
extract == <<root, slot, file, j, filesz, dump>>
diskVars == <<mapVars, format, extract, pc, disk>>

Hole == [t |-> "hole", v |-> 0]
Zeros == [s \in Slots |-> [off |-> 0, size |-> 0]]
Entries == [off : GarbageOffs, size : GarbageSizes]

(* `dir' is not initialised; a.disk is still that of an earlier run.       *)
DiskInit == /\ MapInit
            /\ size \in 0..MaxSize
            /\ spill \in 0..MaxSpill
            /\ pc = "start"
            /\ killed = FALSE
            /\ opened = FALSE
            /\ dir \in [Slots -> Entries]
            /\ taken = NSlots
            /\ inode = <<>>
            /\ inode_off = ALL1
            /\ disk \in Earlier
            /\ root = Zeros /\ slot = 0 /\ file = <<>> /\ j = 0 /\ filesz = 0
            /\ dump = <<>>

-----------------------------------------------------------------------------
(* Mutant: the last block of the bitmap is not marked.                     *)
StartOneLess == /\ pc = "start"
                /\ used' = 0..(Header - 2)
                /\ pc' = "dirblk"
                /\ UNCHANGED <<result, format, extract, disk>>

(* Mutant: one block too many is marked.                                   *)
StartOneMore == /\ pc = "start"
                /\ used' = 0..Header
                /\ pc' = "dirblk"
                /\ UNCHANGED <<result, format, extract, disk>>

(* main marks the blocks of the bitmap itself ...                          *)
Start == /\ pc = "start"
         /\ used' = 0..(Header - 1)
         /\ pc' = "dirblk"
         /\ UNCHANGED <<result, format, extract, disk>>

(* ... and allocates one for the directory.                                *)
AllocDirBlk == /\ pc = "dirblk"
               /\ Alloc
               /\ pc' = "open"
               /\ UNCHANGED <<format, extract, disk>>

(* fopen for writing empties the image.                                    *)
OpenDisk == /\ pc = "open"
            /\ opened' = TRUE
            /\ disk' = [b \in Addr |-> Hole]
            /\ pc' = "slot"
            /\ UNCHANGED <<mapVars, size, spill, killed, dir, taken, inode,
                           inode_off, extract>>

(* fs_alloc_file_in_dir takes the first slot whose inode number is not     *)
(* 0xffffffff and copies the name into it, and on over the slots behind,   *)
(* or over the bitmap behind the directory.                                *)
CopyName == /\ pc = "slot"
            /\ \E s \in Slots :
                  /\ dir[s].off # ALL1
                  /\ \A r \in 0..(s - 1) : dir[r].off = ALL1
                  /\ taken' = s
                  /\ \E over \in [{r \in Slots : s < r /\ r <= s + spill} -> Entries] :
                        dir' = [r \in Slots |-> IF r \in DOMAIN over THEN over[r] ELSE dir[r]]
                  /\ used' \in IF s + spill < NSlots THEN {used} ELSE NameBits
            /\ pc' = "name"
            /\ UNCHANGED <<result, size, spill, killed, opened, inode, inode_off,
                           extract, disk>>

(* It allocates a block for the inode and enters it with the file's size.  *)
AllocFile == /\ pc = "name"
             /\ Alloc
             /\ dir' = [dir EXCEPT ![taken] = [off |-> result', size |-> size]]
             /\ inode_off' = result'
             /\ pc' = "data"
             /\ UNCHANGED <<size, spill, killed, opened, taken, inode, extract, disk>>

(* No slot: 0xffffffff becomes the number of the inode's block.            *)
NoSlot == /\ pc = "slot"
          /\ \A s \in Slots : dir[s].off = ALL1
          /\ inode_off' = ALL1
          /\ pc' = "data"
          /\ UNCHANGED <<mapVars, size, spill, killed, opened, dir, taken, inode,
                         extract, disk>>

(* fs_write_file: one turn of its loop.  A word behind struct file falls   *)
(* into bytes that nothing else is read from, or becomes inode_off.        *)
WriteData == /\ pc = "data"
             /\ Len(inode) < BlocksOf(size)
             /\ Alloc
             /\ inode' = Append(inode, result')
             /\ disk' = [disk EXCEPT ![result'] = [t |-> "data", v |-> Len(inode)]]
             /\ inode_off' \in {inode_off} \cup IF Len(inode) < Words THEN {} ELSE {result'}
             /\ UNCHANGED <<size, spill, killed, opened, dir, taken, extract, pc>>

(* struct file is written, as many words as it has.                        *)
WriteInode == /\ pc = "data"
              /\ Len(inode) = BlocksOf(size)
              /\ LET words == IF Len(inode) <= Words THEN inode ELSE SubSeq(inode, 1, Words)
                 IN  disk' = [disk EXCEPT ![inode_off] = [t |-> "inode", v |-> words]]
              /\ pc' = "bitmap"
              /\ UNCHANGED <<mapVars, format, extract>>

(* Mutant: the directory is written first.                                 *)
WriteDirFirst == /\ pc = "bitmap"
                 /\ disk' = [disk EXCEPT ![Header] = [t |-> "dir", v |-> dir]]
                 /\ pc' = "dir"
                 /\ UNCHANGED <<mapVars, format, extract>>

(* main goes back to the start of the image, writes the bitmap ...         *)
WriteBitmap == /\ pc = "bitmap"
               /\ disk' = [b \in DOMAIN disk |->
                              IF b \in 0..(Header - 1)
                              THEN [t |-> "bitmap", v |-> used] ELSE disk[b]]
               /\ pc' = "dir"
               /\ UNCHANGED <<mapVars, format, extract>>

(* ... and the directory behind it.                                        *)
WriteDir == /\ pc = "dir"
            /\ disk' = [disk EXCEPT ![Header] = [t |-> "dir", v |-> dir]]
            /\ pc' = "formatted"
            /\ UNCHANGED <<mapVars, format, extract>>

Kill == /\ pc \in {"start", "dirblk", "open", "slot", "name", "data", "bitmap", "dir"}
        /\ killed' = TRUE
        /\ pc' = "formatted"
        /\ UNCHANGED <<mapVars, size, spill, opened, dir, taken, inode, inode_off,
                       extract, disk>>

-----------------------------------------------------------------------------
(* What the image has at a block number; nothing is behind its end.        *)
Stored(b) == IF b \in Addr THEN disk[b] ELSE Hole

(* extract reads the directory: a hole of the image reads as zeros.        *)
ReadRoot == /\ pc = "formatted"
            /\ disk[Header].t \in {"hole", "dir"}
            /\ root' = IF disk[Header] = Hole THEN Zeros ELSE disk[Header].v
            /\ pc' = "scan"
            /\ UNCHANGED <<mapVars, format, slot, file, j, filesz, dump, disk>>

(* Another block is where the directory should be: its words are taken for *)
(* block numbers.                                                          *)
StrangeRoot == /\ pc = "formatted"
               /\ disk[Header].t \notin {"hole", "dir"}
               /\ pc' = "wild"
               /\ UNCHANGED <<mapVars, format, extract, disk>>

(* A slot is empty for extract when its inode number is 0.                 *)
SkipSlot == /\ pc = "scan"
            /\ slot < NSlots
            /\ root[slot].off = 0
            /\ slot' = slot + 1
            /\ UNCHANGED <<mapVars, format, root, file, j, filesz, dump, pc, disk>>

ReadInode == /\ pc = "scan"
             /\ slot < NSlots
             /\ root[slot].off # 0
             /\ Stored(root[slot].off).t = "inode"
             /\ file' = Stored(root[slot].off).v
             /\ filesz' = root[slot].size
             /\ j' = 0
             /\ pc' = "copy"
             /\ UNCHANGED <<mapVars, format, root, slot, dump, disk>>

(* The number is the stack's: the words of another block, or of no block   *)
(* at all, are taken for block numbers.  They may end at once, or not      *)
(* before something has been copied, or not before the program crashes.    *)
StrangeInode == /\ pc = "scan"
                /\ slot < NSlots
                /\ root[slot].off # 0
                /\ Stored(root[slot].off).t # "inode"
                /\ \/ slot' = slot + 1 /\ UNCHANGED <<dump, pc>>
                   \/ /\ slot' = slot + 1
                      /\ dump' = Append(dump, [s |-> slot, v |-> Hole, n |-> BlkSize])
                      /\ UNCHANGED pc
                   \/ pc' = "wild" /\ UNCHANGED <<slot, dump>>
                /\ UNCHANGED <<mapVars, format, root, file, j, filesz, disk>>

(* Mutant: the number of bytes left is not brought forward.                *)
CopyBlockAll ==
    /\ pc = "copy"
    /\ j < Len(file)
    /\ dump' = Append(dump, [s |-> slot, v |-> disk[file[j + 1]], n |-> BlkSize])
    /\ j' = j + 1
    /\ UNCHANGED <<mapVars, format, root, slot, file, filesz, pc, disk>>

(* Mutant: j is not incremented.                                           *)
CopyBlockAgain ==
    /\ pc = "copy"
    /\ j < Len(file)
    /\ filesz' = (filesz + SizeMod - BlkSize) % SizeMod
    /\ UNCHANGED <<mapVars, format, root, slot, file, j, dump, pc, disk>>

(* One block is copied, the last one only as far as the file goes.         *)
CopyBlock == /\ pc = "copy"
             /\ j < Len(file)
             /\ LET n == IF filesz < BlkSize THEN filesz ELSE BlkSize
                    piece == [s |-> slot, v |-> disk[file[j + 1]], n |-> n]
                IN  dump' = IF n = 0 THEN dump ELSE Append(dump, piece)
             /\ j' = j + 1
             /\ filesz' = (filesz + SizeMod - BlkSize) % SizeMod
             /\ UNCHANGED <<mapVars, format, root, slot, file, pc, disk>>

(* The rest of struct file is 0xcc: the next word ends the file.           *)
EndOfFile == /\ pc = "copy"
             /\ j = Len(file)
             /\ j < Words
             /\ slot' = slot + 1
             /\ pc' = "scan"
             /\ UNCHANGED <<mapVars, format, root, file, j, filesz, dump, disk>>

(* No word is 0xcccccccc: extract reads on behind struct file.             *)
NoEnd == /\ pc = "copy"
         /\ j = Len(file)
         /\ j = Words
         /\ pc' = "wild"
         /\ UNCHANGED <<mapVars, format, extract, disk>>

Finish == /\ pc = "scan"
          /\ slot = NSlots
          /\ pc' = "done"
          /\ UNCHANGED <<mapVars, format, extract, disk>>

GenDisk == \/ Start \/ AllocDirBlk \/ OpenDisk
           \/ CopyName \/ AllocFile \/ NoSlot
           \/ WriteData \/ WriteInode
           \/ WriteBitmap \/ WriteDir

Extract == \/ ReadRoot \/ StrangeRoot \/ SkipSlot \/ ReadInode \/ StrangeInode
           \/ CopyBlock \/ EndOfFile \/ NoEnd \/ Finish

DiskNext == GenDisk \/ Kill \/ Extract

(* Both programs run on while they can.                                    *)
DiskSpec == DiskInit /\ [][DiskNext]_diskVars /\ WF_diskVars(GenDisk \/ Extract)

-----------------------------------------------------------------------------
(* A block of the file as extract should write it.                         *)
Piece(k) == [v |-> [t |-> "data", v |-> k],
             n |-> IF (k + 1) * BlkSize <= size THEN BlkSize
                                                ELSE size - k * BlkSize]
(* What extract has copied for the slots in S is the file.                 *)
ReadBack(S) ==
    \E m \in 0..(Len(dump) - BlocksOf(size)) :
       /\ \A i \in DOMAIN dump :
             dump[i].s \in S <=> i \in (m + 1)..(m + BlocksOf(size))
       /\ \A k \in 0..(BlocksOf(size) - 1) :
             [v |-> dump[m + k + 1].v, n |-> dump[m + k + 1].n] = Piece(k)

(* All block numbers are in struct file (Room), and a word is left that    *)
(* ends the file (Fits); the name has left the bitmap alone.               *)
Room == BlocksOf(size) <= Words
Fits == BlocksOf(size) < Words
Contained == taken = NSlots \/ taken + spill < NSlots

(* A file's name ends in its own slot; extract takes no other slot for a   *)
(* file.                                                                   *)
ShortName == spill = 0
TidyDir == dir[0].off # ALL1 /\ \A s \in Slots \ {0} : dir[s].off = 0

Labels == {"start", "dirblk", "open", "slot", "name", "data", "bitmap", "dir",
           "formatted", "scan", "copy", "wild", "done"}

(* fs_alloc_blk in gen-disk: no block is given two uses (the bitmap, the   *)
(* directory, the inode, each block of data), so that a block of the image *)
(* that has been written is never written again, if the inode has room for *)
(* the file's blocks and the name has not reached the bitmap.              *)
WriteOnce == [][(opened /\ Room /\ Contained) =>
                   \A b \in Addr : disk[b] # Hole => disk'[b] = disk[b]]_diskVars

(* The bitmap that main writes marks every block of the image that holds   *)
(* something, once the directory is written, too, and it marks no other    *)
(* unless the file has overrun its inode.                                  *)
BitmapExact ==
    (pc \in {"formatted", "scan", "copy", "done"} /\ ~killed /\ Contained) =>
        LET held == {c \in Blocks : disk[c] # Hole}
        IN  \A b \in 0..(Header - 1) :
               held \subseteq disk[b].v /\ (Room => disk[b].v = held)

(* gen-disk killed between two writes leaves an image on which extract     *)
(* finds no file: the directory, written last, is what makes it visible.   *)
(* Killed before it opens the image, it leaves an earlier one as it was.   *)
KilledShowsNothing ==
    killed /\ Contained => IF opened THEN dump = <<>> /\ pc # "wild"
                                     ELSE disk \in Earlier

(* fs_write_file and extract: the slot that the file was given reads back  *)
(* the file, the last block cut to its size, whatever the stack and the    *)
(* file's name left in the other slots of the directory, if the inode has  *)
(* room for its blocks and the name has not reached the bitmap.            *)
FileReadBack == (pc = "done" /\ ~killed /\ Fits /\ taken < NSlots /\ Contained) =>
                   ReadBack({taken})

(* extract ends, with the file in the dump and nothing else, when the name *)
(* is short and the directory happened to hold no other inode number,      *)
(* whatever its first slot and its sizes held.                             *)
RoundTripEnds ==
    (pc = "start" /\ ShortName /\ TidyDir /\ Fits)
        ~> (killed \/ (pc = "done" /\ ReadBack(Slots)))

(* README.md:21-28: what extract writes is the file that gen-disk read.    *)
RoundTrip == pc \in {"done", "wild"} /\ ~killed => pc = "done" /\ ReadBack(Slots)
=============================================================================
