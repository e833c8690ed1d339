-------------------------- MODULE DiskImageProofs ---------------------------
(***************************************************************************)
(* Theorems about gen-disk and extract for every size of the file and of   *)
(* the image, every directory and every content of the stack.              *)
(*                                                                         *)
(* The inductive invariant follows the image block by block, as long as    *)
(* the name has not reached the bitmap.  The blocks in use are always the  *)
(* first ones, so fs_alloc_blk hands out the next number; what has been    *)
(* written is known from where gen-disk is; and what extract has copied    *)
(* ends with a beginning of the file while it reads the slot that the file *)
(* was given, and holds the whole file after that.                         *)
(***************************************************************************)
EXTENDS DiskImage, SequenceTheorems, TLAPS

Before == {"start", "dirblk", "open"}
Making == Before \cup {"slot", "name", "data", "bitmap", "dir"}
AfterInode == {"bitmap", "dir", "formatted", "scan", "copy", "wild", "done"}
AfterBitmap == AfterInode \ {"bitmap"}
AfterDir == AfterBitmap \ {"dir"}

(* Where the data begin, the block meant for the inode, and the block that *)
(* fs_alloc_blk gives out next.                                            *)
FirstData == IF taken = NSlots THEN Header + 1 ELSE Header + 2
Home == IF taken = NSlots THEN ALL1 ELSE Header + 1
NextBlock == CASE pc = "start" -> 0
               [] pc = "dirblk" -> Header
               [] pc \in {"open", "slot", "name"} -> Header + 1
               [] OTHER -> FirstData + Len(inode)

(* What extract writes at a time.                                          *)
Pieces == [s : Slots, v : Contents, n : Nat]

Typed == /\ used \subseteq Blocks /\ result \in Addr
         /\ pc \in Labels
         /\ size \in 0..MaxSize
         /\ killed \in BOOLEAN /\ opened \in BOOLEAN
         /\ dir \in SlotSet /\ root \in SlotSet
         /\ taken \in 0..NSlots
         /\ inode \in Seq(Addr) /\ inode_off \in Addr
         /\ disk \in [Addr -> Contents]
         /\ slot \in 0..NSlots
         /\ file \in Seq(Addr) /\ Len(file) <= Words
         /\ j \in 0..Words /\ j <= Len(file)
         /\ filesz \in 0..(SizeMod - 1)
         /\ dump \in Seq(Pieces)

(* When gen-disk opens the image, and what becomes of the earlier one.     *)
Steps == /\ killed => pc \notin Making
         /\ ~killed => (opened <=> pc \notin Before)
         /\ ~opened => disk \in Earlier /\ taken = NSlots

(* gen-disk, not killed, has allocated the first blocks of the image ...   *)
Allocated == /\ used = 0..(NextBlock - 1)
             /\ Len(inode) <= BlocksOf(size)
             /\ \A i \in 1..Len(inode) : inode[i] = FirstData + i - 1
             /\ pc \in Before \cup {"slot"} => taken = NSlots
             /\ pc \in Before \cup {"slot", "name"} => inode = <<>>
             /\ pc = "name" => taken # NSlots
             /\ pc \in AfterInode => Len(inode) = BlocksOf(size)
             /\ (taken # NSlots /\ pc # "name") =>
                   dir[taken] = [off |-> Header + 1, size |-> size]
             /\ pc \in {"data"} \cup AfterInode =>
                   /\ inode_off \in {Home} \cup FirstData..(FirstData + Len(inode) - 1)
                   /\ Len(inode) <= Words => inode_off = Home

(* ... and written these of them, ...                                      *)
Written == FirstData..(FirstData + Len(inode) - 1)
           \cup (IF pc \in AfterInode THEN {inode_off} ELSE {})
           \cup (IF pc \in AfterBitmap THEN 0..(Header - 1) ELSE {})
           \cup (IF pc \in AfterDir THEN {Header} ELSE {})

(* ... with these contents, if the inode has room for the block numbers.   *)
Laid == /\ \A b \in Addr : disk[b] # Hole <=> b \in Written
        /\ Room => \A i \in 0..(Len(inode) - 1) :
                      disk[FirstData + i] = [t |-> "data", v |-> i]
        /\ Room /\ pc \in AfterInode =>
              disk[inode_off] = [t |-> "inode", v |-> inode]
        /\ pc \in AfterBitmap =>
              \A b \in 0..(Header - 1) : disk[b] = [t |-> "bitmap", v |-> used]
        /\ pc \in AfterDir => disk[Header] = [t |-> "dir", v |-> dir]

(* A killed gen-disk has not written the directory.                        *)
Hidden == /\ pc \in {"formatted", "scan", "done"}
          /\ disk[Header] = Hole
          /\ root = Zeros
          /\ dump = <<>>

(* Where extract is in the directory and in the dump.                      *)
Scanning == /\ pc \in Making \cup {"formatted"} =>
                  root = Zeros /\ slot = 0 /\ dump = <<>>
            /\ pc = "copy" => slot < NSlots
            /\ pc = "done" => slot = NSlots
            /\ \A i \in DOMAIN dump :
                  dump[i].s < slot \/ (pc \in {"copy", "wild"} /\ dump[i].s = slot)

(* The pieces of the file's slot are the first c of the file, behind the   *)
(* first m pieces of the dump.                                             *)
Holds(c, m) == /\ m \in 0..(Len(dump) - c)
               /\ \A i \in DOMAIN dump : dump[i].s = taken <=> i \in (m + 1)..(m + c)
               /\ \A k \in 0..(c - 1) : dump[m + k + 1].v = Piece(k).v
                                        /\ dump[m + k + 1].n = Piece(k).n

Reading == /\ pc \in {"scan", "copy", "done"} => root = dir
           /\ (pc = "copy" /\ slot = taken) =>
                 /\ file = inode
                 /\ j < Len(file) => filesz = size - j * BlkSize
                 /\ Holds(j, Len(dump) - j)
           /\ (pc \in {"scan", "copy", "done"} /\ slot > taken) =>
                 \E m \in Nat : Holds(BlocksOf(size), m)

Ordered == /\ Typed
           /\ Steps
           /\ ~killed => Allocated /\ (opened => Laid)
           /\ (killed /\ opened) => Hidden
           /\ Scanning
           /\ (~killed /\ Room /\ taken # NSlots) => Reading

(* No slot is taken before the name is copied; what a name that reaches    *)
(* the bitmap leads to is left open.                                       *)
IInv == /\ pc \in Before \cup {"slot"} => taken = NSlots
        /\ Contained => Ordered

-----------------------------------------------------------------------------
(* The sizes are numbers.                                                  *)
LEMMA Sizes == /\ NBlocks \in Nat /\ NBlocks > 0
               /\ Header \in Nat /\ Header > 0
               /\ BlkSize \in Nat /\ BlkSize > 0
               /\ Words \in Nat /\ Words > 0
               /\ NSlots \in Nat /\ NSlots > 0
               /\ SizeMod \in Nat /\ SizeMod > 0
               /\ MaxSize \in Nat /\ MaxSize < SizeMod
               /\ Header + 2 + BlocksOf(MaxSize) <= NBlocks
               /\ Blocks = 0..(NBlocks - 1)
               /\ ALL1 \notin Blocks
BY BlockAssumption, DiskAssumption DEF Blocks

(* A file has as many blocks as it takes to hold it.                       *)
LEMMA BlocksHold ==
  ASSUME NEW n \in Nat
  PROVE  /\ BlocksOf(n) \in Nat
         /\ n <= BlocksOf(n) * BlkSize
         /\ BlocksOf(n) * BlkSize < n + BlkSize
<1> DEFINE q == (n + BlkSize - 1) \div BlkSize
           r == (n + BlkSize - 1) % BlkSize
<1>1. /\ q \in Nat /\ r \in 0..(BlkSize - 1)
      /\ n + BlkSize - 1 = BlkSize * q + r
  BY Sizes, SMT
<1>2. BlkSize * q = q * BlkSize
  BY <1>1, Sizes, SMT
<1> HIDE DEF q, r
<1>3. q * BlkSize \in Nat
  BY <1>1, Sizes, SMT
<1>4. q = BlocksOf(n)
  BY DEF q, BlocksOf
<1> QED
  BY <1>1, <1>2, <1>3, <1>4, Sizes

(* Products with the size of a block.                                      *)
LEMMA Products ==
  ASSUME NEW a \in Nat, NEW b \in Nat
  PROVE  /\ a * BlkSize \in Nat
         /\ (a + 1) * BlkSize = a * BlkSize + BlkSize
         /\ a < b => a * BlkSize + BlkSize <= b * BlkSize
<1>1. a * BlkSize \in Nat /\ (a + 1) * BlkSize = a * BlkSize + BlkSize
  BY Sizes, SMT
<1>2. ASSUME a < b PROVE a * BlkSize + BlkSize <= b * BlkSize
  <2>1. /\ b - a - 1 \in Nat
        /\ (b - a - 1) * BlkSize >= 0
    BY <1>2, Sizes, SMT
  <2>2. (b - a - 1) * BlkSize = b * BlkSize - a * BlkSize - BlkSize
    BY Sizes, SMT
  <2>3. b * BlkSize \in Nat
    BY Sizes, SMT
  <2> QED
    BY <1>1, <2>1, <2>2, <2>3, Sizes
<1> QED
  BY <1>1, <1>2

(* Every file that is considered fits into the image.                      *)
LEMMA FileFits ==
  ASSUME NEW n \in 0..MaxSize
  PROVE  BlocksOf(n) \in Nat /\ Header + 2 + BlocksOf(n) <= NBlocks
<1> DEFINE b == BlocksOf(n)
           m == BlocksOf(MaxSize)
<1>1. n \in Nat /\ MaxSize \in Nat /\ n <= MaxSize
  BY Sizes
<1>2. /\ b \in Nat /\ b * BlkSize < n + BlkSize
      /\ m \in Nat /\ MaxSize <= m * BlkSize
  BY <1>1, BlocksHold
<1>3. Header + 2 + m <= NBlocks
  BY Sizes
<1> HIDE DEF b, m
<1>4. b <= m
  <2>1. SUFFICES ASSUME m < b PROVE FALSE
    BY <1>2
  <2>2. m * BlkSize + BlkSize <= b * BlkSize
    BY <1>2, <2>1, Products
  <2>3. m * BlkSize \in Nat /\ b * BlkSize \in Nat
    BY <1>2, Products
  <2> QED
    BY <1>1, <1>2, <2>2, <2>3, Sizes
<1>5. b \in Nat /\ Header + 2 + b <= NBlocks
  BY <1>2, <1>3, <1>4, Sizes
<1> QED
  BY <1>5 DEF b

(* So do the bitmap, the directory and the inode.                          *)
LEMMA HeaderFits == Header + 2 <= NBlocks
<1>1. MaxSize \in 0..MaxSize
  BY Sizes
<1> QED
  BY <1>1, FileFits, Sizes

(* fs_alloc_blk: when the first blocks are in use, the next one is given.  *)
LEMMA NextGiven ==
  ASSUME NEW u \in Nat, u < NBlocks, used = 0..(u - 1), Alloc
  PROVE  result' = u /\ used' = 0..u
<1>1. u \in Blocks \ used /\ \A c \in Blocks \ used : u <= c
  BY Sizes
<1>2. ASSUME NEW b \in Blocks \ used, \A c \in Blocks \ used : b <= c
      PROVE  b = u
  BY <1>1, <1>2, Sizes
<1>3. FirstFree(used) = u
  BY <1>1, <1>2 DEF FirstFree
<1>4. Take
  BY <1>1 DEF Alloc, Full
<1> QED
  BY <1>3, <1>4 DEF Take

(* What the stack or a name leaves in a slot is an inode number and a size.*)
LEMMA EntriesFit == Entries \subseteq [off : Addr \cup GarbageOffs, size : 0..(SizeMod - 1)]
BY DiskAssumption DEF Entries

(* A file whose blocks have room does not overrun its inode.               *)
LEMMA RoomLeft ==
  ASSUME Ordered, Room, ~killed
  PROVE  /\ Len(inode) <= Words
         /\ pc \in {"data"} \cup AfterInode => inode_off = Home
<1>1. BlocksOf(size) \in Nat /\ Len(inode) \in Nat /\ Len(inode) <= BlocksOf(size)
  BY FileFits DEF Ordered, Typed, Allocated
<1>2. Len(inode) <= Words
  BY <1>1, Sizes DEF Room
<1> QED
  BY <1>2 DEF Ordered, Allocated

-----------------------------------------------------------------------------
(* gen-disk and extract before anything has been done                      *)
LEMMA InitOrdered == DiskInit => Ordered
<1> USE Sizes
<1> SUFFICES ASSUME DiskInit PROVE Ordered
  OBVIOUS
<1>1. /\ used = {} /\ result = ALL1 /\ pc = "start" /\ killed = FALSE
      /\ opened = FALSE /\ size \in 0..MaxSize
      /\ taken = NSlots /\ inode = <<>> /\ inode_off = ALL1
      /\ root = Zeros /\ slot = 0 /\ file = <<>> /\ j = 0 /\ filesz = 0
      /\ dump = <<>> /\ disk \in Earlier
      /\ dir \in [Slots -> Entries]
  BY DEF DiskInit, MapInit
<1>2. dir \in SlotSet /\ root \in SlotSet
  <2>1. \A s \in Slots : dir[s] \in [off : Addr \cup GarbageOffs, size : 0..(SizeMod - 1)]
    BY <1>1, EntriesFit
  <2>2. 0 \in Addr /\ 0 \in 0..(SizeMod - 1)
    BY DEF Addr
  <2> QED
    BY <1>1, <2>1, <2>2 DEF SlotSet, Zeros
<1>3. disk \in [Addr -> Contents]
  BY <1>1, DiskAssumption
<1>4. Typed
  <2>1. file = <<>> /\ dump = <<>> /\ dump \in Seq(Pieces) /\ Len(file) = 0
    BY <1>1
  <2>2. Len(file) <= Words /\ j <= Len(file)
    BY <1>1, <2>1
  <2>3. taken \in 0..NSlots
    BY <1>1
  <2>4. killed \in BOOLEAN /\ opened \in BOOLEAN
    BY <1>1, Zenon
  <2>5. /\ used \subseteq Blocks /\ result \in Addr /\ inode_off \in Addr
        /\ inode \in Seq(Addr) /\ file \in Seq(Addr)
    BY <1>1 DEF Addr
  <2> QED
    BY <1>1, <1>2, <1>3, <2>1, <2>2, <2>3, <2>4, <2>5 DEF Typed, Labels
<1>5. Allocated
  BY <1>1, BlocksHold DEF Allocated, NextBlock, AfterInode
<1>6. Steps /\ Scanning /\ Reading
  BY <1>1 DEF Steps, Scanning, Reading, Before, Making
<1> QED
  BY <1>1, <1>4, <1>5, <1>6 DEF Ordered

(* The numbers of gen-disk's blocks while it is not killed                 *)
LEMMA Numbers ==
  ASSUME Ordered, ~killed
  PROVE  /\ Len(inode) \in Nat /\ BlocksOf(size) \in Nat
         /\ FirstData \in {Header + 1, Header + 2}
         /\ FirstData + Len(inode) <= NBlocks
         /\ Len(inode) < BlocksOf(size) => FirstData + Len(inode) < NBlocks
         /\ NextBlock \in Nat /\ NextBlock <= NBlocks
         /\ Home \in Addr /\ Home \notin 0..Header
         /\ Home \notin FirstData..(FirstData + Len(inode) - 1)
         /\ pc \in {"data"} \cup AfterInode =>
               inode_off \in Addr /\ inode_off \notin 0..Header
<1> USE Sizes
<1>1. Len(inode) \in Nat /\ Len(inode) <= BlocksOf(size)
  BY DEF Ordered, Typed, Allocated
<1>2. BlocksOf(size) \in Nat /\ Header + 2 + BlocksOf(size) <= NBlocks
  BY FileFits DEF Ordered, Typed
<1>3. FirstData \in {Header + 1, Header + 2}
  BY DEF FirstData
<1>4. NextBlock \in {0, Header, Header + 1, FirstData + Len(inode)}
  BY DEF NextBlock
<1>5. /\ Home \in Addr /\ Home \notin 0..Header
      /\ Home \notin FirstData..(FirstData + Len(inode) - 1)
  <2>1. CASE taken = NSlots
    <3>1. Home = ALL1 /\ FirstData = Header + 1
      BY <2>1 DEF Home, FirstData
    <3>2. FirstData..(FirstData + Len(inode) - 1) \subseteq Blocks /\ 0..Header \subseteq Blocks
      BY <1>1, <1>2, <3>1, HeaderFits
    <3> QED
      BY <3>1, <3>2 DEF Addr
  <2>2. CASE taken # NSlots
    <3>1. Home = Header + 1 /\ FirstData = Header + 2
      BY <2>2 DEF Home, FirstData
    <3>2. Header + 1 \in Blocks
      BY HeaderFits
    <3> QED
      BY <1>1, <3>1, <3>2 DEF Addr
  <2> QED
    BY <2>1, <2>2
<1>6. FirstData..(FirstData + Len(inode) - 1) \subseteq Blocks
  BY <1>1, <1>2, <1>3
<1>7. ASSUME pc \in {"data"} \cup AfterInode
      PROVE  inode_off \in Addr /\ inode_off \notin 0..Header
  <2>1. inode_off \in {Home} \cup FirstData..(FirstData + Len(inode) - 1)
    BY <1>7 DEF Ordered, Allocated
  <2>2. CASE inode_off = Home
    BY <1>5, <2>2
  <2>3. CASE inode_off \in FirstData..(FirstData + Len(inode) - 1)
    <3>1. inode_off \in Addr
      BY <1>6, <2>3, Zenon DEF Addr
    <3>2. inode_off \notin 0..Header
      BY <1>1, <1>3, <2>3
    <3> QED
      BY <3>1, <3>2
  <2> QED
    BY <2>1, <2>2, <2>3
<1> QED
  BY <1>1, <1>2, <1>3, <1>4, <1>5, <1>7

(* gen-disk leaves extract's variables alone.                              *)
LEMMA GenDiskFrame ==
  ASSUME Ordered, GenDisk
  PROVE  /\ ~killed /\ ~killed' /\ pc \in Making
         /\ pc' \in Making \cup {"formatted"}
         /\ UNCHANGED <<extract, size, killed>>
         /\ opened => opened' /\ pc \notin Before
         /\ Steps' /\ Scanning' /\ ((killed /\ opened) => Hidden)' /\ Reading'
<1> USE DEF GenDisk, Start, AllocDirBlk, OpenDisk, CopyName, AllocFile, NoSlot,
            WriteData, WriteInode, WriteBitmap, WriteDir, format, extract, mapVars
<1>1. /\ pc \in Making
      /\ pc' \in Making \cup {"formatted"}
      /\ UNCHANGED <<extract, size, killed>>
  BY DEF Making, Before
<1>2. ~killed /\ (opened <=> pc \notin Before)
  BY <1>1 DEF Ordered, Steps
<1>3. root = Zeros /\ slot = 0 /\ dump = <<>>
  BY <1>1 DEF Ordered, Scanning
<1>4. /\ root' = Zeros /\ slot' = 0 /\ dump' = <<>>
      /\ pc' \notin {"scan", "copy", "wild", "done"}
  BY <1>1, <1>3 DEF Making, Before
<1>5. Scanning' /\ Reading'
  BY <1>1, <1>4 DEF Scanning, Reading
<1>6. Steps'
  <2>1. CASE pc \in {"start", "dirblk"}
    <3>1. UNCHANGED <<opened, disk, taken>> /\ pc' \in Before
      BY <2>1 DEF Before
    <3> QED
      BY <1>1, <1>2, <2>1, <3>1 DEF Ordered, Steps, Before
  <2>2. CASE pc \notin {"start", "dirblk"}
    <3>1. opened' = TRUE \/ (opened' = opened /\ pc \notin Before)
      BY <1>1, <2>2 DEF Before, Making
    <3>2. pc' \notin Before
      BY <1>1, <2>2 DEF Before, Making
    <3> QED
      BY <1>1, <1>2, <3>1, <3>2 DEF Steps
  <2> QED
    BY <2>1, <2>2
<1>7. ~killed'
  BY <1>1, <1>2
<1>8. opened => opened' /\ pc \notin Before
  BY <1>1, <1>2 DEF Before, Making
<1> QED
  BY <1>1, <1>2, <1>5, <1>6, <1>7, <1>8

(* main of format.c marks the bitmap's own blocks.                         *)
LEMMA StartOrdered == Ordered /\ Start => Ordered'
<1> USE Sizes
<1> SUFFICES ASSUME Ordered, Start PROVE Ordered'
  OBVIOUS
<1>1. GenDisk
  BY DEF GenDisk
<1>2. /\ used' = 0..(Header - 1) /\ pc = "start" /\ pc' = "dirblk"
      /\ UNCHANGED <<result, format, extract, disk>>
  BY DEF Start
<1>3. Typed'
  BY <1>2, HeaderFits DEF Ordered, Typed, Labels, format, extract
<1>4. Allocated' /\ ~opened'
  <2>1. ~opened'
    BY <1>1, <1>2, GenDiskFrame DEF Before, format
  <2> QED
    BY <1>1, <1>2, <2>1, GenDiskFrame
       DEF Ordered, Allocated, NextBlock, FirstData, Before, format, AfterInode
<1> QED
  BY <1>1, <1>3, <1>4, GenDiskFrame DEF Ordered

(* ... and allocates the directory's block.                                *)
LEMMA AllocDirBlkOrdered == Ordered /\ AllocDirBlk => Ordered'
<1> USE Sizes
<1> SUFFICES ASSUME Ordered, AllocDirBlk PROVE Ordered'
  OBVIOUS
<1>1. GenDisk
  BY DEF GenDisk
<1>2. /\ Alloc /\ pc = "dirblk" /\ pc' = "open"
      /\ UNCHANGED <<format, extract, disk>>
  BY DEF AllocDirBlk
<1>3. ~killed /\ used = 0..(Header - 1) /\ inode = <<>> /\ taken = NSlots
  BY <1>1, <1>2, GenDiskFrame DEF Ordered, Allocated, NextBlock, Before
<1>4. result' = Header /\ used' = 0..Header
  BY <1>2, <1>3, HeaderFits, NextGiven
<1>5. Header \in Blocks /\ 0..Header \subseteq Blocks
  BY HeaderFits
<1>6. Typed'
  BY <1>2, <1>4, <1>5 DEF Ordered, Typed, Labels, Addr, format, extract
<1>7. Allocated' /\ ~opened'
  <2>1. ~opened'
    BY <1>1, <1>2, GenDiskFrame DEF Before, format
  <2> QED
    BY <1>1, <1>2, <1>3, <1>4, <2>1, GenDiskFrame
       DEF Ordered, Allocated, NextBlock, FirstData, Before, format, AfterInode
<1> QED
  BY <1>1, <1>6, <1>7, GenDiskFrame DEF Ordered

(* fopen leaves nothing of an earlier image.                               *)
LEMMA OpenDiskOrdered == Ordered /\ OpenDisk => Ordered'
<1> USE Sizes, HeaderFits
<1> SUFFICES ASSUME Ordered, OpenDisk PROVE Ordered'
  OBVIOUS
<1>1. GenDisk
  BY DEF GenDisk
<1>2. /\ pc = "open" /\ pc' = "slot" /\ opened' = TRUE
      /\ disk' = [b \in Addr |-> Hole]
      /\ UNCHANGED <<mapVars, size, spill, killed, dir, taken, inode, inode_off, extract>>
  BY DEF OpenDisk
<1>3. ~killed /\ inode = <<>> /\ taken = NSlots
  BY <1>1, <1>2, GenDiskFrame DEF Ordered, Allocated, Before
<1>4. disk' \in [Addr -> Contents] /\ \A b \in Addr : disk'[b] = Hole
  BY <1>2 DEF Contents, Hole
<1>5. Typed'
  <2>1. opened' \in BOOLEAN
    BY <1>2, Zenon
  <2> QED
    BY <1>2, <1>4, <2>1 DEF Ordered, Typed, Labels, mapVars, extract
<1>6. Allocated'
  BY <1>2, <1>3 DEF Ordered, Allocated, NextBlock, FirstData, Before, mapVars, AfterInode
<1>7. Laid'
  <2>1. Written' = {} /\ Len(inode') = 0
    BY <1>2, <1>3 DEF Written, FirstData, AfterInode, AfterBitmap, AfterDir
  <2> QED
    BY <1>2, <1>4, <2>1 DEF Laid, AfterInode, AfterBitmap, AfterDir
<1> QED
  BY <1>1, <1>5, <1>6, <1>7, GenDiskFrame DEF Ordered

(* A name that ends in the directory leaves the bitmap alone, and inode    *)
(* numbers and sizes in the slots behind its own.                          *)
LEMMA CopyNameOrdered == Ordered /\ CopyName /\ Contained' => Ordered'
<1> USE Sizes, HeaderFits
<1> SUFFICES ASSUME Ordered, CopyName, Contained' PROVE Ordered'
  OBVIOUS
<1>1. GenDisk
  BY DEF GenDisk
<1>2. /\ pc = "slot" /\ pc' = "name"
      /\ UNCHANGED <<result, size, spill, killed, opened, inode, inode_off, extract, disk>>
  BY DEF CopyName
<1>3. PICK s \in Slots :
         /\ taken' = s
         /\ \E over \in [{r \in Slots : s < r /\ r <= s + spill} -> Entries] :
               dir' = [r \in Slots |-> IF r \in DOMAIN over THEN over[r] ELSE dir[r]]
         /\ used' \in IF s + spill < NSlots THEN {used} ELSE NameBits
  BY DEF CopyName
<1>4. s \in 0..NSlots /\ s # NSlots
  BY DEF Slots
<1>5. used' = used
  BY <1>2, <1>3, <1>4 DEF Contained
<1>6. dir' \in SlotSet
  <2>1. PICK over \in [{r \in Slots : s < r /\ r <= s + spill} -> Entries] :
           dir' = [r \in Slots |-> IF r \in DOMAIN over THEN over[r] ELSE dir[r]]
    BY <1>3
  <2>2. \A r \in Slots : (IF r \in DOMAIN over THEN over[r] ELSE dir[r])
                            \in [off : Addr \cup GarbageOffs, size : 0..(SizeMod - 1)]
    BY EntriesFit DEF Ordered, Typed, SlotSet
  <2> QED
    BY <2>1, <2>2 DEF SlotSet
<1>7. ~killed /\ inode = <<>> /\ used = 0..Header
  BY <1>1, <1>2, GenDiskFrame DEF Ordered, Allocated, NextBlock
<1>8. Typed'
  BY <1>2, <1>3, <1>4, <1>5, <1>6 DEF Ordered, Typed, Labels, extract
<1>9. Allocated'
  BY <1>2, <1>3, <1>4, <1>5, <1>7
     DEF Ordered, Allocated, NextBlock, Before, AfterInode, FirstData
<1>10. Laid'
  <2>1. opened
    BY <1>1, <1>2, <1>7 DEF Ordered, Steps, Before
  <2>2. /\ Len(inode) = 0 /\ Len(inode') = 0
        /\ FirstData \in Nat /\ FirstData' \in Nat
    BY <1>2, <1>7 DEF FirstData
  <2>3. Written = {} /\ Written' = {}
    <3>1. \A d, l : d \in Nat /\ l = 0 => d..(d + l - 1) = {}
      OBVIOUS
    <3>2. /\ pc \notin AfterInode /\ pc \notin AfterBitmap /\ pc \notin AfterDir
          /\ pc' \notin AfterInode /\ pc' \notin AfterBitmap /\ pc' \notin AfterDir
      BY <1>2 DEF AfterInode, AfterBitmap, AfterDir
    <3> QED
      BY <2>2, <3>1, <3>2, Zenon DEF Written
  <2> QED
    BY <1>2, <1>7, <2>1, <2>2, <2>3 DEF Ordered, Laid, AfterInode, AfterBitmap, AfterDir
<1> QED
  BY <1>1, <1>8, <1>9, <1>10, GenDiskFrame DEF Ordered

(* fs_alloc_file_in_dir gives the file the block behind the directory's.   *)
LEMMA AllocFileOrdered == Ordered /\ AllocFile => Ordered'
<1> USE Sizes, HeaderFits
<1> SUFFICES ASSUME Ordered, AllocFile PROVE Ordered'
  OBVIOUS
<1>1. GenDisk
  BY DEF GenDisk
<1>2. /\ pc = "name" /\ pc' = "data" /\ Alloc
      /\ dir' = [dir EXCEPT ![taken] = [off |-> result', size |-> size]]
      /\ inode_off' = result'
      /\ UNCHANGED <<size, spill, killed, opened, taken, inode, extract, disk>>
  BY DEF AllocFile
<1>3. /\ ~killed /\ opened /\ used = 0..Header /\ inode = <<>>
      /\ taken # NSlots /\ taken \in Slots
  <2>1. ~killed /\ opened
    BY <1>1, <1>2, GenDiskFrame DEF Ordered, Steps, Before
  <2>2. used = 0..Header /\ inode = <<>> /\ taken # NSlots
    BY <1>2, <2>1 DEF Ordered, Allocated, NextBlock
  <2>3. taken \in 0..NSlots
    BY DEF Ordered, Typed
  <2> QED
    BY <2>1, <2>2, <2>3 DEF Slots
<1>4. result' = Header + 1 /\ used' = 0..(Header + 1)
  <2>1. Header + 1 \in Nat /\ Header + 1 < NBlocks /\ used = 0..(Header + 1 - 1)
    BY <1>3
  <2> QED
    BY <1>2, <2>1, NextGiven
<1>5. result' \in Addr /\ used' \subseteq Blocks
  BY <1>4 DEF Addr
<1>6. dir' \in SlotSet /\ dir'[taken] = [off |-> Header + 1, size |-> size]
  <2>1. size \in 0..(SizeMod - 1)
    BY DEF Ordered, Typed
  <2> QED
    BY <1>2, <1>3, <1>4, <1>5, <2>1 DEF Ordered, Typed, SlotSet
<1>7. Typed'
  BY <1>2, <1>5, <1>6 DEF Ordered, Typed, Labels, extract
<1>8. /\ FirstData' = Header + 2 /\ FirstData = Header + 2
      /\ NextBlock' = Header + 2 /\ Len(inode') = 0
      /\ Home' = Header + 1
  BY <1>2, <1>3 DEF FirstData, NextBlock, Home
<1>9. Allocated'
  <2>1. BlocksOf(size)' \in Nat
    BY <1>2, FileFits DEF Ordered, Typed
  <2> QED
    BY <1>2, <1>3, <1>4, <1>6, <1>8, <2>1 DEF Allocated, AfterInode, Before
<1>10. Laid'
  <2>1. Written = {} /\ Written' = {} /\ Len(inode) = 0
    BY <1>2, <1>3, <1>8 DEF Written, AfterInode, AfterBitmap, AfterDir
  <2> QED
    BY <1>2, <1>3, <2>1 DEF Ordered, Laid, AfterInode, AfterBitmap, AfterDir
<1> QED
  BY <1>1, <1>7, <1>9, <1>10, GenDiskFrame DEF Ordered

(* ... or, without a free slot, the block 0xffffffff.                      *)
LEMMA NoSlotOrdered == Ordered /\ NoSlot => Ordered'
<1> USE Sizes, HeaderFits
<1> SUFFICES ASSUME Ordered, NoSlot PROVE Ordered'
  OBVIOUS
<1>1. GenDisk
  BY DEF GenDisk
<1>2. /\ pc = "slot" /\ pc' = "data" /\ inode_off' = ALL1
      /\ UNCHANGED <<mapVars, size, spill, killed, opened, dir, taken, inode, extract, disk>>
  BY DEF NoSlot
<1>3. ~killed /\ opened /\ used = 0..Header /\ inode = <<>> /\ taken = NSlots
  BY <1>1, <1>2, GenDiskFrame DEF Ordered, Steps, Allocated, NextBlock, Before
<1>4. Typed'
  BY <1>2 DEF Ordered, Typed, Labels, Addr, mapVars, extract
<1>5. /\ FirstData' = FirstData /\ FirstData = Header + 1 /\ Home' = ALL1
      /\ NextBlock' = Header + 1 /\ Len(inode') = 0
  BY <1>2, <1>3 DEF FirstData, Home, NextBlock
<1>6. Allocated'
  <2>1. BlocksOf(size)' \in Nat
    BY <1>2, FileFits DEF Ordered, Typed
  <2> QED
    BY <1>2, <1>3, <1>5, <2>1 DEF Allocated, AfterInode, Before, mapVars
<1>7. Laid'
  <2>1. Written = {} /\ Written' = {} /\ Len(inode) = 0
    BY <1>2, <1>3, <1>5 DEF Written, AfterInode, AfterBitmap, AfterDir
  <2> QED
    BY <1>2, <1>3, <2>1 DEF Ordered, Laid, AfterInode, AfterBitmap, AfterDir
<1> QED
  BY <1>1, <1>4, <1>6, <1>7, GenDiskFrame DEF Ordered

(* fs_write_file: a block of data goes to the next block of the image,     *)
(* which nothing has been written to.                                      *)
LEMMA WriteDataOrdered == Ordered /\ WriteData => Ordered'
<1> USE Sizes, HeaderFits
<1> SUFFICES ASSUME Ordered, WriteData PROVE Ordered'
  OBVIOUS
<1> DEFINE k == Len(inode)
           b == FirstData + Len(inode)
<1>1. GenDisk
  BY DEF GenDisk
<1>2. /\ Alloc /\ pc = "data" /\ pc' = "data"
      /\ k < BlocksOf(size)
      /\ inode' = Append(inode, result')
      /\ disk' = [disk EXCEPT ![result'] = [t |-> "data", v |-> k]]
      /\ inode_off' \in {inode_off} \cup IF k < Words THEN {} ELSE {result'}
      /\ UNCHANGED <<size, spill, killed, opened, dir, taken, extract>>
  BY DEF WriteData
<1>3. ~killed /\ opened /\ used = 0..(b - 1) /\ NextBlock = b
  BY <1>1, <1>2, GenDiskFrame DEF Ordered, Steps, Allocated, NextBlock, Before
<1>4. /\ k \in Nat /\ b \in Nat /\ b < NBlocks /\ b > Header /\ b \in Addr
      /\ BlocksOf(size) \in Nat
      /\ FirstData \in Nat /\ FirstData > Header
  <2>1. /\ k \in Nat /\ BlocksOf(size) \in Nat /\ b < NBlocks
        /\ FirstData \in {Header + 1, Header + 2}
    BY <1>2, <1>3, Numbers
  <2>2. FirstData \in Nat /\ FirstData > Header /\ b \in Nat /\ b > Header
    BY <2>1
  <2>3. b \in Addr
    BY <2>1, <2>2 DEF Addr
  <2> QED
    BY <2>1, <2>2, <2>3
<1>5. result' = b /\ used' = 0..b
  BY <1>2, <1>3, <1>4, NextGiven
<1>6. FirstData' = FirstData /\ Home' = Home
  BY <1>2 DEF FirstData, Home
<1>7. /\ inode' \in Seq(Addr) /\ Len(inode') = k + 1 /\ inode'[k + 1] = b
      /\ \A i \in 1..k : inode'[i] = inode[i]
  BY <1>2, <1>4, <1>5 DEF Ordered, Typed
<1>8. /\ disk' \in [Addr -> Contents]
      /\ \A c \in Addr : disk'[c] = IF c = b THEN [t |-> "data", v |-> k] ELSE disk[c]
  <2>1. [t |-> "data", v |-> k] \in Contents
    BY <1>4 DEF Contents
  <2> QED
    BY <1>2, <1>4, <1>5, <2>1 DEF Ordered, Typed
<1>9. Typed'
  <2>1. used' \subseteq Blocks /\ result' \in Addr
    BY <1>4, <1>5
  <2>2. inode_off' \in Addr
    BY <1>2, <2>1 DEF Ordered, Typed
  <2> QED
    BY <1>2, <1>7, <1>8, <2>1, <2>2 DEF Ordered, Typed, extract
<1>10. Allocated'
  <2>1. NextBlock' = b + 1
    BY <1>2, <1>4, <1>6, <1>7 DEF NextBlock
  <2>2. \A i \in 1..(k + 1) : inode'[i] = FirstData + i - 1
    <3> TAKE i \in 1..(k + 1)
    <3>1. CASE i \in 1..k
      BY <1>3, <1>7, <3>1 DEF Ordered, Allocated
    <3>2. CASE i = k + 1
      BY <1>4, <1>7, <3>2
    <3> QED
      BY <1>4, <3>1, <3>2
  <2>3. used' = 0..(NextBlock' - 1) /\ Len(inode') <= BlocksOf(size)'
    BY <1>2, <1>4, <1>5, <1>7, <2>1
  <2>4. \A i \in 1..Len(inode') : inode'[i] = (FirstData + i - 1)'
    BY <1>6, <1>7, <2>2
  <2>5. pc' = "data" /\ pc' \notin AfterInode /\ pc' \notin Before
    BY <1>2 DEF AfterInode, Before
  <2>6. (taken # NSlots => dir[taken] = [off |-> Header + 1, size |-> size])'
    BY <1>2, <1>3 DEF Ordered, Allocated
  <2>7. /\ inode_off' \in {Home'} \cup FirstData'..(FirstData' + Len(inode') - 1)
        /\ Len(inode') <= Words => inode_off' = Home'
    <3>1. /\ inode_off \in {Home} \cup FirstData..(FirstData + k - 1)
          /\ k <= Words => inode_off = Home
      BY <1>2, <1>3 DEF Ordered, Allocated
    <3>2. FirstData' + Len(inode') - 1 = b
      BY <1>4, <1>6, <1>7
    <3>3. CASE inode_off' = inode_off
      BY <1>4, <1>6, <1>7, <3>1, <3>2, <3>3
    <3>4. CASE ~(k < Words) /\ inode_off' = b
      BY <1>4, <1>6, <1>7, <3>2, <3>4
    <3> QED
      BY <1>2, <1>5, <3>3, <3>4
  <2> QED
    BY <2>3, <2>4, <2>5, <2>6, <2>7 DEF Allocated
<1>11. Laid'
  <2>1. Written = FirstData..(b - 1) /\ Written' = FirstData..b
    BY <1>2, <1>4, <1>6, <1>7 DEF Written, AfterInode, AfterBitmap, AfterDir
  <2>2. \A c \in Addr : disk'[c] # Hole <=> c \in Written'
    <3>1. \A c \in Addr : disk[c] # Hole <=> c \in Written
      BY <1>3 DEF Ordered, Laid
    <3> QED
      BY <1>4, <1>8, <2>1, <3>1 DEF Hole
  <2>3. ASSUME Room
        PROVE  \A i \in 0..k : disk'[FirstData + i] = [t |-> "data", v |-> i]
    <3> TAKE i \in 0..k
    <3>1. FirstData + i \in Addr
      BY <1>4 DEF Addr
    <3>2. CASE i = k
      BY <1>4, <1>8, <3>1, <3>2
    <3>3. CASE i # k
      <4>1. FirstData + i # b /\ i \in 0..(k - 1)
        BY <1>4, <3>3
      <4> QED
        BY <1>3, <1>8, <2>3, <3>1, <4>1 DEF Ordered, Laid
    <3> QED
      BY <3>2, <3>3
  <2>4. k + 1 - 1 = k /\ Room' = Room
    BY <1>2, <1>4 DEF Room, BlocksOf
  <2> QED
    BY <1>2, <1>6, <1>7, <2>2, <2>3, <2>4
       DEF Laid, AfterInode, AfterBitmap, AfterDir
<1> QED
  BY <1>1, <1>9, <1>10, <1>11, GenDiskFrame DEF Ordered

(* fs_write_file ends with the inode, in a block of its own.               *)
LEMMA WriteInodeOrdered == Ordered /\ WriteInode => Ordered'
<1> USE Sizes, HeaderFits
<1> SUFFICES ASSUME Ordered, WriteInode PROVE Ordered'
  OBVIOUS
<1> DEFINE k == Len(inode)
           words == IF Len(inode) <= Words THEN inode ELSE SubSeq(inode, 1, Words)
           block == [t |-> "inode", v |-> words]
<1>1. GenDisk
  BY DEF GenDisk
<1>2. /\ pc = "data" /\ pc' = "bitmap" /\ k = BlocksOf(size)
      /\ disk' = [disk EXCEPT ![inode_off] = block]
      /\ UNCHANGED <<mapVars, format, extract>>
  BY DEF WriteInode
<1>3. ~killed /\ opened
  BY <1>1, <1>2, GenDiskFrame DEF Ordered, Steps, Before
<1>4. /\ inode_off \in Addr /\ FirstData' = FirstData /\ Home' = Home
      /\ k \in Nat /\ FirstData \in Nat /\ FirstData + k <= NBlocks
      /\ Home \notin FirstData..(FirstData + k - 1)
  BY <1>2, <1>3, Numbers DEF FirstData, Home, format
<1>5. words \in Seq(Addr) /\ Len(words) <= Words
  <2>1. inode \in Seq(Addr)
    BY DEF Ordered, Typed
  <2>2. CASE Len(inode) <= Words
    BY <2>1, <2>2
  <2>3. CASE ~(Len(inode) <= Words)
    <3>1. Words \in 1..(Len(inode) + 1) /\ 1 \in 1..(Len(inode) + 1)
      BY <1>4, <2>3
    <3>2. SubSeq(inode, 1, Words) \in Seq(Addr) /\ Len(SubSeq(inode, 1, Words)) = Words
      BY <1>4, <2>1, <2>3, <3>1, SubSeqProperties
    <3> QED
      BY <2>3, <3>2
  <2> QED
    BY <2>2, <2>3
<1>6. block \in Contents /\ block # Hole
  BY <1>5 DEF Contents, Hole
<1> HIDE DEF block, words
<1>7. /\ disk' \in [Addr -> Contents]
      /\ \A c \in Addr : disk'[c] = IF c = inode_off THEN block ELSE disk[c]
  BY <1>2, <1>4, <1>6 DEF Ordered, Typed
<1>8. Typed'
  BY <1>2, <1>7 DEF Ordered, Typed, Labels, mapVars, format, extract
<1>9. Allocated'
  BY <1>2, <1>3, <1>4 DEF Ordered, Allocated, NextBlock, Before, mapVars, format
<1>10. Laid'
  <2>1. /\ Written = FirstData..(FirstData + k - 1)
        /\ Written' = FirstData..(FirstData + k - 1) \cup {inode_off}
    BY <1>2, <1>4 DEF Written, AfterInode, AfterBitmap, AfterDir, format
  <2>2. \A c \in Addr : disk'[c] # Hole <=> c \in Written'
    BY <1>3, <1>6, <1>7, <2>1 DEF Ordered, Laid
  <2>3. ASSUME Room
        PROVE  /\ \A i \in 0..(k - 1) : disk'[FirstData + i] = [t |-> "data", v |-> i]
               /\ disk'[inode_off] = [t |-> "inode", v |-> inode]
    <3>1. inode_off = Home /\ k <= Words
      BY <1>2, <1>3, <2>3, RoomLeft
    <3>2. \A i \in 0..(k - 1) : FirstData + i \in Blocks
      BY <1>4
    <3>3. \A i \in 0..(k - 1) : FirstData + i \in FirstData..(FirstData + k - 1)
      BY <1>4
    <3>4. \A i \in 0..(k - 1) : FirstData + i \in Addr /\ FirstData + i # inode_off
      BY <1>4, <3>1, <3>2, <3>3, Zenon DEF Addr
    <3>5. block = [t |-> "inode", v |-> inode]
      BY <3>1 DEF block, words
    <3> QED
      BY <1>3, <1>4, <1>7, <2>3, <3>4, <3>5 DEF Ordered, Laid
  <2>4. Room' = Room
    BY <1>2 DEF Room, BlocksOf, format
  <2> QED
    BY <1>2, <1>4, <2>2, <2>3, <2>4
       DEF Laid, AfterInode, AfterBitmap, AfterDir, format
<1> QED
  BY <1>1, <1>8, <1>9, <1>10, GenDiskFrame DEF Ordered

(* main writes the bitmap over its own blocks, which are still holes.      *)
LEMMA WriteBitmapOrdered == Ordered /\ WriteBitmap => Ordered'
<1> USE Sizes, HeaderFits
<1> SUFFICES ASSUME Ordered, WriteBitmap PROVE Ordered'
  OBVIOUS
<1> DEFINE k == Len(inode)
           map == 0..(Header - 1)
<1>1. GenDisk
  BY DEF GenDisk
<1>2. /\ pc = "bitmap" /\ pc' = "dir"
      /\ disk' = [b \in DOMAIN disk |-> IF b \in map THEN [t |-> "bitmap", v |-> used]
                                                    ELSE disk[b]]
      /\ UNCHANGED <<mapVars, format, extract>>
  BY DEF WriteBitmap
<1>3. ~killed /\ opened
  BY <1>1, <1>2, GenDiskFrame DEF Ordered, Steps, Before
<1>4. /\ FirstData' = FirstData /\ Home' = Home
      /\ inode_off \in Addr /\ inode_off \notin map
      /\ map \subseteq Addr /\ k \in Nat /\ FirstData \in Nat
      /\ \A i \in 0..(k - 1) : FirstData + i \in Addr \ map
  <2>1. FirstData' = FirstData /\ Home' = Home
    BY <1>2 DEF FirstData, Home, format
  <2>2. map \subseteq Addr /\ ALL1 \in Addr /\ ALL1 \notin map
    BY DEF Addr
  <2>3. /\ k \in Nat /\ FirstData \in Nat
        /\ \A i \in 0..(k - 1) : FirstData + i \in Addr \ map
    <3>1. /\ k \in Nat /\ FirstData + k <= NBlocks
          /\ FirstData \in {Header + 1, Header + 2}
      BY <1>3, Numbers
    <3>2. \A i \in 0..(k - 1) : FirstData + i \in Blocks \ map
      BY <3>1
    <3> QED
      BY <3>1, <3>2 DEF Addr
  <2>4. inode_off \in Addr /\ inode_off \notin 0..Header
    BY <1>2, <1>3, Numbers DEF AfterInode
  <2> QED
    BY <2>1, <2>2, <2>3, <2>4
<1>5. /\ disk' \in [Addr -> Contents]
      /\ \A c \in Addr :
            disk'[c] = IF c \in map THEN [t |-> "bitmap", v |-> used] ELSE disk[c]
  <2>1. [t |-> "bitmap", v |-> used] \in Contents
    BY DEF Ordered, Typed, Contents
  <2>2. DOMAIN disk = Addr
    BY DEF Ordered, Typed
  <2> QED
    BY <1>2, <2>1, <2>2 DEF Ordered, Typed
<1>6. Typed'
  BY <1>2, <1>5 DEF Ordered, Typed, Labels, mapVars, format, extract
<1>7. Allocated'
  BY <1>2, <1>3, <1>4
     DEF Ordered, Allocated, NextBlock, Before, mapVars, format, AfterInode
<1>8. Laid'
  <2>1. Written' = Written \cup map
    BY <1>2, <1>4 DEF Written, AfterInode, AfterBitmap, AfterDir, format
  <2>2. \A c \in Addr : disk'[c] # Hole <=> c \in Written'
    BY <1>3, <1>5, <2>1 DEF Ordered, Laid, Hole
  <2>3. Room => \A i \in 0..(k - 1) : disk'[FirstData + i] = [t |-> "data", v |-> i]
    BY <1>3, <1>4, <1>5 DEF Ordered, Laid
  <2>4. Room => disk'[inode_off] = [t |-> "inode", v |-> inode]
    BY <1>2, <1>3, <1>4, <1>5 DEF Ordered, Laid, AfterInode
  <2>5. Room' = Room
    BY <1>2 DEF Room, BlocksOf, format
  <2> QED
    BY <1>2, <1>4, <1>5, <2>2, <2>3, <2>4, <2>5
       DEF Laid, AfterInode, AfterBitmap, AfterDir, format, mapVars
<1> QED
  BY <1>1, <1>6, <1>7, <1>8, GenDiskFrame DEF Ordered

(* ... and the directory behind it, in the block allocated for it.         *)
LEMMA WriteDirOrdered == Ordered /\ WriteDir => Ordered'
<1> USE Sizes, HeaderFits
<1> SUFFICES ASSUME Ordered, WriteDir PROVE Ordered'
  OBVIOUS
<1> DEFINE k == Len(inode)
           map == 0..(Header - 1)
<1>1. GenDisk
  BY DEF GenDisk
<1>2. /\ pc = "dir" /\ pc' = "formatted"
      /\ disk' = [disk EXCEPT ![Header] = [t |-> "dir", v |-> dir]]
      /\ UNCHANGED <<mapVars, format, extract>>
  BY DEF WriteDir
<1>3. ~killed /\ opened
  BY <1>1, <1>2, GenDiskFrame DEF Ordered, Steps, Before
<1>4. /\ FirstData' = FirstData /\ Home' = Home
      /\ inode_off \in Addr /\ inode_off # Header
      /\ Header \in Addr /\ map \subseteq Addr \ {Header}
      /\ k \in Nat /\ FirstData \in Nat
      /\ \A i \in 0..(k - 1) : FirstData + i \in Addr \ {Header}
  <2>1. FirstData' = FirstData /\ Home' = Home
    BY <1>2 DEF FirstData, Home, format
  <2>2. /\ k \in Nat /\ FirstData + k <= NBlocks
        /\ FirstData \in {Header + 1, Header + 2}
    BY <1>3, Numbers
  <2>3. /\ Header \in Blocks /\ map \subseteq Blocks \ {Header}
    OBVIOUS
  <2>4. \A i \in 0..(k - 1) : FirstData + i \in Blocks \ {Header}
    BY <2>2
  <2>5. inode_off \in Addr /\ inode_off # Header
    BY <1>2, <1>3, Numbers DEF AfterInode
  <2> QED
    BY <2>1, <2>2, <2>3, <2>4, <2>5 DEF Addr
<1>5. /\ disk' \in [Addr -> Contents]
      /\ \A c \in Addr : disk'[c] = IF c = Header THEN [t |-> "dir", v |-> dir] ELSE disk[c]
  <2>1. [t |-> "dir", v |-> dir] \in Contents
    BY DEF Ordered, Typed, Contents
  <2> QED
    BY <1>2, <1>4, <2>1 DEF Ordered, Typed
<1>6. Typed'
  BY <1>2, <1>5 DEF Ordered, Typed, Labels, mapVars, format, extract
<1>7. Allocated'
  BY <1>2, <1>3, <1>4
     DEF Ordered, Allocated, NextBlock, Before, mapVars, format, AfterInode
<1>8. Laid'
  <2>1. Written' = Written \cup {Header}
    BY <1>2, <1>4 DEF Written, AfterInode, AfterBitmap, AfterDir, format
  <2>2. \A c \in Addr : disk'[c] # Hole <=> c \in Written'
    BY <1>3, <1>5, <2>1 DEF Ordered, Laid, Hole
  <2>3. Room => \A i \in 0..(k - 1) : disk'[FirstData + i] = [t |-> "data", v |-> i]
    BY <1>3, <1>4, <1>5 DEF Ordered, Laid
  <2>4. Room => disk'[inode_off] = [t |-> "inode", v |-> inode]
    BY <1>2, <1>3, <1>4, <1>5 DEF Ordered, Laid, AfterInode
  <2>5. \A b \in map : disk'[b] = [t |-> "bitmap", v |-> used]
    BY <1>2, <1>3, <1>4, <1>5 DEF Ordered, Laid, AfterInode, AfterBitmap
  <2>6. Room' = Room
    BY <1>2 DEF Room, BlocksOf, format
  <2> QED
    BY <1>2, <1>4, <1>5, <2>2, <2>3, <2>4, <2>5, <2>6
       DEF Laid, AfterInode, AfterBitmap, AfterDir, format, mapVars
<1> QED
  BY <1>1, <1>6, <1>7, <1>8, GenDiskFrame DEF Ordered

(* gen-disk is killed before it has written the directory.                 *)
LEMMA KillOrdered == Ordered /\ Kill => Ordered'
<1> USE Sizes, HeaderFits
<1> SUFFICES ASSUME Ordered, Kill PROVE Ordered'
  OBVIOUS
<1>1. /\ pc \in Making /\ killed' = TRUE /\ pc' = "formatted"
      /\ UNCHANGED <<mapVars, size, spill, opened, dir, taken, inode, inode_off,
                     extract, disk>>
  BY DEF Kill, Making, Before
<1>2. ~killed
  BY <1>1 DEF Ordered, Steps
<1>3. ASSUME opened PROVE disk[Header] = Hole
  <2>1. Header \notin FirstData..(FirstData + Len(inode) - 1)
    BY <1>2, Numbers
  <2>2. pc \in AfterInode => inode_off # Header
    BY <1>2, Numbers
  <2>3. pc \notin AfterDir
    BY <1>1 DEF Making, Before, AfterDir, AfterBitmap, AfterInode
  <2>4. Header \notin 0..(Header - 1)
    OBVIOUS
  <2>5. Header \notin Written /\ Header \in Addr
    BY <2>1, <2>2, <2>3, <2>4 DEF Written, Addr
  <2> QED
    BY <1>2, <1>3, <2>5 DEF Ordered, Laid
<1>4. root = Zeros /\ slot = 0 /\ dump = <<>>
  BY <1>1 DEF Ordered, Scanning
<1>5. Scanning' /\ ((killed /\ opened) => Hidden)'
  BY <1>1, <1>3, <1>4 DEF Hidden, Scanning, extract
<1>6. Steps'
  BY <1>1, <1>2 DEF Ordered, Steps, Making, Before
<1>7. Typed'
  <2>1. killed' \in BOOLEAN
    BY <1>1, Zenon
  <2> QED
    BY <1>1, <2>1 DEF Ordered, Typed, Labels, mapVars, extract
<1> QED
  BY <1>1, <1>5, <1>6, <1>7 DEF Ordered

-----------------------------------------------------------------------------
(* extract leaves the image and gen-disk's variables alone.                *)
LEMMA ExtractFrame ==
  ASSUME Ordered, Extract
  PROVE  /\ pc \in AfterDir /\ pc' \in AfterDir
         /\ UNCHANGED <<mapVars, format, disk>>
         /\ Steps' /\ Room' = Room
         /\ ~killed => opened /\ Allocated /\ Laid /\ Allocated' /\ Laid'
<1>1. /\ pc \in {"formatted", "scan", "copy"}
      /\ pc' \in {"scan", "copy", "wild", "done"}
      /\ UNCHANGED <<mapVars, format, disk>>
  BY DEF Extract, ReadRoot, StrangeRoot, SkipSlot, ReadInode, StrangeInode, CopyBlock,
         EndOfFile, NoEnd, Finish
<1>2. pc \in AfterDir /\ pc' \in AfterDir
  BY <1>1 DEF AfterDir, AfterBitmap, AfterInode
<1>3. /\ pc \in AfterInode /\ pc' \in AfterInode
      /\ pc \in AfterBitmap /\ pc' \in AfterBitmap
  BY <1>2 DEF AfterDir, AfterBitmap
<1>4. /\ FirstData' = FirstData /\ Home' = Home /\ Written' = Written
      /\ NextBlock' = NextBlock /\ Room' = Room
  BY <1>1, <1>2, <1>3 DEF FirstData, Home, Written, NextBlock, Room, BlocksOf, format
<1>5. /\ pc \notin Making /\ pc' \notin Making
      /\ pc \notin Before \cup {"slot", "name"} /\ pc' \notin Before \cup {"slot", "name"}
  BY <1>1 DEF Making, Before
<1>6. Steps' /\ (~killed => opened)
  BY <1>1, <1>5 DEF Ordered, Steps, format
<1>7. ASSUME ~killed PROVE opened /\ Allocated /\ Laid /\ Allocated' /\ Laid'
  <2>1. opened /\ Allocated /\ Laid
    BY <1>6, <1>7 DEF Ordered
  <2>2. Allocated'
    BY <1>1, <1>2, <1>3, <1>4, <1>5, <2>1 DEF Allocated, mapVars, format
  <2>3. Laid'
    BY <1>1, <1>2, <1>3, <1>4, <2>1 DEF Laid, mapVars, format
  <2> QED
    BY <2>1, <2>2, <2>3
<1> QED
  BY <1>1, <1>2, <1>4, <1>6, <1>7

(* What extract finds in the block of an inode.                            *)
LEMMA InodeRead ==
  ASSUME Ordered, NEW b, Stored(b).t = "inode"
  PROVE  Stored(b).v \in Seq(Addr) /\ Len(Stored(b).v) <= Words
<1>1. b \in Addr /\ Stored(b) = disk[b]
  BY DEF Stored, Hole
<1>2. disk[b] \in Contents
  BY <1>1 DEF Ordered, Typed
<1> QED
  BY <1>1, <1>2 DEF Contents

(* The slot of the file leads to its inode.                                *)
LEMMA TakenSlot ==
  ASSUME Ordered, ~killed, Room, taken # NSlots, pc = "scan"
  PROVE  /\ root[taken] = [off |-> Header + 1, size |-> size]
         /\ Stored(Header + 1) = [t |-> "inode", v |-> inode]
         /\ Header + 1 # 0
<1>1. root[taken] = [off |-> Header + 1, size |-> size]
  BY DEF Ordered, Reading, Allocated
<1>2. inode_off = Header + 1 /\ Header + 1 \in Addr /\ Header + 1 # 0
  BY RoomLeft, Sizes, HeaderFits DEF Addr, Home, AfterInode
<1>3. disk[inode_off] = [t |-> "inode", v |-> inode]
  BY DEF Ordered, Steps, Before, Laid, AfterInode
<1> QED
  BY <1>1, <1>2, <1>3 DEF Stored

(* A piece of another slot does not change what the file's slot has left   *)
(* in the dump.                                                            *)
LEMMA OtherPiece ==
  ASSUME NEW p \in Pieces, p.s # taken, NEW c \in Nat, NEW m \in Nat,
         dump \in Seq(Pieces), dump' = Append(dump, p), UNCHANGED <<size, taken>>,
         Holds(c, m)
  PROVE  Holds(c, m)'
<1> DEFINE l == Len(dump)
<1>1. /\ l \in Nat /\ Len(dump') = l + 1
      /\ DOMAIN dump = 1..l /\ DOMAIN dump' = 1..(l + 1)
      /\ dump'[l + 1] = p
      /\ \A i \in 1..l : dump'[i] = dump[i]
  OBVIOUS
<1> HIDE DEF l
<1>2. m + c <= l
  BY <1>1 DEF Holds, l
<1>3. \A i \in DOMAIN dump' : dump'[i].s = taken' <=> i \in (m + 1)..(m + c)
  <2> TAKE i \in DOMAIN dump'
  <2>1. CASE i = l + 1
    BY <1>1, <1>2, <2>1
  <2>2. CASE i \in 1..l
    BY <1>1, <2>2 DEF Holds
  <2> QED
    BY <1>1, <2>1, <2>2
<1>4. \A k \in 0..(c - 1) : /\ dump'[m + k + 1].v = Piece(k).v
                            /\ dump'[m + k + 1].n = Piece(k).n
  <2> TAKE k \in 0..(c - 1)
  <2>1. m + k + 1 \in 1..l
    BY <1>1, <1>2
  <2> QED
    BY <1>1, <2>1 DEF Holds
<1>5. \A k : Piece(k)' = Piece(k)
  BY DEF Piece
<1>6. m \in 0..(Len(dump') - c)
  BY <1>1, <1>2
<1> QED
  BY <1>3, <1>4, <1>5, <1>6 DEF Holds

(* extract reads the directory that gen-disk wrote, or zeros.              *)
LEMMA ReadRootOrdered == Ordered /\ ReadRoot => Ordered'
<1> USE Sizes, HeaderFits
<1> SUFFICES ASSUME Ordered, ReadRoot PROVE Ordered'
  OBVIOUS
<1>1. Extract
  BY DEF Extract
<1>2. /\ pc = "formatted" /\ pc' = "scan"
      /\ root' = IF disk[Header] = Hole THEN Zeros ELSE disk[Header].v
      /\ UNCHANGED <<mapVars, format, slot, file, j, filesz, dump, disk>>
  BY DEF ReadRoot
<1>3. slot = 0 /\ dump = <<>> /\ Zeros \in SlotSet
  <2>1. slot = 0 /\ dump = <<>> /\ root = Zeros
    BY <1>2 DEF Ordered, Scanning
  <2> QED
    BY <2>1 DEF Ordered, Typed
<1>4. ~killed => root' = dir
  BY <1>1, <1>2, ExtractFrame DEF Laid, Hole
<1>5. killed /\ opened => root' = Zeros /\ disk[Header] = Hole
  BY <1>2 DEF Ordered, Hidden
<1>6. root' \in SlotSet
  <2>1. Header \in Addr
    BY Sizes, HeaderFits DEF Addr
  <2>2. disk[Header] \in Contents
    BY <2>1 DEF Ordered, Typed
  <2>3. disk[Header].t \in {"hole", "dir"}
    BY DEF ReadRoot
  <2> QED
    BY <1>2, <1>3, <2>2, <2>3 DEF Contents, Hole
<1>7. Typed'
  BY <1>2, <1>6 DEF Ordered, Typed, Labels, mapVars, format
<1>8. Scanning' /\ ((killed /\ opened) => Hidden)'
  BY <1>2, <1>3, <1>5 DEF Hidden, Scanning, Making, Before, format
<1>9. (~killed /\ Room /\ taken # NSlots) => Reading'
  BY <1>2, <1>3, <1>4 DEF Reading, format, Ordered, Typed
<1> QED
  BY <1>1, <1>2, <1>7, <1>8, <1>9, ExtractFrame DEF Ordered, format

(* Only in an earlier image can another block be in the directory's place. *)
LEMMA StrangeRootOrdered == Ordered /\ StrangeRoot => Ordered'
<1> SUFFICES ASSUME Ordered, StrangeRoot PROVE Ordered'
  OBVIOUS
<1>1. Extract
  BY DEF Extract
<1>2. /\ pc = "formatted" /\ pc' = "wild" /\ disk[Header].t \notin {"hole", "dir"}
      /\ UNCHANGED <<mapVars, format, extract, disk>>
  BY DEF StrangeRoot
<1>3. killed /\ ~opened
  <2>1. ~killed => disk[Header] = [t |-> "dir", v |-> dir]
    BY <1>1, ExtractFrame DEF Laid
  <2>2. killed /\ opened => disk[Header] = Hole
    BY DEF Ordered, Hidden
  <2> QED
    BY <1>2, <2>1, <2>2 DEF Hole
<1>4. Typed'
  BY <1>2 DEF Ordered, Typed, Labels, mapVars, format, extract
<1>5. Scanning'
  BY <1>2 DEF Ordered, Scanning, Making, Before, extract
<1>6. killed' /\ ~opened'
  BY <1>2, <1>3 DEF format
<1> QED
  BY <1>1, <1>4, <1>5, <1>6, ExtractFrame DEF Ordered

(* A slot that is empty for extract is not the file's.                     *)
LEMMA SkipSlotOrdered == Ordered /\ SkipSlot => Ordered'
<1> USE Sizes
<1> SUFFICES ASSUME Ordered, SkipSlot PROVE Ordered'
  OBVIOUS
<1>1. Extract
  BY DEF Extract
<1>2. /\ pc = "scan" /\ pc' = "scan"
      /\ slot < NSlots /\ root[slot].off = 0 /\ slot' = slot + 1
      /\ UNCHANGED <<mapVars, format, root, file, j, filesz, dump, disk>>
  BY DEF SkipSlot
<1>3. slot \in Nat /\ slot' \in 0..NSlots
  BY <1>2 DEF Ordered, Typed
<1>4. Typed'
  BY <1>2, <1>3 DEF Ordered, Typed, Labels, mapVars, format
<1>5. Scanning' /\ ((killed /\ opened) => Hidden)'
  <2>1. \A i \in DOMAIN dump : dump[i].s < slot + 1
    <3> TAKE i \in DOMAIN dump
    <3>1. dump[i].s < slot /\ dump[i] \in Pieces
      BY <1>2 DEF Ordered, Typed, Scanning
    <3> QED
      BY <1>3, <3>1 DEF Pieces, Slots
  <2> QED
    BY <1>2, <2>1 DEF Ordered, Hidden, Scanning, Making, Before, format
<1>6. (~killed /\ Room /\ taken # NSlots) => Reading'
  <2> SUFFICES ASSUME ~killed, Room, taken # NSlots PROVE Reading'
    OBVIOUS
  <2>1. slot # taken
    BY <1>2, TakenSlot
  <2>2. taken \in Nat
    BY DEF Ordered, Typed
  <2>3. slot' > taken' => slot > taken
    BY <1>2, <1>3, <2>1, <2>2 DEF format
  <2>4. \A c, m : Holds(c, m)' = Holds(c, m)
    BY <1>2 DEF Holds, Piece, format
  <2> QED
    BY <1>2, <2>3, <2>4 DEF Ordered, Reading, format
<1> QED
  BY <1>1, <1>2, <1>4, <1>5, <1>6, ExtractFrame DEF Ordered, format

(* extract begins to read a file: nothing of its slot is in the dump yet.  *)
LEMMA ReadInodeOrdered == Ordered /\ ReadInode => Ordered'
<1> USE Sizes
<1> SUFFICES ASSUME Ordered, ReadInode PROVE Ordered'
  OBVIOUS
<1>1. Extract
  BY DEF Extract
<1>2. /\ pc = "scan" /\ pc' = "copy" /\ slot < NSlots
      /\ root[slot].off # 0
      /\ Stored(root[slot].off).t = "inode"
      /\ file' = Stored(root[slot].off).v
      /\ filesz' = root[slot].size
      /\ j' = 0
      /\ UNCHANGED <<mapVars, format, root, slot, dump, disk>>
  BY DEF ReadInode
<1>3. slot \in Slots /\ slot \in Nat
  BY <1>2 DEF Ordered, Typed, Slots
<1>4. file' \in Seq(Addr) /\ Len(file') <= Words
  BY <1>2, InodeRead
<1>5. filesz' \in 0..(SizeMod - 1)
  BY <1>2, <1>3 DEF Ordered, Typed, SlotSet
<1>6. Typed'
  <2>1. j' \in 0..Words /\ j' <= Len(file')
    BY <1>2, <1>4
  <2> QED
    BY <1>2, <1>4, <1>5, <2>1 DEF Ordered, Typed, Labels, mapVars, format
<1>7. ~(killed /\ opened)
  BY <1>2, <1>3 DEF Ordered, Hidden, Zeros
<1>8. \A i \in DOMAIN dump : dump[i].s < slot
  BY <1>2 DEF Ordered, Scanning
<1>9. Scanning' /\ ((killed /\ opened) => Hidden)'
  BY <1>2, <1>7, <1>8 DEF Hidden, Scanning, Making, Before, format
<1>10. (~killed /\ Room /\ taken # NSlots) => Reading'
  <2> SUFFICES ASSUME ~killed, Room, taken # NSlots PROVE Reading'
    OBVIOUS
  <2>1. \A c, m : Holds(c, m)' = Holds(c, m)
    BY <1>2 DEF Holds, Piece, format
  <2>2. ASSUME slot = taken
        PROVE  /\ file' = inode
               /\ filesz' = size - 0 * BlkSize
               /\ Holds(0, Len(dump) - 0)
    <3>1. root[slot] = [off |-> Header + 1, size |-> size] /\ file' = inode
      BY <1>2, <1>7, <2>2, TakenSlot
    <3>2. filesz' = size /\ size - 0 * BlkSize = size
      BY <1>2, <3>1 DEF Ordered, Typed
    <3>3. Len(dump) \in Nat
      BY DEF Ordered, Typed
    <3>4. \A i \in DOMAIN dump : dump[i].s # taken
      BY <1>3, <1>8, <2>2
    <3> QED
      BY <3>1, <3>2, <3>3, <3>4 DEF Holds
  <2>3. root' = dir'
    BY <1>2, <1>7 DEF Ordered, Reading, format
  <2>4. (slot > taken) => \E m \in Nat : Holds(BlocksOf(size), m)
    BY <1>2, <1>7 DEF Ordered, Reading
  <2> QED
    BY <1>2, <2>1, <2>2, <2>3, <2>4 DEF Reading, format
<1> QED
  BY <1>1, <1>2, <1>6, <1>7, <1>9, <1>10, ExtractFrame DEF Ordered, format

(* What the stack held leads to no inode: another slot's piece at most.    *)
LEMMA StrangeInodeOrdered == Ordered /\ StrangeInode => Ordered'
<1> USE Sizes
<1> SUFFICES ASSUME Ordered, StrangeInode PROVE Ordered'
  OBVIOUS
<1> DEFINE p == [s |-> slot, v |-> Hole, n |-> BlkSize]
<1>1. Extract
  BY DEF Extract
<1>2. /\ pc = "scan" /\ slot < NSlots
      /\ root[slot].off # 0
      /\ Stored(root[slot].off).t # "inode"
      /\ UNCHANGED <<mapVars, format, root, file, j, filesz, disk>>
      /\ \/ pc' = "scan" /\ slot' = slot + 1 /\ dump' = dump
         \/ pc' = "scan" /\ slot' = slot + 1 /\ dump' = Append(dump, p)
         \/ pc' = "wild" /\ slot' = slot /\ dump' = dump
  BY DEF StrangeInode
<1>3. slot \in Slots /\ slot \in Nat /\ slot' \in 0..NSlots
  BY <1>2 DEF Ordered, Typed, Slots
<1>4. p \in Pieces /\ p.s = slot
  BY <1>3 DEF Pieces, Contents, Hole
<1>5. dump \in Seq(Pieces) /\ dump' \in Seq(Pieces)
  <2>1. dump \in Seq(Pieces)
    BY DEF Ordered, Typed
  <2>2. Append(dump, p) \in Seq(Pieces)
    BY <1>4, <2>1
  <2> QED
    BY <1>2, <2>1, <2>2
<1>6. Typed'
  <2>1. pc' \in {"scan", "wild"} /\ UNCHANGED <<mapVars, format, root, file, j, filesz, disk>>
    BY <1>2
  <2> QED
    BY <1>3, <1>5, <2>1 DEF Ordered, Typed, Labels, mapVars, format
<1>7. ~(killed /\ opened)
  BY <1>2, <1>3 DEF Ordered, Hidden, Zeros
<1>8. \A i \in DOMAIN dump' :
         dump'[i].s < slot' \/ (pc' \in {"copy", "wild"} /\ dump'[i].s = slot')
  <2>1. \A i \in DOMAIN dump : dump[i].s < slot /\ dump[i].s \in Nat
    <3> TAKE i \in DOMAIN dump
    <3>1. dump[i] \in Pieces
      BY <1>5
    <3>2. dump[i].s < slot
      BY <1>2 DEF Ordered, Scanning
    <3> QED
      BY <3>1, <3>2 DEF Pieces, Slots
  <2>2. CASE dump' = dump
    BY <1>2, <1>3, <2>1, <2>2
  <2>3. CASE dump' = Append(dump, p) /\ slot' = slot + 1
    <3>1. /\ DOMAIN dump' = DOMAIN dump \cup {Len(dump) + 1}
          /\ dump'[Len(dump) + 1] = p
          /\ \A i \in DOMAIN dump : dump'[i] = dump[i]
      BY <1>5, <2>3
    <3>2. \A i \in DOMAIN dump' : dump'[i].s < slot + 1
      BY <1>3, <1>4, <2>1, <3>1
    <3> QED
      BY <2>3, <3>2
  <2> QED
    BY <1>2, <2>2, <2>3
<1>9. Scanning' /\ ((killed /\ opened) => Hidden)'
  BY <1>2, <1>7, <1>8 DEF Hidden, Scanning, Making, Before, format
<1>10. (~killed /\ Room /\ taken # NSlots) => Reading'
  <2> SUFFICES ASSUME ~killed, Room, taken # NSlots PROVE Reading'
    OBVIOUS
  <2>1. slot # taken /\ taken \in Nat
    BY <1>2, <1>7, TakenSlot DEF Ordered, Typed
  <2>2. root' = dir'
    BY <1>2, <1>7 DEF Ordered, Reading, format
  <2>3. ASSUME slot' > taken, pc' = "scan"
        PROVE  \E m \in Nat : Holds(BlocksOf(size), m)'
    <3>1. slot > taken
      BY <1>2, <1>3, <2>1, <2>3
    <3> DEFINE n == BlocksOf(size)
    <3>2. PICK m \in Nat : Holds(n, m)
      BY <1>2, <1>7, <3>1 DEF Ordered, Reading
    <3>3. n \in Nat
      BY <1>7, Numbers
    <3>4. size' = size /\ taken' = taken
      BY <1>2 DEF format
    <3>5. CASE dump' = dump
      <4>1. \A c \in Nat : Holds(c, m) => Holds(c, m)'
        BY <3>4, <3>5 DEF Holds, Piece
      <4> QED
        BY <3>2, <3>3, <3>4, <4>1 DEF Holds, BlocksOf
    <3>6. CASE dump' = Append(dump, p)
      <4>1. \A c \in Nat : Holds(c, m) => Holds(c, m)'
        BY <1>4, <1>5, <2>1, <3>4, <3>6, OtherPiece
      <4> QED
        BY <3>2, <3>3, <3>4, <4>1 DEF Holds, BlocksOf
    <3> QED
      BY <1>2, <3>5, <3>6
  <2> QED
    BY <1>2, <2>2, <2>3 DEF Reading, format
<1> QED
  BY <1>1, <1>2, <1>6, <1>7, <1>9, <1>10, ExtractFrame DEF Ordered, format

(* The number of bytes that extract takes for block i of a file, with as   *)
(* many bytes left as the file has behind that block's start.              *)
LEMMA LeftOver ==
  ASSUME NEW sz \in 0..MaxSize, NEW i \in Nat, i < BlocksOf(sz)
  PROVE  LET left == sz - i * BlkSize
         IN  /\ left > 0
             /\ left < BlkSize <=> ~((i + 1) * BlkSize <= sz)
             /\ i + 1 < BlocksOf(sz) =>
                   (left + SizeMod - BlkSize) % SizeMod = sz - (i + 1) * BlkSize
<1> USE Sizes
<1> DEFINE n == BlocksOf(sz)
           at == i * BlkSize
           last == (i + 1) * BlkSize
<1>1. n \in Nat /\ n * BlkSize < sz + BlkSize /\ sz \in Nat
  BY BlocksHold
<1>2. at \in Nat /\ last = at + BlkSize /\ at + BlkSize <= n * BlkSize
  BY <1>1, Products
<1>3. n * BlkSize \in Nat
  BY <1>1, Products
<1>4. ASSUME i + 1 < n
      PROVE  (sz - at + SizeMod - BlkSize) % SizeMod = sz - last
  <2>1. last + BlkSize <= n * BlkSize
    BY <1>4, <1>1, Products
  <2> DEFINE rest == sz - last
  <2>2. rest \in Int /\ 0 <= rest /\ rest < SizeMod
    BY <1>1, <1>2, <1>3, <2>1
  <2>3. sz - at + SizeMod - BlkSize = rest + SizeMod
    BY <1>1, <1>2
  <2> HIDE DEF rest, at, last, n
  <2>4. (rest + SizeMod) % SizeMod = rest
    BY <2>2, SMT
  <2> QED
    BY <2>3, <2>4 DEF rest
<1> HIDE DEF n, at, last
<1>5. /\ sz - at > 0
      /\ sz - at < BlkSize <=> ~(last <= sz)
  BY <1>1, <1>2, <1>3
<1> QED
  BY <1>4, <1>5 DEF n, at, last

(* The next block of the file is the next block of its data.               *)
LEMMA NextPiece ==
  ASSUME Ordered, ~killed, Room, taken # NSlots, pc = "copy", slot = taken,
         j < Len(file)
  PROVE  /\ j \in Nat /\ Len(file) = BlocksOf(size)
         /\ disk[file[j + 1]] = Piece(j).v
         /\ (IF filesz < BlkSize THEN filesz ELSE BlkSize) = Piece(j).n
         /\ Piece(j).n # 0
         /\ j + 1 < Len(file) =>
               (filesz + SizeMod - BlkSize) % SizeMod = size - (j + 1) * BlkSize
<1> USE Sizes
<1>1. /\ file = inode /\ filesz = size - j * BlkSize
      /\ Len(inode) = BlocksOf(size)
  BY DEF Ordered, Reading, Allocated, AfterInode
<1>2. j \in Nat /\ size \in 0..MaxSize /\ j < BlocksOf(size) /\ Len(inode) \in Nat
  BY <1>1 DEF Ordered, Typed
<1>3. disk[file[j + 1]] = [t |-> "data", v |-> j]
  <2>1. inode[j + 1] = FirstData + j
    <3>1. j + 1 \in 1..Len(inode)
      BY <1>1, <1>2
    <3>2. inode[j + 1] = FirstData + (j + 1) - 1
      BY <3>1 DEF Ordered, Allocated
    <3>3. FirstData \in Nat
      BY DEF FirstData
    <3> QED
      BY <1>2, <3>2, <3>3
  <2>2. j \in 0..(Len(inode) - 1)
    BY <1>1, <1>2
  <2>3. disk[FirstData + j] = [t |-> "data", v |-> j]
    BY <2>2 DEF Ordered, Steps, Before, Laid
  <2> QED
    BY <1>1, <2>1, <2>3
<1> DEFINE left == size - j * BlkSize
           next == (j + 1) * BlkSize
<1>4. /\ left > 0
      /\ left < BlkSize <=> ~(next <= size)
      /\ j + 1 < BlocksOf(size) =>
            (left + SizeMod - BlkSize) % SizeMod = size - (j + 1) * BlkSize
  BY <1>2, LeftOver
<1>5. Piece(j) = [v |-> [t |-> "data", v |-> j],
                  n |-> IF next <= size THEN BlkSize ELSE left]
  BY DEF Piece
<1>6. filesz = left
  BY <1>1
<1> HIDE DEF left, next
<1>7. (IF filesz < BlkSize THEN filesz ELSE BlkSize) = Piece(j).n /\ Piece(j).n # 0
  BY <1>4, <1>5, <1>6
<1> QED
  BY <1>1, <1>2, <1>3, <1>4, <1>5, <1>6, <1>7

(* One block more of the file is in the dump.                              *)
LEMMA OwnPiece ==
  ASSUME NEW p \in Pieces, NEW c \in Nat, NEW m \in Nat, m + c = Len(dump),
         p.s = taken, p.v = Piece(c).v, p.n = Piece(c).n,
         dump \in Seq(Pieces), dump' = Append(dump, p), UNCHANGED <<size, taken>>,
         Holds(c, m)
  PROVE  Len(dump') = m + (c + 1) /\ Holds(c + 1, m)'
<1> DEFINE l == Len(dump)
<1>1. /\ l \in Nat /\ Len(dump') = l + 1 /\ l = m + c
      /\ DOMAIN dump = 1..l /\ DOMAIN dump' = 1..(l + 1)
      /\ dump'[l + 1] = p
      /\ \A i \in 1..l : dump'[i] = dump[i]
  OBVIOUS
<1> HIDE DEF l
<1>2. \A i \in DOMAIN dump' : dump'[i].s = taken' <=> i \in (m + 1)..(m + c + 1)
  <2> TAKE i \in DOMAIN dump'
  <2>1. CASE i = l + 1
    BY <1>1, <2>1
  <2>2. CASE i \in 1..l
    BY <1>1, <2>2 DEF Holds
  <2> QED
    BY <1>1, <2>1, <2>2
<1>3. \A k \in 0..c : /\ dump'[m + k + 1].v = Piece(k).v
                      /\ dump'[m + k + 1].n = Piece(k).n
  <2> TAKE k \in 0..c
  <2>1. CASE k = c
    BY <1>1, <2>1
  <2>2. CASE k # c
    <3>1. k \in 0..(c - 1) /\ m + k + 1 \in 1..l
      BY <1>1, <2>2
    <3> QED
      BY <1>1, <3>1 DEF Holds
  <2> QED
    BY <2>1, <2>2
<1>4. \A k : Piece(k)' = Piece(k)
  BY DEF Piece
<1>5. m \in 0..(Len(dump') - (c + 1)) /\ c + 1 - 1 = c /\ m + (c + 1) = m + c + 1
  BY <1>1
<1>6. Len(dump') = m + (c + 1)
  BY <1>1
<1>7. \A i \in DOMAIN dump' : dump'[i].s = taken' <=> i \in (m + 1)..(m + (c + 1))
  BY <1>2, <1>5, Zenon
<1>8. \A k \in 0..((c + 1) - 1) : /\ dump'[m + k + 1].v = Piece(k)'.v
                                  /\ dump'[m + k + 1].n = Piece(k)'.n
  <2>1. (c + 1) - 1 = c
    BY <1>5
  <2>2. \A k : Piece(k)'.v = Piece(k).v /\ Piece(k)'.n = Piece(k).n
    BY <1>4, Zenon
  <2> QED
    BY <1>3, <2>1, <2>2, Zenon
<1> QED
  BY <1>5, <1>6, <1>7, <1>8, Zenon DEF Holds

(* extract copies one block, the last one only as far as the file goes.    *)
LEMMA CopyBlockOrdered == Ordered /\ CopyBlock => Ordered'
<1> USE Sizes
<1> SUFFICES ASSUME Ordered, CopyBlock PROVE Ordered'
  OBVIOUS
<1> DEFINE n == IF filesz < BlkSize THEN filesz ELSE BlkSize
           p == [s |-> slot, v |-> disk[file[j + 1]], n |-> n]
<1>1. Extract
  BY DEF Extract
<1>2. /\ pc = "copy" /\ pc' = "copy" /\ j < Len(file)
      /\ dump' = IF n = 0 THEN dump ELSE Append(dump, p)
      /\ j' = j + 1
      /\ filesz' = (filesz + SizeMod - BlkSize) % SizeMod
      /\ UNCHANGED <<mapVars, format, root, slot, file, disk>>
  BY DEF CopyBlock
<1>3. /\ ~(killed /\ opened) /\ slot \in Slots /\ slot \in Nat
      /\ j \in Nat /\ filesz \in Nat /\ Len(file) \in Nat /\ Len(file) <= Words
  BY <1>2 DEF Ordered, Hidden, Scanning, Typed, Slots
<1>4. p \in Pieces /\ p.s = slot /\ p.v = disk[file[j + 1]] /\ p.n = n
  <2>1. n \in Nat
    BY <1>3
  <2>2. file[j + 1] \in Addr
    BY <1>2, <1>3 DEF Ordered, Typed
  <2>3. disk[file[j + 1]] \in Contents
    BY <2>2 DEF Ordered, Typed
  <2> HIDE DEF n
  <2> QED
    BY <1>3, <2>1, <2>3 DEF Pieces
<1> HIDE DEF p, n
<1>5. dump \in Seq(Pieces) /\ dump' \in Seq(Pieces)
  BY <1>2, <1>4 DEF Ordered, Typed
<1>6. Typed'
  <2>1. filesz' \in 0..(SizeMod - 1)
    BY <1>2, <1>3, SMT
  <2>2. j' \in 0..Words /\ j' <= Len(file')
    BY <1>2, <1>3
  <2> QED
    BY <1>2, <1>5, <2>1, <2>2 DEF Ordered, Typed, mapVars, format
<1>7. \A i \in DOMAIN dump' : dump'[i].s < slot \/ dump'[i].s = slot
  <2>1. \A i \in DOMAIN dump : dump[i].s < slot \/ dump[i].s = slot
    BY <1>2 DEF Ordered, Scanning
  <2>2. CASE dump' = dump
    BY <2>1, <2>2
  <2>3. CASE dump' = Append(dump, p)
    <3>1. /\ DOMAIN dump' = DOMAIN dump \cup {Len(dump) + 1}
          /\ dump'[Len(dump) + 1] = p
          /\ \A i \in DOMAIN dump : dump'[i] = dump[i]
      BY <1>4, <1>5, <2>3
    <3> QED
      BY <1>4, <2>1, <3>1
  <2> QED
    BY <1>2, <2>2, <2>3
<1>8. Scanning' /\ ((killed /\ opened) => Hidden)'
  <2>1. slot < NSlots
    BY <1>2 DEF Ordered, Scanning
  <2> QED
    BY <1>2, <1>3, <1>7, <2>1 DEF Hidden, Scanning, Making, Before, format
<1>9. (~killed /\ Room /\ taken # NSlots) => Reading'
  <2> SUFFICES ASSUME ~killed, Room, taken # NSlots PROVE Reading'
    OBVIOUS
  <2>1. root' = dir' /\ size' = size /\ taken' = taken
    BY <1>2, <1>3 DEF Ordered, Reading, format
  <2>2. ASSUME slot = taken
        PROVE  /\ file' = inode
               /\ j' < Len(file') => filesz' = size - j' * BlkSize
               /\ Holds(j, Len(dump) - j)'
    <3>1. /\ file = inode /\ Len(file) = BlocksOf(size)
          /\ p.v = Piece(j).v /\ p.n = Piece(j).n /\ n # 0
          /\ j + 1 < Len(file) =>
                (filesz + SizeMod - BlkSize) % SizeMod = size - (j + 1) * BlkSize
      BY <1>2, <1>3, <1>4, <2>2, NextPiece DEF n, Ordered, Reading
    <3>2. dump' = Append(dump, p)
      BY <1>2, <3>1
    <3>3. PICK m \in Nat : m + j = Len(dump) /\ Holds(j, m)
      <4>1. Holds(j, Len(dump) - j)
        BY <1>2, <1>3, <2>2 DEF Ordered, Reading
      <4>2. Len(dump) \in Nat
        BY <1>5
      <4>3. Len(dump) - j \in Nat /\ Len(dump) - j + j = Len(dump)
        BY <1>3, <4>1, <4>2 DEF Holds
      <4> QED
        BY <4>1, <4>3
    <3>4. ASSUME NEW c \in Nat, c = j
          PROVE  Len(dump') = m + (c + 1) /\ Holds(c + 1, m)'
      <4>1. m + c = Len(dump) /\ Holds(c, m)
        BY <3>3, <3>4
      <4>2. p.s = taken /\ p.v = Piece(c).v /\ p.n = Piece(c).n
        BY <1>4, <2>2, <3>1, <3>4
      <4> QED
        BY <1>4, <1>5, <2>1, <3>2, <4>1, <4>2, OwnPiece
    <3>5. PICK c \in Nat : c = j
      BY <1>3
    <3>6. j' = c + 1 /\ Len(dump') - j' = m /\ Holds(c + 1, m)'
      BY <1>2, <3>4, <3>5
    <3>7. Holds(j, Len(dump) - j)'
      BY <3>6 DEF Holds
    <3> QED
      BY <1>2, <3>1, <3>7
  <2>3. ASSUME slot > taken
        PROVE  \E m \in Nat : Holds(BlocksOf(size), m)'
    <3>1. slot # taken
      BY <1>3, <2>3 DEF Ordered, Typed
    <3>2. PICK m \in Nat : Holds(BlocksOf(size), m)
      BY <1>2, <1>3, <2>3 DEF Ordered, Reading
    <3>3. BlocksOf(size) \in Nat
      BY <1>3, Numbers
    <3>4. CASE dump' = dump
      <4>1. \A c \in Nat : Holds(c, m) => Holds(c, m)'
        BY <2>1, <3>4 DEF Holds, Piece
      <4> QED
        BY <2>1, <3>2, <3>3, <4>1 DEF Holds, BlocksOf
    <3>5. CASE dump' = Append(dump, p)
      <4>1. \A c \in Nat : Holds(c, m) => Holds(c, m)'
        BY <1>4, <1>5, <2>1, <3>1, <3>5, OtherPiece
      <4> QED
        BY <2>1, <3>2, <3>3, <4>1 DEF Holds, BlocksOf
    <3> QED
      BY <1>2, <3>4, <3>5
  <2> QED
    BY <1>2, <2>1, <2>2, <2>3 DEF Reading, format
<1> QED
  BY <1>1, <1>2, <1>3, <1>6, <1>8, <1>9, ExtractFrame DEF Ordered, format

(* The 0xcc behind the last block number ends a file: of the slot that     *)
(* gen-disk took, all blocks have been copied then.                        *)
LEMMA EndOfFileOrdered == Ordered /\ EndOfFile => Ordered'
<1> USE Sizes
<1> SUFFICES ASSUME Ordered, EndOfFile PROVE Ordered'
  OBVIOUS
<1>1. Extract
  BY DEF Extract
<1>2. /\ pc = "copy" /\ pc' = "scan" /\ j = Len(file) /\ slot' = slot + 1
      /\ UNCHANGED <<mapVars, format, root, file, j, filesz, dump, disk>>
  BY DEF EndOfFile
<1>3. ~(killed /\ opened) /\ slot \in Nat /\ slot < NSlots
  BY <1>2 DEF Ordered, Hidden, Scanning, Typed
<1>4. Typed'
  BY <1>2, <1>3 DEF Ordered, Typed, Labels, mapVars, format
<1>5. Scanning' /\ ((killed /\ opened) => Hidden)'
  <2>1. \A i \in DOMAIN dump : dump[i].s < slot + 1
    <3> TAKE i \in DOMAIN dump
    <3>1. dump[i].s < slot \/ dump[i].s = slot
      BY <1>2 DEF Ordered, Scanning
    <3>2. dump[i] \in Pieces
      BY DEF Ordered, Typed
    <3> QED
      BY <1>3, <3>1, <3>2 DEF Pieces, Slots
  <2> QED
    BY <1>2, <1>3, <2>1 DEF Hidden, Scanning, Making, Before, format
<1>6. (~killed /\ Room /\ taken # NSlots) => Reading'
  <2> SUFFICES ASSUME ~killed, Room, taken # NSlots PROVE Reading'
    OBVIOUS
  <2>1. root' = dir' /\ \A c, m : Holds(c, m)' = Holds(c, m)
    BY <1>2, <1>3 DEF Ordered, Reading, Holds, Piece, format
  <2>2. ASSUME slot + 1 > taken
        PROVE  \E m \in Nat : Holds(BlocksOf(size), m)
    <3>1. CASE slot > taken
      BY <1>2, <1>3, <3>1 DEF Ordered, Reading
    <3>2. CASE slot = taken
      <4>1. j = BlocksOf(size) /\ Holds(j, Len(dump) - j)
        BY <1>2, <1>3, <3>2 DEF Ordered, Reading, Allocated, AfterInode
      <4>2. Len(dump) - j \in Nat
        BY <1>2, <4>1 DEF Ordered, Typed, Holds
      <4> QED
        BY <4>1, <4>2
    <3> QED
      BY <1>3, <2>2, <3>1, <3>2 DEF Ordered, Typed
  <2> QED
    BY <1>2, <2>1, <2>2 DEF Reading, format
<1> QED
  BY <1>1, <1>2, <1>3, <1>4, <1>5, <1>6, ExtractFrame DEF Ordered, format

(* extract reads on behind struct file.                                    *)
LEMMA NoEndOrdered == Ordered /\ NoEnd => Ordered'
<1> SUFFICES ASSUME Ordered, NoEnd PROVE Ordered'
  OBVIOUS
<1>1. Extract
  BY DEF Extract
<1>2. pc = "copy" /\ pc' = "wild" /\ UNCHANGED <<mapVars, format, extract, disk>>
  BY DEF NoEnd
<1>3. Typed'
  BY <1>2 DEF Ordered, Typed, Labels, mapVars, format, extract
<1>4. ~(killed /\ opened)
  BY <1>2 DEF Ordered, Hidden
<1>5. Scanning' /\ ((killed /\ opened) => Hidden)' /\ Reading'
  BY <1>2, <1>4 DEF Ordered, Hidden, Scanning, Reading, Making, Before, extract, format
<1> QED
  BY <1>1, <1>2, <1>3, <1>4, <1>5, ExtractFrame DEF Ordered, format

(* extract has seen every slot.                                            *)
LEMMA FinishOrdered == Ordered /\ Finish => Ordered'
<1> SUFFICES ASSUME Ordered, Finish PROVE Ordered'
  OBVIOUS
<1>1. Extract
  BY DEF Extract
<1>2. /\ pc = "scan" /\ pc' = "done" /\ slot = NSlots
      /\ UNCHANGED <<mapVars, format, extract, disk>>
  BY DEF Finish
<1>3. Typed'
  BY <1>2 DEF Ordered, Typed, Labels, mapVars, format, extract
<1>4. Scanning' /\ ((killed /\ opened) => Hidden)'
  BY <1>2 DEF Ordered, Hidden, Scanning, Making, Before, extract, format
<1>5. (~killed /\ Room /\ taken # NSlots) => Reading'
  <2>1. \A c, m : Holds(c, m)' = Holds(c, m)
    BY <1>2 DEF Holds, Piece, extract, format
  <2> QED
    BY <1>2, <2>1 DEF Ordered, Reading, extract, format
<1> QED
  BY <1>1, <1>2, <1>3, <1>4, <1>5, ExtractFrame DEF Ordered, format

(* Every step keeps the invariant.                                         *)
LEMMA NextOrdered == Ordered /\ [DiskNext]_diskVars /\ Contained' => Ordered'
<1> SUFFICES ASSUME Ordered, [DiskNext]_diskVars, Contained' PROVE Ordered'
  OBVIOUS
<1>1. CASE GenDisk
  BY <1>1, StartOrdered, AllocDirBlkOrdered, OpenDiskOrdered, CopyNameOrdered,
     AllocFileOrdered, NoSlotOrdered, WriteDataOrdered, WriteInodeOrdered,
     WriteBitmapOrdered, WriteDirOrdered DEF GenDisk
<1>2. CASE Kill
  BY <1>2, KillOrdered
<1>3. CASE Extract
  BY <1>3, ReadRootOrdered, StrangeRootOrdered, SkipSlotOrdered, ReadInodeOrdered,
     StrangeInodeOrdered, CopyBlockOrdered, EndOfFileOrdered, NoEndOrdered, FinishOrdered DEF Extract
<1>4. CASE UNCHANGED diskVars
  <2>1. /\ UNCHANGED <<used, result, size, spill, pc, killed, opened, dir, taken>>
        /\ UNCHANGED <<inode, inode_off, disk, root, slot, file, j, filesz, dump>>
    BY <1>4 DEF diskVars, mapVars, format, extract
  <2>2. Typed' /\ Steps' /\ Scanning' /\ ((killed /\ opened) => Hidden)'
    BY <2>1 DEF Ordered, Typed, Steps, Hidden, Scanning
  <2>3. /\ FirstData' = FirstData /\ Home' = Home /\ Written' = Written
        /\ NextBlock' = NextBlock /\ Room' = Room
    BY <2>1 DEF FirstData, Home, Written, NextBlock, Room, BlocksOf
  <2>4. ~killed => Allocated' /\ (opened => Laid')
    BY <2>1, <2>3 DEF Ordered, Allocated, Laid
  <2>5. (~killed /\ Room /\ taken # NSlots) => Reading'
    <3>1. \A c, m : Holds(c, m)' = Holds(c, m)
      BY <2>1 DEF Holds, Piece
    <3> QED
      BY <2>1, <3>1 DEF Ordered, Reading
  <2> QED
    BY <2>1, <2>2, <2>3, <2>4, <2>5 DEF Ordered
<1> QED
  BY <1>1, <1>2, <1>3, <1>4 DEF DiskNext

(* Whether the name reaches the bitmap is settled when it is copied.       *)
LEMMA NextIInv == IInv /\ [DiskNext]_diskVars => IInv'
<1> SUFFICES ASSUME IInv, [DiskNext]_diskVars PROVE IInv'
  OBVIOUS
<1>1. CASE CopyName
  <2>1. pc = "slot" /\ pc' = "name"
    BY <1>1 DEF CopyName
  <2>2. Contained
    BY <2>1 DEF IInv, Contained
  <2> QED
    BY <2>1, <2>2, NextOrdered DEF IInv, Before
<1>2. CASE ~CopyName
  <2>1. /\ UNCHANGED <<spill, taken>>
        /\ pc' \in Before \cup {"slot"} => pc \in Before \cup {"slot"}
    BY <1>2 DEF DiskNext, diskVars, Kill, GenDisk, Start, AllocDirBlk, OpenDisk,
                AllocFile, NoSlot, WriteData, WriteInode, WriteBitmap, WriteDir, Extract,
                ReadRoot, StrangeRoot, SkipSlot, ReadInode, StrangeInode, CopyBlock,
                EndOfFile, NoEnd, Finish, format, Before
  <2>2. Contained' = Contained
    BY <2>1 DEF Contained
  <2> QED
    BY <2>1, <2>2, NextOrdered DEF IInv
<1> QED
  BY <1>1, <1>2

LEMMA InitIInv == DiskInit => IInv
BY InitOrdered DEF IInv, DiskInit

-----------------------------------------------------------------------------
(* The inductive invariant                                                 *)
THEOREM Invariant == DiskSpec => []IInv
BY InitIInv, NextIInv, PTL DEF DiskSpec

(* fs_alloc_blk in gen-disk: a block that has been written is never        *)
(* written again, for every file that its inode has room for and every     *)
(* name that leaves the bitmap alone.                                      *)
THEOREM Once == DiskSpec => WriteOnce
<1> DEFINE Kept == \A b \in Addr : disk[b] # Hole => disk'[b] = disk[b]
<1>1. IInv /\ [DiskNext]_diskVars => [(opened /\ Room /\ Contained) => Kept]_diskVars
  <2> SUFFICES ASSUME IInv, DiskNext, opened, Room, Contained PROVE Kept
    OBVIOUS
  <2> USE Sizes, HeaderFits
  <2>1. Ordered /\ DOMAIN disk = Addr
    BY DEF IInv, Ordered, Typed
  <2>2. CASE disk' = disk
    BY <2>2
  <2>3. ASSUME GenDisk, NEW S \in SUBSET Addr, S \cap Written = {},
               \A b \in Addr \ S : disk'[b] = disk[b]
        PROVE  Kept
    BY <2>1, <2>3, GenDiskFrame DEF Ordered, Laid
  <2>4. ASSUME GenDisk
        PROVE  /\ ~killed /\ Len(inode) \in Nat /\ FirstData \in {Header + 1, Header + 2}
               /\ Header \in Blocks /\ 0..(Header - 1) \subseteq Blocks
               /\ FirstData + Len(inode) <= NBlocks
               /\ Home \in Addr /\ Home \notin 0..Header
               /\ Home \notin FirstData..(FirstData + Len(inode) - 1)
               /\ pc \in {"data"} \cup AfterInode => inode_off = Home
    BY <2>1, <2>4, GenDiskFrame, Numbers, RoomLeft
  <2>5. CASE WriteData
    <3>1. GenDisk /\ pc = "data" /\ Len(inode) < BlocksOf(size) /\ Alloc
      BY <2>5 DEF GenDisk, WriteData
    <3>2. FirstData + Len(inode) \in Nat /\ FirstData + Len(inode) < NBlocks
      BY <2>1, <2>4, <3>1, Numbers
    <3>3. NextBlock = FirstData + Len(inode)
      BY <3>1 DEF NextBlock
    <3>4. used = 0..(NextBlock - 1)
      BY <2>1, <2>4, <3>1 DEF Ordered, Allocated
    <3>5. NextBlock \in Nat /\ NextBlock < NBlocks
      BY <3>2, <3>3, Zenon
    <3>6. result' = NextBlock
      BY <3>1, <3>4, <3>5, NextGiven
    <3>7. {result'} \subseteq Addr /\ {result'} \cap Written = {}
      BY <2>4, <3>1, <3>2, <3>3, <3>6
         DEF Written, AfterInode, AfterBitmap, AfterDir, Addr
    <3>8. \A b \in Addr \ {result'} : disk'[b] = disk[b]
      BY <2>1, <2>5 DEF WriteData
    <3> QED
      BY <2>3, <3>1, <3>7, <3>8
  <2>6. CASE WriteInode
    <3>1. GenDisk /\ pc = "data"
      BY <2>6 DEF GenDisk, WriteInode
    <3>2. Written = FirstData..(FirstData + Len(inode) - 1)
      BY <3>1 DEF Written, AfterInode, AfterBitmap, AfterDir
    <3>3. {inode_off} \subseteq Addr /\ {inode_off} \cap Written = {}
      BY <2>4, <3>1, <3>2
    <3>4. \A b \in Addr \ {inode_off} : disk'[b] = disk[b]
      BY <2>1, <2>6 DEF WriteInode
    <3> QED
      BY <2>3, <3>1, <3>3, <3>4
  <2>7. CASE WriteBitmap
    <3> DEFINE map == 0..(Header - 1)
    <3>1. GenDisk /\ pc = "bitmap"
      BY <2>7 DEF GenDisk, WriteBitmap
    <3>2. Written = FirstData..(FirstData + Len(inode) - 1) \cup {inode_off}
      BY <3>1 DEF Written, AfterInode, AfterBitmap, AfterDir
    <3>3. map \subseteq Addr
      BY <2>4, <3>1 DEF Addr
    <3>4. map \cap Written = {}
      <4>1. inode_off \notin map
        BY <2>4, <3>1 DEF AfterInode
      <4>2. \A b \in map : b \notin FirstData..(FirstData + Len(inode) - 1)
        BY <2>4, <3>1
      <4> QED
        BY <3>2, <4>1, <4>2
    <3>5. \A b \in Addr \ map : disk'[b] = disk[b]
      BY <2>1, <2>7 DEF WriteBitmap
    <3> QED
      BY <2>3, <3>1, <3>3, <3>4, <3>5
  <2>8. CASE WriteDir
    <3>1. GenDisk /\ pc = "dir"
      BY <2>8 DEF GenDisk, WriteDir
    <3>2. Written = FirstData..(FirstData + Len(inode) - 1) \cup {inode_off}
                    \cup 0..(Header - 1)
      BY <3>1 DEF Written, AfterInode, AfterBitmap, AfterDir
    <3>3. {Header} \subseteq Addr /\ {Header} \cap Written = {}
      <4>1. inode_off # Header
        BY <2>4, <3>1 DEF AfterInode
      <4> QED
        BY <2>4, <3>1, <3>2, <4>1 DEF Addr
    <3>4. \A b \in Addr \ {Header} : disk'[b] = disk[b]
      BY <2>1, <2>8 DEF WriteDir
    <3> QED
      BY <2>3, <3>1, <3>3, <3>4
  <2>9. ~OpenDisk
    <3>1. ASSUME OpenDisk PROVE FALSE
      <4>1. GenDisk /\ pc = "open"
        BY <3>1 DEF GenDisk, OpenDisk
      <4> QED
        BY <2>1, <4>1, GenDiskFrame DEF Ordered, Steps, Before
    <3> QED
      BY <3>1
  <2>10. CASE Start \/ AllocDirBlk \/ CopyName \/ AllocFile \/ NoSlot \/ Kill \/ Extract
    <3>1. disk' = disk
      BY <2>1, <2>10, ExtractFrame DEF Start, AllocDirBlk, CopyName, AllocFile, NoSlot, Kill
    <3> QED
      BY <2>2, <3>1
  <2> QED
    BY <2>5, <2>6, <2>7, <2>8, <2>9, <2>10 DEF DiskNext, GenDisk
<1> QED
  BY <1>1, Invariant, PTL DEF DiskSpec, WriteOnce

(* main of format.c: the bitmap on the image marks every block that holds  *)
(* something, and no other unless the file has overrun its inode.          *)
THEOREM Exact == DiskSpec => []BitmapExact
<1>1. IInv => BitmapExact
  <2> SUFFICES ASSUME IInv, ~killed, Contained,
                      pc \in {"formatted", "scan", "copy", "done"},
                      NEW b \in 0..(Header - 1)
               PROVE  LET held == {c \in Blocks : disk[c] # Hole}
                      IN  held \subseteq disk[b].v /\ (Room => disk[b].v = held)
    BY DEF BitmapExact
  <2> USE Sizes
  <2>1. Ordered /\ pc \in AfterDir /\ pc \in AfterBitmap /\ pc \in AfterInode
    BY DEF IInv, AfterDir, AfterBitmap, AfterInode
  <2>2. Allocated /\ Laid
    BY <2>1 DEF Ordered, Steps, Before
  <2>3. disk[b].v = used
    BY <2>1, <2>2 DEF Laid
  <2>4. /\ FirstData \in {Header + 1, Header + 2} /\ Len(inode) \in Nat
        /\ inode_off \in {Home} \cup FirstData..(FirstData + Len(inode) - 1)
        /\ Room => inode_off = Home
    BY <2>1, <2>2, Numbers, RoomLeft DEF Allocated
  <2>5. used = 0..(FirstData + Len(inode) - 1)
    <3>1. NextBlock = FirstData + Len(inode)
      BY DEF NextBlock
    <3>2. used = 0..(NextBlock - 1)
      BY <2>2 DEF Allocated
    <3> QED
      BY <2>4, <3>1, <3>2
  <2>6. Written = FirstData..(FirstData + Len(inode) - 1) \cup {inode_off}
                  \cup 0..(Header - 1) \cup {Header}
    BY <2>1 DEF Written
  <2>7. \A c \in Blocks : /\ c \in Written => c \in used
                          /\ Room => (c \in used => c \in Written)
    <3>1. CASE taken = NSlots
      BY <2>4, <2>5, <2>6, <3>1 DEF FirstData, Home
    <3>2. CASE taken # NSlots
      BY <2>4, <2>5, <2>6, <3>2 DEF FirstData, Home
    <3> QED
      BY <3>1, <3>2
  <2>8. \A c \in Blocks : disk[c] # Hole <=> c \in Written
    BY <2>2 DEF Laid, Addr
  <2>9. used \subseteq Blocks
    BY <2>1 DEF Ordered, Typed
  <2> QED
    BY <2>3, <2>7, <2>8, <2>9
<1> QED
  BY <1>1, Invariant, PTL

(* gen-disk killed at any point leaves an image in which extract finds no  *)
(* file, or an earlier one unchanged.                                      *)
THEOREM NothingShown == DiskSpec => []KilledShowsNothing
<1>1. IInv => KilledShowsNothing
  BY DEF IInv, Ordered, Steps, Hidden, KilledShowsNothing
<1> QED
  BY <1>1, Invariant, PTL

(* fs_write_file and extract: the slot that the file was given reads back  *)
(* the file, for every size of it and whatever the other slots hold.       *)
THEOREM ReadsBack == DiskSpec => []FileReadBack
<1>1. IInv => FileReadBack
  <2> SUFFICES ASSUME IInv, pc = "done", ~killed, taken < NSlots, Fits, Contained
               PROVE  ReadBack({taken})
    BY DEF FileReadBack
  <2>1. Ordered /\ taken \in Nat /\ taken # NSlots /\ slot > taken
    BY Sizes DEF IInv, Ordered, Scanning, Typed
  <2>2. Room
    <3>1. BlocksOf(size) \in Nat
      BY <2>1, FileFits DEF Ordered, Typed
    <3> QED
      BY <3>1, Sizes DEF Room, Fits
  <2>3. PICK m \in Nat : Holds(BlocksOf(size), m)
    BY <2>1, <2>2 DEF Ordered, Reading
  <2>4. \A k \in 0..(BlocksOf(size) - 1) :
           [v |-> dump[m + k + 1].v, n |-> dump[m + k + 1].n] = Piece(k)
    BY <2>3 DEF Holds, Piece
  <2> QED
    BY <2>3, <2>4 DEF Holds, ReadBack
<1> QED
  BY <1>1, Invariant, PTL
=============================================================================
