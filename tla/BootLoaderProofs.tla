-------------------------- MODULE BootLoaderProofs --------------------------
(***************************************************************************)
(* What the boot loader leaves in memory, for every kernel file: any size  *)
(* of a sector, any number of program headers, any segments in ascending   *)
(* order.                                                                  *)
(*                                                                         *)
(* The inductive invariant has three parts.  The hand-shake of the boot    *)
(* sector with the keyboard controller and the wait for the disk make sure *)
(* that the address line is on when a sector is taken (Line, Handshake).   *)
(* readseg's locals tell how far it has come (Progress).  And every byte   *)
(* of memory is as it was, or from the last segment whose sectors hold it  *)
(* (Contents).                                                             *)
(***************************************************************************)
EXTENDS BootLoader, TLAPS, WellFoundedInduction

(* A set of naturals with a member has a least one.                        *)
LEMMA LeastMember ==
  ASSUME NEW T \in SUBSET Nat, T # {}
  PROVE  \E x \in T : \A y \in T : x <= y
<1> DEFINE Below == {ss \in Nat \X Nat : ss[1] < ss[2]}
<1>1. IsWellFoundedOn(Below, Nat)
  BY NatLessThanWellFounded DEF OpToRel
<1>2. \E x \in T : \A y \in T : <<y, x>> \notin Below
  <2> HIDE DEF Below
  <2> QED
    BY <1>1, WFMin
<1> PICK x \in T : \A y \in T : <<y, x>> \notin Below
  BY <1>2
<1>3. ASSUME NEW y \in T PROVE x <= y
  <2>1. <<y, x>> \in Nat \X Nat /\ ~(<<y, x>>[1] < <<y, x>>[2])
    OBVIOUS
  <2> QED
    BY <2>1
<1> QED
  BY <1>3

(* The kernel's file                                                       *)
Count == Len(phdrs)
File == /\ phdrs \in Tables
        /\ elf \in BOOLEAN

Places == /\ mem \in [Addresses -> Int]
          /\ status \in {"ready", "busy"}
          /\ requested \in Int
          /\ ph \in 0..Count
          /\ pa \in Int /\ end_pa \in Int /\ offset \in Int
          /\ a20 \in BOOLEAN
          /\ kbc \in [full : BOOLEAN, byte : {"other", "0xd1", "0xdf"}, output : BOOLEAN]

Early == {"vbe", "seta20.1", "seta20.2", "protected", "start"}
Loading == {"loop", "read", "entry", "bad"}

(* The controller has got the command, and then the new port's value.      *)
Handshake ==
    /\ pc = "seta20.2" => kbc.byte = "0xd1" /\ (kbc.full \/ kbc.output)
    /\ pc \in {"protected", "start"} \cup Loading =>
          /\ kbc.byte = "0xdf"
          /\ kbc.full => kbc.output
          /\ kbc.full \/ a20

(* The line is on from the first sector on.                                *)
Line == (pc = "read" /\ status = "ready") \/ pa > ElfHdr => a20

(* What readseg has been asked for                                         *)
Start == IF ph = 0 THEN ElfHdr ELSE phdrs[ph].pa
Size == IF ph = 0 THEN HdrSects * SectSize ELSE phdrs[ph].memsz
Position == IF ph = 0 THEN 0 ELSE phdrs[ph].offset

Even(a) == a % SectSize = 0

Progress ==
    /\ pc \in Early \cup Loading
    /\ pc \in Early => pa = 0 /\ ph = 0
    /\ pc \in Loading =>
         /\ end_pa = Start + Size
         /\ Even(pa) /\ RoundDown(Start) <= pa /\ pa <= RoundUp(end_pa)
         /\ (offset - 1) * SectSize - pa = Position - Start
    /\ pc = "read" => pa < end_pa /\ requested = offset
    /\ pc \in {"entry", "bad"} => pa >= end_pa
    /\ pc = "entry" => ph = Count /\ elf

(* The sectors of memory that have been read for header i, and for the     *)
(* ELF header                                                              *)
ReadUpTo(i) == IF i < ph THEN RoundUp(phdrs[i].pa + phdrs[i].memsz) ELSE pa
Covers(i, a) == RoundDown(phdrs[i].pa) <= a /\ a < ReadUpTo(i)
InHeader(a) == ElfHdr <= a /\ a < HdrEnd /\ (ph > 0 \/ a < pa)

Untouched(a) == mem[a] = IF a \in ModeInfo /\ pc # "vbe" THEN Mode ELSE Old
FromFile(i, a) == mem[a] = a - phdrs[i].pa + phdrs[i].offset

Contents ==
    \A a \in Addresses :
       /\ InHeader(a) => mem[a] = a - ElfHdr
       /\ ~InHeader(a) /\ (\A i \in 1..ph : ~Covers(i, a)) => Untouched(a)
       /\ \A i \in 1..ph :
             Covers(i, a) /\ (\A j \in (i + 1)..ph : ~Covers(j, a)) => FromFile(i, a)

LoaderIInv == File /\ Places /\ Handshake /\ Line /\ Progress /\ Contents

-----------------------------------------------------------------------------
(* Numbers and sectors                                                     *)

(* What the proofs use of the assumption.                                  *)
LEMMA Sizes ==
  /\ SectSize \in Nat \ {0} /\ HdrSects \in Nat \ {0} /\ ElfHdr \in Nat
  /\ LineA20 \in Nat \ {0} /\ MaxSegments \in Nat
  /\ Even(ElfHdr)
  /\ HdrSects * SectSize \in Nat
  /\ HdrEnd = ElfHdr + HdrSects * SectSize
  /\ HdrEnd \in Nat /\ LineA20 >= HdrEnd
<1>1. SectSize \in Nat \ {0} /\ HdrSects \in Nat \ {0} /\ ElfHdr \in Nat
  BY LoaderAssumption
<1>2. HdrSects * SectSize \in Nat
  BY <1>1, SMT
<1> QED
  BY <1>1, <1>2, LoaderAssumption, SectorAssumption DEF Even, HdrEnd

(* Every address is in one sector ...                                      *)
LEMMA InSector ==
  ASSUME NEW a \in Int
  PROVE  /\ RoundDown(a) \in Int /\ Even(RoundDown(a))
         /\ RoundDown(a) <= a /\ a < RoundDown(a) + SectSize
<1> DEFINE q == a \div SectSize
<1>0. SectSize \in Nat \ {0}
  BY Sizes
<1>1. q \in Int /\ q * SectSize <= a /\ a < q * SectSize + SectSize
  BY <1>0, SMT
<1>2. q * SectSize \in Int /\ (q * SectSize) % SectSize = 0
  <2> HIDE DEF q
  <2> QED
    BY <1>0, <1>1, SMT
<1>3. RoundDown(a) = q * SectSize
  BY DEF RoundDown
<1> HIDE DEF q
<1> QED
  BY <1>1, <1>2, <1>3 DEF Even

(* ... and sectors do not overlap.                                         *)
LEMMA Apart ==
  ASSUME NEW x \in Int, NEW y \in Int, Even(x), Even(y), x < y
  PROVE  x + SectSize <= y
<1> DEFINE p == x \div SectSize
           q == y \div SectSize
<1>0. SectSize \in Nat \ {0}
  BY Sizes
<1>1. p \in Int /\ q \in Int /\ x = p * SectSize /\ y = q * SectSize
  BY <1>0, SMT DEF Even
<1> HIDE DEF p, q
<1>2. q * SectSize = p * SectSize + (q - p) * SectSize
  BY <1>0, <1>1, SMT
<1>3. q > p
  <2>1. SUFFICES ASSUME q <= p PROVE FALSE
    BY <1>1, SMT
  <2>2. (q - p) * SectSize <= 0
    BY <2>1, <1>0, <1>1, SMT
  <2> QED
    BY <2>2, <1>1, <1>2, <1>0, SMT
<1>4. (q - p) * SectSize >= SectSize
  BY <1>3, <1>0, <1>1, SMT
<1> QED
  BY <1>1, <1>2, <1>4, <1>0, SMT

LEMMA NextSector ==
  ASSUME NEW x \in Int, Even(x)
  PROVE  Even(x + SectSize)
<1>0. SectSize \in Nat \ {0}
  BY Sizes
<1>1. x % SectSize = 0
  BY DEF Even
<1>2. PICK k \in Int : x = k * SectSize
  <2>1. (x \div SectSize) \in Int /\ x = (x \div SectSize) * SectSize
    BY <1>0, <1>1, SMT
  <2> QED
    BY <2>1
<1>3. x + SectSize = (k + 1) * SectSize
  BY <1>0, <1>2, SMT
<1>4. ((k + 1) * SectSize) % SectSize = 0
  BY <1>0, SMT
<1> QED
  BY <1>3, <1>4 DEF Even

LEMMA Rounded ==
  ASSUME NEW a \in Int
  PROVE  /\ RoundUp(a) \in Int /\ Even(RoundUp(a))
         /\ a <= RoundUp(a) /\ RoundUp(a) < a + SectSize
<1>0. SectSize \in Nat \ {0} /\ a + SectSize - 1 \in Int
  BY Sizes
<1>1. RoundUp(a) = RoundDown(a + SectSize - 1)
  BY DEF RoundUp
<1>2. /\ RoundDown(a + SectSize - 1) \in Int /\ Even(RoundDown(a + SectSize - 1))
      /\ RoundDown(a + SectSize - 1) <= a + SectSize - 1
      /\ a + SectSize - 1 < RoundDown(a + SectSize - 1) + SectSize
  BY <1>0, InSector
<1> QED
  BY <1>0, <1>1, <1>2, SMT

(* A sector's start is rounded to itself.                                  *)
LEMMA EvenRounds ==
  ASSUME NEW a \in Int, Even(a)
  PROVE  RoundDown(a) = a /\ RoundUp(a) = a
<1>0. SectSize \in Nat \ {0}
  BY Sizes
<1>1. RoundDown(a) = a
  <2>1. RoundDown(a) \in Int /\ Even(RoundDown(a)) /\ RoundDown(a) <= a
        /\ a < RoundDown(a) + SectSize
    BY InSector
  <2>2. RoundDown(a) < a => RoundDown(a) + SectSize <= a
    BY <2>1, Apart
  <2> QED
    BY <2>1, <2>2, <1>0, SMT
<1>2. RoundUp(a) = a
  <2>1. RoundUp(a) \in Int /\ Even(RoundUp(a)) /\ a <= RoundUp(a)
        /\ RoundUp(a) < a + SectSize
    BY Rounded
  <2>2. a < RoundUp(a) => a + SectSize <= RoundUp(a)
    BY <2>1, Apart
  <2> QED
    BY <2>1, <2>2, <1>0, SMT
<1> QED
  BY <1>1, <1>2

(* The first sector of a segment is as far from its place in the file as   *)
(* the segment is.                                                         *)
LEMMA SameDistance ==
  ASSUME NEW a \in Nat, NEW p \in Nat, a % SectSize = p % SectSize
  PROVE  /\ p \div SectSize \in Int
         /\ (p \div SectSize) * SectSize - RoundDown(a) = p - a
<1>0. SectSize \in Nat \ {0}
  BY Sizes
<1>1. /\ a \div SectSize \in Int /\ p \div SectSize \in Int
      /\ a % SectSize \in Int /\ p % SectSize \in Int
      /\ a = (a \div SectSize) * SectSize + (a % SectSize)
      /\ p = (p \div SectSize) * SectSize + (p % SectSize)
  BY <1>0, SMT
<1>2. (a \div SectSize) * SectSize \in Int /\ (p \div SectSize) * SectSize \in Int
  BY <1>0, <1>1, SMT
<1> DEFINE u == (a \div SectSize) * SectSize
           v == (p \div SectSize) * SectSize
           r == p % SectSize
<1>3. u \in Int /\ v \in Int /\ r \in Int /\ a = u + r /\ p = v + r
  BY <1>1, <1>2
<1>4. RoundDown(a) = u
  BY DEF RoundDown
<1> HIDE DEF u, v, r
<1>5. v - u = p - a
  BY <1>3, SMT
<1> QED
  BY <1>4, <1>5, <1>1 DEF v

LEMMA HeaderEven == Even(HdrEnd) /\ ElfHdr + SectSize <= HdrEnd
<1>0. /\ SectSize \in Nat \ {0} /\ HdrSects \in Nat \ {0} /\ ElfHdr \in Nat
      /\ HdrEnd = ElfHdr + HdrSects * SectSize /\ Even(ElfHdr)
  BY Sizes
<1>1. HdrSects * SectSize >= SectSize
  <2>1. (HdrSects - 1) * SectSize >= 0
    BY <1>0, SMT
  <2>2. (HdrSects - 1) * SectSize = HdrSects * SectSize - SectSize
    BY <1>0, SMT
  <2>3. HdrSects * SectSize \in Int
    BY <1>0, SMT
  <2> QED
    BY <2>1, <2>2, <2>3, <1>0, SMT
<1>2. PICK k \in Int : ElfHdr = k * SectSize
  <2>1. ElfHdr % SectSize = 0
    BY <1>0 DEF Even
  <2>2. (ElfHdr \div SectSize) \in Int /\ ElfHdr = (ElfHdr \div SectSize) * SectSize
    BY <1>0, <2>1, SMT
  <2> QED
    BY <2>2
<1>3. HdrEnd = (k + HdrSects) * SectSize
  BY <1>0, <1>2, SMT
<1>4. k + HdrSects \in Int
  BY <1>0, <1>2, SMT
<1>5. ((k + HdrSects) * SectSize) % SectSize = 0
  BY <1>0, <1>4, SMT
<1> QED
  BY <1>0, <1>1, <1>3, <1>5, SMT DEF Even

-----------------------------------------------------------------------------
(* The kernel file's program headers                                       *)
LEMMA Table ==
  ASSUME NEW t \in Tables
  PROVE  /\ Len(t) \in Nat /\ DOMAIN t = 1..Len(t)
         /\ \A i \in 1..Len(t) : t[i] \in Segments
         /\ \A i, j \in 1..Len(t) : i < j => t[i].pa + t[i].memsz <= t[j].pa
<1>1. PICK n \in 0..MaxSegments : t \in [1..n -> Segments]
  BY DEF Tables
<1>2. n \in Nat /\ DOMAIN t = 1..n
  BY <1>1, Sizes
<1>3. Len(t) = n
  <2>1. t \in Seq(Segments)
    BY <1>1, <1>2
  <2> QED
    BY <1>1, <1>2, <2>1
<1>4. \A i, j \in DOMAIN t : i < j => t[i].pa + t[i].memsz <= t[j].pa
  BY DEF Tables, Ascending
<1> QED
  BY <1>1, <1>2, <1>3, <1>4

LEMMA Segment ==
  ASSUME NEW s \in Segments
  PROVE  /\ s.pa \in Nat /\ s.memsz \in Nat /\ s.offset \in Nat
         /\ s.pa >= HdrEnd /\ s.pa % SectSize = s.offset % SectSize
         /\ s.pa + s.memsz \in Nat
         /\ HdrEnd <= RoundDown(s.pa)
<1>1. /\ s.pa \in Nat /\ s.memsz \in Nat /\ s.offset \in Nat
      /\ s.pa >= HdrEnd /\ s.pa % SectSize = s.offset % SectSize
  BY LoaderAssumption
<1>2. HdrEnd <= RoundDown(s.pa)
  <2>1. /\ RoundDown(s.pa) \in Int /\ Even(RoundDown(s.pa))
        /\ s.pa < RoundDown(s.pa) + SectSize
    BY <1>1, InSector
  <2>2. HdrEnd \in Int /\ Even(HdrEnd) /\ SectSize \in Nat
    BY HeaderEven, Sizes
  <2>3. RoundDown(s.pa) < HdrEnd => RoundDown(s.pa) + SectSize <= HdrEnd
    BY <2>1, <2>2, Apart
  <2> QED
    BY <1>1, <2>1, <2>2, <2>3, SMT
<1> QED
  BY <1>1, <1>2

(* The header of a segment at hand                                         *)
LEMMA Header ==
  ASSUME File, NEW i \in 1..Count
  PROVE  /\ Count \in Nat
         /\ phdrs[i] \in Segments
         /\ phdrs[i].pa \in Nat /\ phdrs[i].memsz \in Nat /\ phdrs[i].offset \in Nat
         /\ RoundDown(phdrs[i].pa) \in Int /\ HdrEnd <= RoundDown(phdrs[i].pa)
         /\ Even(RoundDown(phdrs[i].pa))
<1>1. Count \in Nat /\ phdrs[i] \in Segments
  BY Table DEF File, Count
<1>2. phdrs[i].pa \in Nat /\ phdrs[i].memsz \in Nat /\ phdrs[i].offset \in Nat
      /\ HdrEnd <= RoundDown(phdrs[i].pa)
  BY <1>1, Segment
<1>3. RoundDown(phdrs[i].pa) \in Int /\ Even(RoundDown(phdrs[i].pa))
  BY <1>2, InSector
<1> QED
  BY <1>1, <1>2, <1>3

(* What readseg has been asked for, in numbers                             *)
LEMMA Asked ==
  ASSUME File, Places
  PROVE  /\ Start \in Nat /\ Size \in Nat /\ Position \in Nat
         /\ RoundDown(Start) \in Int /\ ElfHdr <= RoundDown(Start)
         /\ ph > 0 => HdrEnd <= RoundDown(Start)
         /\ ph \in Nat /\ Count \in Nat
<1>0. Count \in Nat
  BY Table DEF File, Count
<1>1. ph \in Nat /\ (ph # 0 => ph \in 1..Count)
  BY <1>0, SMT DEF Places
<1>2. ElfHdr \in Nat /\ HdrEnd \in Nat /\ ElfHdr <= HdrEnd /\ Even(ElfHdr)
      /\ HdrSects * SectSize \in Nat
  BY Sizes, SMT
<1>3. CASE ph = 0
  <2>1. Start = ElfHdr /\ Size = HdrSects * SectSize /\ Position = 0
    BY <1>3 DEF Start, Size, Position
  <2>2. RoundDown(ElfHdr) = ElfHdr
    BY <1>2, EvenRounds
  <2> QED
    BY <1>0, <1>1, <1>2, <1>3, <2>1, <2>2, SMT
<1>4. CASE ph # 0
  <2>1. Start = phdrs[ph].pa /\ Size = phdrs[ph].memsz /\ Position = phdrs[ph].offset
    BY <1>4 DEF Start, Size, Position
  <2>2. /\ phdrs[ph].pa \in Nat /\ phdrs[ph].memsz \in Nat /\ phdrs[ph].offset \in Nat
        /\ RoundDown(phdrs[ph].pa) \in Int /\ HdrEnd <= RoundDown(phdrs[ph].pa)
    BY <1>1, <1>4, Header
  <2> QED
    BY <1>0, <1>1, <1>2, <2>1, <2>2, SMT
<1> QED
  BY <1>3, <1>4

(* Addresses are numbers.                                                  *)
LEMMA AddressInt == Addresses \subseteq Int
<1> SUFFICES ASSUME NEW a \in Addresses PROVE a \in Int
  OBVIOUS
<1>1. CASE a \in 0..(HdrEnd + SectSize)
  BY <1>1, Sizes, SMT
<1>2. CASE \E s \in Segments :
             a \in RoundDown(s.pa)..(RoundUp(s.pa + s.memsz) + SectSize)
  <2>1. PICK s \in Segments :
               a \in RoundDown(s.pa)..(RoundUp(s.pa + s.memsz) + SectSize)
    BY <1>2
  <2>2. s.pa \in Nat /\ s.pa + s.memsz \in Nat
    BY Segment
  <2>3. RoundDown(s.pa) \in Int /\ RoundUp(s.pa + s.memsz) \in Int
    BY <2>2, InSector, Rounded
  <2> QED
    BY <2>1, <2>3, Sizes, SMT
<1> QED
  BY <1>1, <1>2 DEF Addresses

-----------------------------------------------------------------------------
(* The initial states                                                      *)
LEMMA LoaderStart == Init => LoaderIInv
<1> SUFFICES ASSUME Init PROVE LoaderIInv
  OBVIOUS
<1>1. File
  BY DEF Init, File
<1>2. Count \in Nat
  BY <1>1, Table DEF File, Count
<1>3. Places
  <2>1. mem \in [Addresses -> Int] /\ status \in {"ready", "busy"} /\ requested \in Int
    BY DEF Init, Old
  <2>2. ph \in 0..Count /\ pa \in Int /\ end_pa \in Int /\ offset \in Int
    BY <1>2, SMT DEF Init
  <2>3. a20 \in BOOLEAN
    BY DEF Init, SectorInit
  <2>4. kbc \in [full : BOOLEAN, byte : {"other", "0xd1", "0xdf"}, output : BOOLEAN]
    <3>1. PICK busy \in BOOLEAN : kbc = [full |-> busy, byte |-> "other", output |-> FALSE]
      BY DEF Init, SectorInit
    <3> QED
      BY <3>1, Zenon
  <2> QED
    BY <2>1, <2>2, <2>3, <2>4 DEF Places
<1>4. Handshake
  BY DEF Init, SectorInit, Handshake, Loading
<1>5. Line
  <2>1. pa = 0 /\ pc = "vbe" /\ ElfHdr \in Nat
    BY Sizes DEF Init, SectorInit
  <2>2. ~(pa > ElfHdr)
    BY <2>1, SMT
  <2> QED
    BY <2>1, <2>2 DEF Line
<1>6. Progress
  BY DEF Init, SectorInit, Progress, Early, Loading
<1>7. Contents
  <2> SUFFICES ASSUME NEW a \in Addresses
               PROVE  /\ ~InHeader(a) /\ 1..ph = {}
                      /\ Untouched(a)
    BY DEF Contents
  <2>1. pa = 0 /\ ph = 0 /\ pc = "vbe" /\ mem[a] = Old /\ ElfHdr \in Nat
    BY Sizes DEF Init, SectorInit
  <2>2. ~InHeader(a)
    <3>1. a \in Int
      BY AddressInt
    <3> QED
      BY <2>1, <3>1, SMT DEF InHeader
  <2>3. 1..ph = {}
    BY <2>1, SMT
  <2> QED
    BY <2>1, <2>2, <2>3 DEF Untouched
<1> QED
  BY <1>1, <1>3, <1>4, <1>5, <1>6, <1>7 DEF LoaderIInv

-----------------------------------------------------------------------------
(* The steps of the boot sector, of the controller and of the disk         *)

(* Where the boot sector is, nothing has been read.                        *)
LEMMA NothingRead ==
  ASSUME LoaderIInv, pc \in Early
  PROVE  /\ pa = 0 /\ ph = 0
         /\ \A a \in Addresses : ~InHeader(a)
         /\ 1..ph = {}
<1>1. pa = 0 /\ ph = 0 /\ ElfHdr \in Nat
  BY Sizes DEF LoaderIInv, Progress
<1>2. ASSUME NEW a \in Addresses PROVE ~InHeader(a)
  <2>1. a \in Int
    BY AddressInt
  <2> QED
    BY <1>1, <2>1, SMT DEF InHeader
<1> QED
  BY <1>1, <1>2, SMT

(* A step that reads nothing into memory and leaves readseg's place alone  *)
(* keeps what is known of the contents.                                    *)
LEMMA SameContents ==
  ASSUME Contents, UNCHANGED <<phdrs, mem, ph, pa>>, pc' = "vbe" <=> pc = "vbe"
  PROVE  Contents'
<1>1. \A a : InHeader(a)' <=> InHeader(a)
  BY DEF InHeader
<1>2. \A i, a : Covers(i, a)' <=> Covers(i, a)
  BY DEF Covers, ReadUpTo
<1>3. \A a : Untouched(a)' <=> Untouched(a)
  BY DEF Untouched
<1>4. \A i, a : FromFile(i, a)' <=> FromFile(i, a)
  BY DEF FromFile
<1> SUFFICES ASSUME NEW a \in Addresses
             PROVE  /\ InHeader(a)' => mem'[a] = a - ElfHdr
                    /\ ~InHeader(a)' /\ (\A i \in 1..ph' : ~Covers(i, a)') => Untouched(a)'
                    /\ \A i \in 1..ph' :
                          Covers(i, a)' /\ (\A j \in (i + 1)..ph' : ~Covers(j, a)')
                             => FromFile(i, a)'
  BY DEF Contents
<1> QED
  BY <1>1, <1>2, <1>3, <1>4 DEF Contents

LEMMA SectorSteps ==
  ASSUME LoaderIInv, Sector, UNCHANGED loader
  PROVE  LoaderIInv'
<1> USE DEF LoaderIInv
<1>0. UNCHANGED <<phdrs, elf, status, requested, ph, pa, end_pa, offset>>
  BY DEF loader, disk, readseg_locals
<1>1. File' /\ UNCHANGED Count
  BY <1>0 DEF File, Count
<1>2. pc \in {"vbe", "seta20.1", "seta20.2", "protected"}
  BY DEF Sector, SetVideoMode, SendCommand, SendOutput, CallBootmain
<1>3. pc' \in {"seta20.1", "seta20.2", "protected", "start"}
  BY DEF Sector, SetVideoMode, SendCommand, SendOutput, CallBootmain
<1>4. Progress'
  <2>1. pa' = 0 /\ ph' = 0
    BY <1>0, <1>2 DEF Progress, Early
  <2> QED
    BY <1>3, <2>1 DEF Progress, Early, Loading
<1>5. Line'
  <2>1. pa' = 0 /\ ElfHdr \in Nat
    BY <1>0, <1>2, Sizes DEF Progress, Early
  <2>2. ~(pa' > ElfHdr)
    BY <2>1, SMT
  <2> QED
    BY <1>3, <2>2 DEF Line
<1>6. /\ requested' \in Int /\ ph' \in 0..Count' /\ status' \in {"ready", "busy"}
      /\ pa' \in Int /\ end_pa' \in Int /\ offset' \in Int
  BY <1>0, <1>1 DEF Places
<1>7. kbc \in [full : BOOLEAN, byte : {"other", "0xd1", "0xdf"}, output : BOOLEAN]
      /\ a20 \in BOOLEAN /\ mem \in [Addresses -> Int]
  BY DEF Places
<1>8. CASE SetVideoMode
  <2>1. UNCHANGED <<a20, kbc>> /\ pc = "vbe" /\ pc' = "seta20.1"
    BY <1>8 DEF SetVideoMode
  <2>2. mem' = [a \in Addresses |-> IF a \in ModeInfo THEN Mode ELSE mem[a]]
    BY <1>7, <1>8 DEF SetVideoMode
  <2>3. mem' \in [Addresses -> Int]
    BY <2>2, <1>7 DEF Mode
  <2>4. Places'
    BY <1>6, <1>7, <2>1, <2>3 DEF Places
  <2>5. Handshake'
    BY <2>1 DEF Handshake, Loading
  <2>6. /\ pa = 0 /\ ph = 0
        /\ \A a \in Addresses : ~InHeader(a)
        /\ 1..ph = {}
    BY <2>1, NothingRead DEF Early
  <2>7. ASSUME NEW a \in Addresses PROVE ~InHeader(a)' /\ Untouched(a)'
    <3>1. ~InHeader(a)'
      BY <1>0, <2>6 DEF InHeader
    <3>2. Untouched(a)
      BY <2>6 DEF Contents
    <3> QED
      BY <2>1, <2>2, <3>1, <3>2 DEF Untouched
  <2>8. 1..ph' = {}
    BY <1>0, <2>6
  <2>9. Contents'
    BY <2>7, <2>8 DEF Contents
  <2> QED
    BY <1>1, <1>4, <1>5, <2>4, <2>5, <2>9
<1>9. CASE SendCommand \/ SendOutput \/ CallBootmain
  <2>1. UNCHANGED <<mem, a20>> /\ (pc' = "vbe" <=> pc = "vbe")
    BY <1>9, <1>3 DEF SendCommand, SendOutput, CallBootmain
  <2>2. Contents'
    BY <1>0, <2>1, SameContents
  <2>3. kbc' \in [full : BOOLEAN, byte : {"other", "0xd1", "0xdf"}, output : BOOLEAN]
        /\ Handshake'
    <3>1. CASE SendCommand
      <4>1. kbc' = [kbc EXCEPT !.full = TRUE, !.byte = "0xd1"] /\ pc' = "seta20.2"
        BY <3>1 DEF SendCommand
      <4>2. kbc'.byte = "0xd1" /\ kbc'.full = TRUE /\ kbc'.output = kbc.output
        BY <1>7, <4>1
      <4>3. kbc' \in [full : BOOLEAN, byte : {"other", "0xd1", "0xdf"}, output : BOOLEAN]
        BY <1>7, <4>1
      <4> QED
        BY <4>1, <4>2, <4>3 DEF Handshake, Loading
    <3>2. CASE SendOutput
      <4>1. kbc' = [kbc EXCEPT !.full = TRUE, !.byte = "0xdf"] /\ pc' = "protected"
            /\ pc = "seta20.2" /\ ~kbc.full
        BY <3>2 DEF SendOutput
      <4>2. kbc'.byte = "0xdf" /\ kbc'.full = TRUE /\ kbc'.output = kbc.output
        BY <1>7, <4>1
      <4>3. kbc' \in [full : BOOLEAN, byte : {"other", "0xd1", "0xdf"}, output : BOOLEAN]
        BY <1>7, <4>1
      <4>4. kbc.output
        BY <4>1 DEF Handshake
      <4> QED
        BY <4>1, <4>2, <4>3, <4>4 DEF Handshake, Loading
    <3>3. CASE CallBootmain
      BY <1>7, <2>1, <3>3 DEF CallBootmain, Handshake, Loading
    <3> QED
      BY <1>9, <3>1, <3>2, <3>3
  <2>4. Places'
    BY <1>6, <1>7, <2>1, <2>3 DEF Places
  <2> QED
    BY <1>1, <1>4, <1>5, <2>2, <2>3, <2>4
<1> QED
  BY <1>8, <1>9 DEF Sector

LEMMA ControllerStep ==
  ASSUME LoaderIInv, ControllerTakes, UNCHANGED loader
  PROVE  LoaderIInv'
<1> USE DEF LoaderIInv
<1>0. UNCHANGED <<phdrs, elf, status, requested, ph, pa, end_pa, offset, pc, mem>>
  BY DEF loader, disk, readseg_locals, ControllerTakes
<1>1. File' /\ UNCHANGED Count
  BY <1>0 DEF File, Count
<1>2. kbc \in [full : BOOLEAN, byte : {"other", "0xd1", "0xdf"}, output : BOOLEAN]
      /\ a20 \in BOOLEAN
  BY DEF Places
<1>3. /\ kbc.full
      /\ kbc' = [kbc EXCEPT !.full = FALSE, !.output = (kbc.byte = "0xd1")]
      /\ a20' = (a20 \/ (kbc.output /\ kbc.byte = "0xdf"))
  BY DEF ControllerTakes
<1>4. /\ kbc'.full = FALSE /\ kbc'.byte = kbc.byte
      /\ kbc'.output = (kbc.byte = "0xd1")
  BY <1>2, <1>3
<1>5. kbc' \in [full : BOOLEAN, byte : {"other", "0xd1", "0xdf"}, output : BOOLEAN]
  BY <1>2, <1>3
<1>6. a20' \in BOOLEAN /\ (a20 => a20')
  BY <1>2, <1>3
<1>7. Places'
  BY <1>0, <1>1, <1>5, <1>6 DEF Places
<1>8. Handshake'
  <2>1. pc = "seta20.2" => kbc'.byte = "0xd1" /\ kbc'.output
    BY <1>4 DEF Handshake
  <2>2. pc \in {"protected", "start"} \cup Loading => kbc'.byte = "0xdf" /\ ~kbc'.full /\ a20'
    BY <1>3, <1>4 DEF Handshake
  <2> QED
    BY <1>0, <2>1, <2>2 DEF Handshake
<1>9. Line'
  BY <1>0, <1>6 DEF Line
<1>10. Progress'
  BY <1>0, <1>1 DEF Progress, Start, Size, Position, Even, RoundUp, RoundDown
<1>11. Contents'
  BY <1>0, SameContents
<1> QED
  BY <1>1, <1>7, <1>8, <1>9, <1>10, <1>11

LEMMA DiskStep ==
  ASSUME LoaderIInv, DiskReady
  PROVE  LoaderIInv'
<1> USE DEF LoaderIInv
<1>0. UNCHANGED <<phdrs, elf, requested, ph, pa, end_pa, offset, pc, mem, a20, kbc>>
      /\ status' = "ready" /\ ~kbc.full
  BY DEF DiskReady, sectorVars, readseg_locals
<1>1. File' /\ UNCHANGED Count
  BY <1>0 DEF File, Count
<1>2. Places'
  BY <1>0, <1>1 DEF Places
<1>3. Handshake'
  BY <1>0 DEF Handshake
<1>4. Line'
  <2>1. pc = "read" => a20
    BY <1>0 DEF Handshake, Loading
  <2> QED
    BY <1>0, <2>1 DEF Line
<1>5. Progress'
  BY <1>0, <1>1 DEF Progress, Start, Size, Position, Even, RoundUp, RoundDown
<1>6. Contents'
  BY <1>0, SameContents
<1> QED
  BY <1>1, <1>2, <1>3, <1>4, <1>5, <1>6

-----------------------------------------------------------------------------
(* The loader's steps                                                      *)

(* A step that leaves readseg's place alone is what it has been asked for. *)
LEMMA ReadHeaderStep ==
  ASSUME LoaderIInv, ReadHeader
  PROVE  LoaderIInv'
<1> USE DEF LoaderIInv
<1>0. /\ UNCHANGED <<phdrs, elf, mem, a20, kbc, status, requested, ph>>
      /\ pc = "start" /\ pc' = "loop"
      /\ pa' = RoundDown(ElfHdr) /\ end_pa' = ElfHdr + HdrSects * SectSize
      /\ offset' = 0 \div SectSize + 1
  BY DEF ReadHeader, ReadSeg, disk
<1>1. File' /\ UNCHANGED Count
  BY <1>0 DEF File, Count
<1>2. /\ ElfHdr \in Nat /\ Even(ElfHdr) /\ SectSize \in Nat \ {0}
      /\ HdrSects * SectSize \in Nat /\ HdrEnd = ElfHdr + HdrSects * SectSize
  BY Sizes
<1>3. RoundDown(ElfHdr) = ElfHdr
  BY <1>2, EvenRounds
<1>4. offset' = 1
  BY <1>0, <1>2, SMT
<1>5. pa' = ElfHdr /\ end_pa' = HdrEnd /\ HdrEnd \in Int
  BY <1>0, <1>2, <1>3, SMT
<1>6. ph = 0 /\ ph' = 0 /\ pa = 0
  BY <1>0 DEF Progress, Early
<1>7. Places'
  <2>1. pa' \in Int /\ end_pa' \in Int /\ offset' \in Int
    BY <1>2, <1>4, <1>5, SMT
  <2> QED
    BY <1>0, <1>1, <2>1 DEF Places
<1>8. Handshake'
  BY <1>0 DEF Handshake, Loading
<1>9. Line'
  <2>1. ~(pa' > ElfHdr)
    BY <1>2, <1>5, SMT
  <2> QED
    BY <1>0, <2>1 DEF Line
<1>10. Progress'
  <2>1. Start' = ElfHdr /\ Size' = HdrSects * SectSize /\ Position' = 0
    BY <1>6 DEF Start, Size, Position
  <2>2. /\ RoundUp(HdrEnd) = HdrEnd /\ HdrEnd >= ElfHdr
    BY <1>2, <1>5, HeaderEven, EvenRounds, SMT
  <2>3. end_pa' = Start' + Size'
    BY <1>2, <1>5, <2>1
  <2>4. Even(pa') /\ RoundDown(Start') <= pa' /\ pa' <= RoundUp(end_pa')
    BY <1>2, <1>3, <1>5, <2>1, <2>2, SMT
  <2>5. (offset' - 1) * SectSize - pa' = Position' - Start'
    BY <1>2, <1>4, <1>5, <2>1, SMT
  <2>6. Even(pa)' /\ (RoundDown(Start) <= pa)' /\ (pa <= RoundUp(end_pa))'
    BY <2>4 DEF Even, RoundDown, RoundUp
  <2> QED
    BY <1>0, <2>3, <2>5, <2>6 DEF Progress, Early, Loading
<1>11. Contents'
  <2>1. ASSUME NEW a \in Addresses
        PROVE  ~InHeader(a)' /\ Untouched(a)'
    <3>1. a \in Int
      BY AddressInt
    <3>2. ~InHeader(a)'
      BY <1>2, <1>5, <1>6, <3>1, SMT DEF InHeader
    <3>3. ~InHeader(a) /\ 1..ph = {}
      BY <1>0, NothingRead DEF Early
    <3>4. Untouched(a)
      BY <3>3 DEF Contents
    <3> QED
      BY <1>0, <3>2, <3>4 DEF Untouched
  <2>2. 1..ph' = {}
    BY <1>6, SMT
  <2> QED
    BY <2>1, <2>2 DEF Contents
<1> QED
  BY <1>1, <1>7, <1>8, <1>9, <1>10, <1>11

LEMMA CommandStep ==
  ASSUME LoaderIInv, Command
  PROVE  LoaderIInv'
<1> USE DEF LoaderIInv
<1>0. /\ UNCHANGED <<phdrs, elf, mem, a20, kbc, ph, pa, end_pa, offset>>
      /\ pc = "loop" /\ pa < end_pa
      /\ status' = "busy" /\ requested' = offset /\ pc' = "read"
  BY DEF Command, readseg_locals
<1>1. File' /\ UNCHANGED Count
  BY <1>0 DEF File, Count
<1>2. Places'
  BY <1>0, <1>1 DEF Places
<1>3. Handshake'
  BY <1>0 DEF Handshake, Loading
<1>4. Line'
  BY <1>0 DEF Line
<1>5. Progress'
  <2>1. UNCHANGED <<Start, Size, Position, Even(pa), RoundDown(Start), RoundUp(end_pa)>>
    BY <1>0 DEF Start, Size, Position, Even, RoundUp, RoundDown
  <2> QED
    BY <1>0, <1>1, <2>1 DEF Progress, Early, Loading
<1>6. Contents'
  BY <1>0, SameContents
<1> QED
  BY <1>1, <1>2, <1>3, <1>4, <1>5, <1>6

(* The processor has the disk's data.                                      *)
LEMMA Taken ==
  ASSUME LoaderIInv, Transfer
  PROVE  /\ Even(pa) /\ pa \in Nat /\ pa < end_pa /\ pa + SectSize <= RoundUp(end_pa)
         /\ end_pa = Start + Size /\ RoundDown(Start) <= pa
         /\ \A a \in Addresses :
               mem'[a] = IF pa <= a /\ a < pa + SectSize
                         THEN a - Start + Position ELSE mem[a]
<1> USE DEF LoaderIInv
<1>0. SectSize \in Nat \ {0} /\ ElfHdr \in Nat /\ LineA20 \in Nat \ {0}
      /\ LineA20 >= HdrEnd /\ HdrEnd \in Nat
  BY Sizes
<1>1. pc = "read" /\ status = "ready" /\ InsertSector
  BY DEF Transfer
<1>2. a20 /\ a20 \in BOOLEAN
  BY <1>1 DEF Line, Places
<1>3. Bus(pa) = pa
  BY <1>2 DEF Bus
<1>4. Start \in Nat /\ Size \in Nat /\ Position \in Nat /\ RoundDown(Start) \in Int
      /\ ElfHdr <= RoundDown(Start)
  BY Asked
<1>5. /\ pa \in Int /\ end_pa \in Int /\ offset \in Int
      /\ mem \in [Addresses -> Int]
  BY DEF Places
<1>6. /\ end_pa = Start + Size
      /\ Even(pa) /\ RoundDown(Start) <= pa /\ pa <= RoundUp(end_pa)
      /\ (offset - 1) * SectSize - pa = Position - Start
      /\ pa < end_pa /\ requested = offset
  BY <1>1 DEF Progress, Loading
<1>7. pa \in Nat
  BY <1>0, <1>4, <1>5, <1>6, SMT
<1>8. pa + SectSize <= RoundUp(end_pa)
  <2>1. RoundUp(end_pa) \in Int /\ Even(RoundUp(end_pa)) /\ end_pa <= RoundUp(end_pa)
    BY <1>5, Rounded
  <2>2. pa < RoundUp(end_pa)
    BY <1>5, <1>6, <2>1, SMT
  <2> QED
    BY <1>5, <1>6, <2>1, <2>2, Apart
<1>9. ASSUME NEW a \in Addresses
      PROVE  mem'[a] = IF pa <= a /\ a < pa + SectSize
                       THEN a - Start + Position ELSE mem[a]
  <2>1. a \in Int
    BY AddressInt
  <2>2. mem' = [x \in Addresses |-> IF x \in pa..(pa + SectSize - 1)
                                    THEN (requested - 1) * SectSize + (x - pa)
                                    ELSE mem[x]]
    BY <1>1, <1>3 DEF InsertSector, Target, Port
  <2>3. mem'[a] = IF a \in pa..(pa + SectSize - 1)
                  THEN (requested - 1) * SectSize + (a - pa) ELSE mem[a]
    BY <2>2
  <2>4. a \in pa..(pa + SectSize - 1) <=> pa <= a /\ a < pa + SectSize
    BY <1>0, <1>5, <2>1, SMT
  <2>5. (offset - 1) * SectSize \in Int
    BY <1>0, <1>5, SMT
  <2> DEFINE product == (offset - 1) * SectSize
  <2>6. product \in Int /\ product - pa = Position - Start
    BY <2>5, <1>6
  <2> HIDE DEF product
  <2>7. product + (a - pa) = a - Start + Position
    BY <2>1, <2>6, <1>4, <1>5, SMT
  <2> QED
    BY <2>3, <2>4, <2>7, <1>6 DEF product
<1> QED
  BY <1>6, <1>7, <1>8, <1>9

(* What a sector adds to the contents                                      *)
LEMMA TransferContents ==
  ASSUME LoaderIInv, Transfer
  PROVE  Contents'
<1> USE DEF LoaderIInv
<1>0. UNCHANGED <<phdrs, ph>> /\ pa' = pa + SectSize /\ pc = "read" /\ pc' = "loop"
  BY DEF Transfer
<1>1. /\ pa \in Nat /\ pa < end_pa /\ pa + SectSize <= RoundUp(end_pa)
      /\ end_pa = Start + Size /\ RoundDown(Start) <= pa
      /\ \A a \in Addresses :
            mem'[a] = IF pa <= a /\ a < pa + SectSize
                      THEN a - Start + Position ELSE mem[a]
  BY Taken
<1>2. /\ Start \in Nat /\ Size \in Nat /\ Position \in Nat /\ RoundDown(Start) \in Int
      /\ ElfHdr <= RoundDown(Start) /\ ph \in Nat
      /\ ph > 0 => HdrEnd <= RoundDown(Start)
  BY Asked
<1>3. SectSize \in Nat \ {0} /\ ElfHdr \in Nat /\ HdrEnd \in Nat
      /\ HdrEnd = ElfHdr + HdrSects * SectSize
  BY Sizes
<1>4. ph = 0 => pa + SectSize <= HdrEnd
  <2>1. ASSUME ph = 0 PROVE RoundUp(end_pa) = HdrEnd
    <3>1. end_pa = HdrEnd
      BY <1>1, <1>3, <2>1 DEF Start, Size
    <3> QED
      BY <1>3, <3>1, HeaderEven, EvenRounds
  <2> QED
    BY <1>1, <2>1
<1> SUFFICES ASSUME NEW a \in Addresses
             PROVE  /\ InHeader(a)' => mem'[a] = a - ElfHdr
                    /\ ~InHeader(a)' /\ (\A i \in 1..ph : ~Covers(i, a)') => Untouched(a)'
                    /\ \A i \in 1..ph :
                          Covers(i, a)' /\ (\A j \in (i + 1)..ph : ~Covers(j, a)')
                             => FromFile(i, a)'
  BY <1>0 DEF Contents
<1>5. a \in Int
  BY AddressInt
<1> DEFINE now == pa <= a /\ a < pa + SectSize
<1>6. now => mem'[a] = a - Start + Position
  BY <1>1
<1>7. ~now => mem'[a] = mem[a]
  BY <1>1
<1>8. Untouched(a)' <=> (~now /\ Untouched(a)) \/ (now /\ Untouched(a)')
  BY <1>0, <1>7 DEF Untouched
<1>9. CASE ph = 0
  <2>1. Start = ElfHdr /\ Position = 0
    BY <1>9 DEF Start, Position
  <2>2. InHeader(a)' <=> InHeader(a) \/ now
    BY <1>0, <1>1, <1>2, <1>3, <1>4, <1>5, <1>9, <2>1, SMT DEF InHeader
  <2>3. now => mem'[a] = a - ElfHdr
    BY <1>1, <1>3, <1>5, <2>1, SMT
  <2>4. InHeader(a)' => mem'[a] = a - ElfHdr
    <3> HIDE DEF now
    <3> QED
      BY <1>7, <2>2, <2>3 DEF Contents
  <2>5. 1..ph = {}
    BY <1>9, SMT
  <2>6. ~InHeader(a)' => Untouched(a)'
    <3> HIDE DEF now
    <3> QED
      BY <1>8, <2>2, <2>5 DEF Contents
  <2> QED
    BY <2>4, <2>5, <2>6
<1>10. CASE ph # 0
  <2> PICK p \in Nat : p = ph
    BY <1>2
  <2>1. Start = phdrs[p].pa /\ Position = phdrs[p].offset
    BY <1>10 DEF Start, Position
  <2>2. p \in 1..p /\ p > 0 /\ ph' = p
    BY <1>0, <1>2, <1>10, SMT
  <2>3. InHeader(a)' <=> InHeader(a)
    BY <1>0, <2>2 DEF InHeader
  <2>4. InHeader(a) => ~now
    BY <1>1, <1>2, <1>3, <1>5, <2>2, SMT DEF InHeader
  <2>5. ASSUME NEW i \in 1..p, i # p
        PROVE  Covers(i, a)' <=> Covers(i, a)
    <3>1. i < p
      BY <2>5, SMT
    <3> QED
      BY <1>0, <2>2, <3>1 DEF Covers, ReadUpTo
  <2>6. Covers(p, a)' <=> Covers(p, a) \/ now
    <3>1. Covers(p, a) <=> RoundDown(Start) <= a /\ a < pa
      BY <1>2, <2>1, SMT DEF Covers, ReadUpTo
    <3>2. Covers(p, a)' <=> RoundDown(phdrs[p].pa) <= a /\ a < pa + SectSize
      BY <1>0, <1>2, <2>2, SMT DEF Covers, ReadUpTo, RoundDown
    <3> QED
      BY <1>1, <1>2, <1>3, <1>5, <2>1, <3>1, <3>2, SMT
  <2>7. now => FromFile(p, a)'
    <3>1. ASSUME now PROVE mem'[a] = a - phdrs[p].pa + phdrs[p].offset
      BY <1>6, <2>1, <3>1
    <3> QED
      BY <1>0, <3>1 DEF FromFile
  <2>8. ~now => \A i \in 1..p : FromFile(i, a)' <=> FromFile(i, a)
    BY <1>0, <1>7 DEF FromFile
  <2> HIDE DEF now
  <2>9. InHeader(a)' => mem'[a] = a - ElfHdr
    BY <1>7, <2>3, <2>4 DEF Contents
  <2>10. ASSUME ~InHeader(a)', \A i \in 1..p : ~Covers(i, a)'
         PROVE  Untouched(a)'
    <3>1. ~now /\ ~Covers(p, a)
      BY <2>2, <2>6, <2>10
    <3>2. \A i \in 1..p : ~Covers(i, a)
      BY <2>5, <2>10, <3>1
    <3> QED
      BY <1>8, <2>3, <2>10, <3>1, <3>2 DEF Contents
  <2>11. ASSUME NEW i \in 1..p, Covers(i, a)', \A j \in (i + 1)..p : ~Covers(j, a)'
         PROVE  FromFile(i, a)'
    <3>1. CASE i = p
      <4>1. (p + 1)..p = {}
        BY SMT
      <4>2. ~now => FromFile(p, a)
        BY <2>2, <2>6, <2>11, <3>1, <4>1 DEF Contents
      <4>3. FromFile(p, a)'
        BY <2>2, <2>7, <2>8, <4>2
      <4> QED
        BY <3>1, <4>3
    <3>2. CASE i # p
      <4>1. i \in Int /\ p \in (i + 1)..p /\ (\A j \in (i + 1)..p : j \in 1..p)
        BY <3>2, SMT
      <4>2. ~now /\ ~Covers(p, a)
        BY <2>6, <2>11, <4>1
      <4>3. \A j \in (i + 1)..p : ~Covers(j, a)
        BY <2>5, <2>11, <4>1, <4>2
      <4>4. Covers(i, a)
        BY <2>5, <2>11, <3>2
      <4>5. FromFile(i, a)
        BY <4>3, <4>4 DEF Contents
      <4> QED
        BY <2>8, <4>2, <4>5
    <3> QED
      BY <3>1, <3>2
  <2> QED
    BY <2>9, <2>10, <2>11
<1> QED
  BY <1>9, <1>10

LEMMA TransferStep ==
  ASSUME LoaderIInv, Transfer
  PROVE  LoaderIInv'
<1> USE DEF LoaderIInv
<1>0. /\ UNCHANGED <<phdrs, elf, a20, kbc, status, requested, ph, end_pa>>
      /\ pc = "read" /\ pc' = "loop" /\ status = "ready"
      /\ pa' = pa + SectSize /\ offset' = offset + 1
  BY DEF Transfer, disk
<1>1. File' /\ UNCHANGED Count
  BY <1>0 DEF File, Count
<1>2. /\ Even(pa) /\ pa \in Nat /\ pa + SectSize <= RoundUp(end_pa)
      /\ \A a \in Addresses :
            mem'[a] = IF pa <= a /\ a < pa + SectSize
                      THEN a - Start + Position ELSE mem[a]
  BY Taken
<1>3. SectSize \in Nat \ {0}
  BY Sizes
<1>4. Start \in Nat /\ Position \in Nat /\ RoundDown(Start) \in Int
  BY Asked
<1>5. end_pa \in Int /\ offset \in Int /\ mem \in [Addresses -> Int]
  BY DEF Places
<1>6. mem' \in [Addresses -> Int]
  <2>1. mem' = [x \in Addresses |-> mem'[x]]
    BY DEF Transfer, InsertSector
  <2>2. ASSUME NEW a \in Addresses PROVE mem'[a] \in Int
    <3>1. a \in Int
      BY AddressInt
    <3>2. a - Start + Position \in Int
      BY <1>4, <3>1, SMT
    <3>3. mem[a] \in Int
      BY <1>5
    <3> QED
      BY <1>2, <3>2, <3>3
  <2> QED
    BY <2>1, <2>2
<1>7. Places'
  <2>1. pa' \in Int /\ offset' \in Int
    BY <1>0, <1>2, <1>3, <1>5, SMT
  <2> QED
    BY <1>0, <1>1, <1>6, <2>1 DEF Places
<1>8. Handshake'
  BY <1>0 DEF Handshake, Loading
<1>9. Line'
  BY <1>0 DEF Line
<1>10. Progress'
  <2>1. UNCHANGED <<Start, Size, Position, RoundDown(Start), RoundUp(end_pa)>>
    BY <1>0 DEF Start, Size, Position, RoundUp, RoundDown
  <2>2. Even(pa + SectSize)
    BY <1>2, NextSector
  <2>3. Even(pa)'
    BY <1>0, <2>2 DEF Even
  <2>4. /\ end_pa = Start + Size /\ RoundDown(Start) <= pa
        /\ (offset - 1) * SectSize - pa = Position - Start
    BY <1>0 DEF Progress, Loading
  <2>5. RoundDown(Start) <= pa' /\ pa' <= RoundUp(end_pa)
    BY <1>0, <1>2, <1>3, <1>4, <2>4, SMT
  <2>6. (offset' - 1) * SectSize - pa' = Position - Start
    <3>1. offset' - 1 = (offset - 1) + 1
      BY <1>0, <1>5, SMT
    <3>2. (offset - 1) * SectSize \in Int
          /\ ((offset - 1) + 1) * SectSize = (offset - 1) * SectSize + SectSize
      BY <1>3, <1>5, SMT
    <3> DEFINE product == (offset - 1) * SectSize
    <3>3. product \in Int /\ product - pa = Position - Start
      BY <2>4, <3>2
    <3>4. (offset' - 1) * SectSize = product + SectSize
      BY <3>1, <3>2
    <3> HIDE DEF product
    <3> QED
      BY <1>0, <1>2, <1>3, <1>4, <3>3, <3>4, SMT
  <2> QED
    BY <1>0, <2>1, <2>3, <2>4, <2>5, <2>6 DEF Progress, Early, Loading
<1>11. Contents'
  BY TransferContents
<1> QED
  BY <1>1, <1>7, <1>8, <1>9, <1>10, <1>11

(* The ELF header is as it was read when readseg has returned, and no      *)
(* segment was read over it.                                               *)
LEMMA HeaderKept ==
  ASSUME LoaderIInv, pc = "loop", pa >= end_pa
  PROVE  HeaderIntact
<1> USE DEF LoaderIInv
<1>0. /\ SectSize \in Nat \ {0} /\ ElfHdr \in Nat /\ HdrEnd \in Nat
      /\ HdrEnd = ElfHdr + HdrSects * SectSize /\ HdrSects * SectSize \in Nat
  BY Sizes
<1>1. ph \in Nat /\ pa \in Int /\ end_pa \in Int
  BY Asked DEF Places
<1>2. ph = 0 => end_pa = HdrEnd
  BY <1>0 DEF Progress, Loading, Start, Size
<1> DEFINE n == HdrSects * SectSize
<1> SUFFICES ASSUME NEW b \in 0..(n - 1) PROVE mem[ElfHdr + b] = b
  BY DEF HeaderIntact
<1>3. n \in Nat /\ HdrEnd = ElfHdr + n
  BY <1>0
<1> HIDE DEF n
<1> DEFINE a == ElfHdr + b
<1>4. a \in Int /\ ElfHdr <= a /\ a < HdrEnd /\ a \in 0..(HdrEnd + SectSize)
      /\ a - ElfHdr = b
  BY <1>0, <1>3, SMT
<1>5. a \in Addresses
  BY <1>4 DEF Addresses
<1>6. ph > 0 \/ a < pa
  <2> HIDE DEF a
  <2> QED
    BY <1>0, <1>1, <1>2, <1>4, SMT
<1>7. InHeader(a)
  BY <1>4, <1>6 DEF InHeader
<1> HIDE DEF a
<1>8. mem[a] = a - ElfHdr
  BY <1>5, <1>7 DEF Contents
<1> QED
  BY <1>4, <1>8 DEF a

LEMMA NextSegmentStep ==
  ASSUME LoaderIInv, NextSegment
  PROVE  LoaderIInv'
<1> USE DEF LoaderIInv
<1>0. /\ UNCHANGED <<phdrs, elf, mem, a20, kbc, status, requested>>
      /\ pc = "loop" /\ pa >= end_pa /\ ph < Len(phdrs) /\ ph' = ph + 1
  BY DEF NextSegment, disk
<1>1. HeaderIntact
  BY <1>0, HeaderKept
<1>2. /\ pc' = "loop"
      /\ pa' = RoundDown(phdrs[ph'].pa)
      /\ end_pa' = phdrs[ph'].pa + phdrs[ph'].memsz
      /\ offset' = phdrs[ph'].offset \div SectSize + 1
  BY <1>0, <1>1 DEF NextSegment, ReadSeg
<1>3. File' /\ UNCHANGED Count
  BY <1>0 DEF File, Count
<1>4. ph \in Nat /\ Count \in Nat
  BY Asked
<1> PICK q \in Nat : q = ph + 1
  BY <1>4
<1>5. q \in 1..Count /\ ph' = q /\ q > 0
  BY <1>0, <1>4, SMT DEF Count
<1>6. /\ phdrs[q] \in Segments
      /\ phdrs[q].pa \in Nat /\ phdrs[q].memsz \in Nat /\ phdrs[q].offset \in Nat
      /\ RoundDown(phdrs[q].pa) \in Int /\ HdrEnd <= RoundDown(phdrs[q].pa)
      /\ Even(RoundDown(phdrs[q].pa))
  BY <1>5, Header
<1> DEFINE s == phdrs[q]
<1>7. s.pa % SectSize = s.offset % SectSize
  BY <1>6, Segment
<1>8. /\ s.offset \div SectSize \in Int
      /\ (s.offset \div SectSize) * SectSize - RoundDown(s.pa) = s.offset - s.pa
  BY <1>6, <1>7, SameDistance
<1>9. /\ SectSize \in Nat \ {0} /\ ElfHdr \in Nat /\ HdrEnd \in Nat
      /\ HdrEnd = ElfHdr + HdrSects * SectSize
  BY Sizes
<1>10. pa' = RoundDown(s.pa) /\ end_pa' = s.pa + s.memsz
       /\ offset' = s.offset \div SectSize + 1
  BY <1>2, <1>5
<1>11. Places'
  <2>1. pa' \in Int /\ end_pa' \in Int /\ offset' \in Int
    BY <1>6, <1>8, <1>10, SMT
  <2>2. ph' \in 0..Count'
    BY <1>3, <1>4, <1>5, SMT
  <2> QED
    BY <1>0, <2>1, <2>2 DEF Places
<1>12. Handshake'
  BY <1>0, <1>2 DEF Handshake, Loading
<1>13. pa > ElfHdr
  <2>1. end_pa = Start + Size /\ RoundDown(Start) <= pa
    BY <1>0 DEF Progress, Loading
  <2>2. /\ Start \in Nat /\ Size \in Nat /\ RoundDown(Start) \in Int
        /\ ph > 0 => HdrEnd <= RoundDown(Start)
    BY Asked
  <2>3. pa \in Int /\ end_pa \in Int
    BY DEF Places
  <2>4. ElfHdr < HdrEnd
    BY HeaderEven, <1>9, SMT
  <2>5. CASE ph = 0
    <3>1. end_pa = HdrEnd
      BY <1>9, <2>1, <2>5 DEF Start, Size
    <3> QED
      BY <1>0, <1>9, <2>3, <2>4, <3>1, SMT
  <2>6. CASE ph # 0
    BY <1>4, <1>9, <2>1, <2>2, <2>3, <2>4, <2>6, SMT
  <2> QED
    BY <2>5, <2>6
<1>14. Line'
  BY <1>0, <1>13 DEF Line
<1>15. Progress'
  <2>1. Start' = s.pa /\ Size' = s.memsz /\ Position' = s.offset
    BY <1>0, <1>5 DEF Start, Size, Position
  <2>2. end_pa' = Start' + Size'
    BY <1>10, <2>1
  <2>3. RoundDown(Start)' = RoundDown(s.pa) /\ RoundUp(end_pa)' = RoundUp(end_pa')
        /\ Even(pa)' = Even(RoundDown(s.pa))
    BY <1>10, <2>1 DEF RoundDown, RoundUp, Even
  <2>4. RoundDown(s.pa) <= s.pa
    BY <1>6, InSector
  <2>5. end_pa' \in Int /\ s.pa <= end_pa'
    BY <1>6, <1>10, SMT
  <2>6. RoundUp(end_pa') \in Int /\ end_pa' <= RoundUp(end_pa')
    BY <2>5, Rounded
  <2>7. pa' <= RoundUp(end_pa')
    BY <1>6, <1>10, <2>4, <2>5, <2>6, SMT
  <2>8. RoundDown(s.pa) <= pa'
    BY <1>6, <1>10, SMT
  <2>9. (offset' - 1) * SectSize - pa' = Position' - Start'
    <3>1. offset' - 1 = s.offset \div SectSize
      BY <1>8, <1>10, SMT
    <3> QED
      BY <3>1, <1>8, <1>10, <2>1
  <2>10. /\ end_pa' = Start' + Size'
         /\ Even(pa)' /\ RoundDown(Start)' <= pa' /\ pa' <= RoundUp(end_pa)'
         /\ (offset' - 1) * SectSize - pa' = Position' - Start'
    BY <1>6, <2>2, <2>3, <2>7, <2>8, <2>9
  <2> QED
    BY <1>2, <2>10 DEF Progress, Early, Loading
<1>16. Contents'
  <2> SUFFICES ASSUME NEW a \in Addresses
               PROVE  /\ InHeader(a)' => mem'[a] = a - ElfHdr
                      /\ ~InHeader(a)' /\ (\A i \in 1..q : ~Covers(i, a)') => Untouched(a)'
                      /\ \A i \in 1..q :
                            Covers(i, a)' /\ (\A j \in (i + 1)..q : ~Covers(j, a)')
                               => FromFile(i, a)'
    BY <1>5 DEF Contents
  <2> PICK p \in Nat : p = ph /\ q = p + 1
    BY <1>4
  <2>1. a \in Int
    BY AddressInt
  <2>2. pa \in Int /\ end_pa \in Int
    BY DEF Places
  <2>3. InHeader(a)' <=> InHeader(a)
    <3>1. InHeader(a)' <=> ElfHdr <= a /\ a < HdrEnd
      BY <1>5 DEF InHeader
    <3>2. ph = 0 => end_pa = HdrEnd
      BY <1>0, <1>9 DEF Progress, Loading, Start, Size
    <3>3. InHeader(a) <=> ElfHdr <= a /\ a < HdrEnd
      BY <1>0, <1>4, <1>9, <2>1, <2>2, <3>2, SMT DEF InHeader
    <3> QED
      BY <3>1, <3>3
  <2>4. ~Covers(q, a)'
    <3>1. Covers(q, a)' <=> RoundDown(s.pa) <= a /\ a < RoundDown(s.pa)
      BY <1>0, <1>5, <1>10, SMT DEF Covers, ReadUpTo, RoundDown
    <3> QED
      BY <1>6, <2>1, <3>1, SMT
  <2>5. ASSUME NEW i \in 1..p PROVE Covers(i, a)' <=> Covers(i, a)
    <3>1. i < q /\ i <= p
      BY SMT
    <3>2. Covers(i, a)' <=> /\ RoundDown(phdrs[i].pa) <= a
                            /\ a < RoundUp(phdrs[i].pa + phdrs[i].memsz)
      BY <1>0, <1>5, <3>1 DEF Covers, ReadUpTo, RoundDown, RoundUp
    <3>3. CASE i < p
      BY <3>2, <3>3 DEF Covers, ReadUpTo
    <3>4. CASE i = p
      <4>1. ph # 0 /\ ~(p < ph)
        BY <3>4, SMT
      <4>2. /\ end_pa = Start + Size
            /\ Even(pa) /\ pa <= RoundUp(end_pa)
        BY <1>0 DEF Progress, Loading
      <4>3. end_pa = phdrs[i].pa + phdrs[i].memsz
        BY <3>4, <4>1, <4>2 DEF Start, Size
      <4>4. /\ RoundUp(end_pa) \in Int /\ Even(RoundUp(end_pa))
            /\ RoundUp(end_pa) < end_pa + SectSize
        BY <2>2, Rounded
      <4>5. pa < RoundUp(end_pa) => pa + SectSize <= RoundUp(end_pa)
        BY <2>2, <4>2, <4>4, Apart
      <4>6. pa = RoundUp(end_pa)
        BY <1>0, <1>9, <2>2, <4>2, <4>4, <4>5, SMT
      <4> QED
        BY <3>2, <3>4, <4>1, <4>3, <4>6 DEF Covers, ReadUpTo
    <3> QED
      BY <3>1, <3>3, <3>4, SMT
  <2>6. Untouched(a)' <=> Untouched(a)
    BY <1>0, <1>2 DEF Untouched
  <2>7. \A i \in 1..q : FromFile(i, a)' <=> FromFile(i, a)
    BY <1>0 DEF FromFile
  <2>8. /\ \A i \in 1..p : i \in 1..q
        /\ \A i \in 1..q : i # q => i \in 1..p
        /\ \A i \in 1..p : \A j \in (i + 1)..p : j \in (i + 1)..q /\ j \in 1..p
    BY SMT
  <2>9. InHeader(a)' => mem'[a] = a - ElfHdr
    BY <1>0, <2>3 DEF Contents
  <2>10. ASSUME ~InHeader(a)', \A i \in 1..q : ~Covers(i, a)'
         PROVE  Untouched(a)'
    BY <2>3, <2>5, <2>6, <2>8, <2>10 DEF Contents
  <2>11. ASSUME NEW i \in 1..q, Covers(i, a)', \A j \in (i + 1)..q : ~Covers(j, a)'
         PROVE  FromFile(i, a)'
    <3>1. i # q /\ i \in 1..p
      BY <2>4, <2>8, <2>11
    <3>2. Covers(i, a) /\ \A j \in (i + 1)..p : ~Covers(j, a)
      BY <2>5, <2>8, <2>11, <3>1
    <3> QED
      BY <2>7, <3>1, <3>2 DEF Contents
  <2> QED
    BY <2>9, <2>10, <2>11
<1> QED
  BY <1>3, <1>11, <1>12, <1>14, <1>15, <1>16

LEMMA LastSteps ==
  ASSUME LoaderIInv, CallEntry \/ Bad
  PROVE  LoaderIInv'
<1> USE DEF LoaderIInv
<1>0. /\ UNCHANGED <<phdrs, elf, mem, a20, kbc, status, requested, ph, pa, end_pa, offset>>
      /\ pc = "loop" /\ pa >= end_pa
  BY DEF CallEntry, Bad, disk, readseg_locals
<1>1. HeaderIntact
  BY <1>0, HeaderKept
<1>2. pc' = "bad" \/ (pc' = "entry" /\ elf /\ ph = Len(phdrs))
  BY <1>1 DEF CallEntry, Bad
<1>3. File' /\ UNCHANGED Count
  BY <1>0 DEF File, Count
<1>4. Places'
  BY <1>0, <1>3 DEF Places
<1>5. Handshake'
  BY <1>0, <1>2 DEF Handshake, Loading
<1>6. Line'
  BY <1>0, <1>2 DEF Line
<1>7. Progress'
  <2>1. UNCHANGED <<Start, Size, Position, Even(pa), RoundDown(Start), RoundUp(end_pa)>>
    BY <1>0 DEF Start, Size, Position, Even, RoundUp, RoundDown
  <2> QED
    BY <1>0, <1>2, <1>3, <2>1 DEF Progress, Early, Loading, Count
<1>8. Contents'
  BY <1>0, <1>2, SameContents
<1> QED
  BY <1>3, <1>4, <1>5, <1>6, <1>7, <1>8

(* No step at all                                                          *)
LEMMA NoStep ==
  ASSUME LoaderIInv, UNCHANGED vars
  PROVE  LoaderIInv'
<1>1. UNCHANGED <<phdrs, elf, status, requested, ph, pa, end_pa, offset, pc, mem, a20, kbc>>
  BY DEF vars, sectorVars, loader, disk, readseg_locals
<1>2. File' /\ UNCHANGED Count
  BY <1>1 DEF LoaderIInv, File, Count
<1>3. UNCHANGED <<Start, Size, Position, Even(pa), RoundDown(Start), RoundUp(end_pa)>>
  BY <1>1 DEF Start, Size, Position, Even, RoundUp, RoundDown
<1>4. Contents'
  BY <1>1, SameContents DEF LoaderIInv
<1>5. Places' /\ Handshake' /\ Line'
  BY <1>1, <1>2 DEF LoaderIInv, Places, Handshake, Line
<1>6. Progress'
  BY <1>1, <1>2, <1>3 DEF LoaderIInv, Progress
<1> QED
  BY <1>2, <1>4, <1>5, <1>6 DEF LoaderIInv

(* The invariant holds in every reachable state: the boot sector's         *)
(* handshake, the wait for the disk and readseg's arithmetic together.     *)
THEOREM LoaderInvariant == Spec => []LoaderIInv
<1>1. LoaderIInv /\ [Next]_vars => LoaderIInv'
  <2> SUFFICES ASSUME LoaderIInv, [Next]_vars PROVE LoaderIInv'
    OBVIOUS
  <2>1. CASE Sector /\ UNCHANGED loader
    BY <2>1, SectorSteps
  <2>2. CASE ControllerTakes /\ UNCHANGED loader
    BY <2>2, ControllerStep
  <2>3. CASE ReadHeader
    BY <2>3, ReadHeaderStep
  <2>4. CASE Command
    BY <2>4, CommandStep
  <2>5. CASE Transfer
    BY <2>5, TransferStep
  <2>6. CASE NextSegment
    BY <2>6, NextSegmentStep
  <2>7. CASE CallEntry \/ Bad
    BY <2>7, LastSteps
  <2>8. CASE DiskReady
    BY <2>8, DiskStep
  <2>9. CASE UNCHANGED vars
    BY <2>9, NoStep
  <2> QED
    BY <2>1, <2>2, <2>3, <2>4, <2>5, <2>6, <2>7, <2>8, <2>9 DEF Next, Loader
<1> QED
  BY LoaderStart, <1>1, PTL DEF Spec

-----------------------------------------------------------------------------
(* What else is written                                                    *)
LEMMA OnlySectors == LoaderIInv => NothingElseTouched
<1> SUFFICES ASSUME LoaderIInv PROVE NothingElseTouched
  OBVIOUS
<1> USE DEF LoaderIInv
<1> SUFFICES ASSUME NEW a \in Addresses,
                    a \notin ElfHdr..(HdrEnd - 1),
                    \A i \in 1..ph : LET s == phdrs[i]
                                     IN  a \notin RoundDown(s.pa)..(RoundUp(s.pa + s.memsz) - 1)
             PROVE  Untouched(a)
  BY Zenon DEF NothingElseTouched, Untouched
<1>1. a \in Int
  BY AddressInt
<1>2. ElfHdr \in Nat /\ HdrEnd \in Nat
  BY Sizes
<1>3. ~InHeader(a)
  BY <1>1, <1>2, SMT DEF InHeader
<1>4. ASSUME NEW i \in 1..ph PROVE ~Covers(i, a)
  <2>1. ph \in Nat /\ Count \in Nat /\ i \in 1..Count /\ i <= ph /\ ph # 0
    BY <1>4, Asked, SMT DEF Places
  <2>2. phdrs[i].pa \in Nat /\ phdrs[i].memsz \in Nat /\ RoundDown(phdrs[i].pa) \in Int
    BY <2>1, Header
  <2> DEFINE end == phdrs[i].pa + phdrs[i].memsz
  <2>3. end \in Int
    BY <2>2, SMT
  <2>4. RoundUp(end) \in Int
    BY <2>3, Rounded
  <2>5. ~(RoundDown(phdrs[i].pa) <= a /\ a < RoundUp(end))
    <3>1. a \notin RoundDown(phdrs[i].pa)..(RoundUp(end) - 1)
      OBVIOUS
    <3> HIDE DEF end
    <3> QED
      BY <1>1, <2>2, <2>4, <3>1, SMT
  <2>6. ReadUpTo(i) <= RoundUp(end) /\ ReadUpTo(i) \in Int
    <3>1. CASE i < ph
      BY <2>4, <3>1, SMT DEF ReadUpTo
    <3>2. CASE i = ph
      <4>1. pc \in Loading
        BY <2>1 DEF Progress
      <4>2. end_pa = end /\ pa <= RoundUp(end_pa) /\ pa \in Int
        BY <2>1, <3>2, <4>1 DEF Progress, Start, Size, Places
      <4>3. ~(i < ph)
        BY <2>1, <3>2, SMT
      <4> QED
        BY <4>2, <4>3 DEF ReadUpTo
    <3> QED
      BY <2>1, <3>1, <3>2, SMT
  <2> HIDE DEF end
  <2> QED
    BY <1>1, <2>2, <2>4, <2>5, <2>6, SMT DEF Covers
<1> QED
  BY <1>3, <1>4 DEF Contents

(* readseg "might copy more than asked", but whatever the kernel file      *)
(* looks like, it writes only the scratch space and the sectors that hold  *)
(* a segment: the stack, the boot sector and the ModeInfoBlock are safe,   *)
(* and no write goes astray while the address line is off.                 *)
THEOREM OnlyItsSectors == Spec => []NothingElseTouched
<1> QED
  BY LoaderInvariant, OnlySectors, PTL

-----------------------------------------------------------------------------
(* What is in memory in the end                                            *)
Reads(i, a) == /\ RoundDown(phdrs[i].pa) <= a
               /\ a < RoundUp(phdrs[i].pa + phdrs[i].memsz)
LastByte(i) == phdrs[i].pa + phdrs[i].memsz - 1

(* What the following lemmas use of a program header                       *)
LEMMA Bounds ==
  ASSUME File, NEW i \in 1..Count
  PROVE  /\ phdrs[i].pa \in Nat /\ phdrs[i].memsz \in Nat /\ phdrs[i].offset \in Nat
         /\ LastByte(i) \in Int
         /\ RoundDown(phdrs[i].pa) \in Int /\ Even(RoundDown(phdrs[i].pa))
         /\ RoundDown(phdrs[i].pa) <= phdrs[i].pa
         /\ phdrs[i].pa < RoundDown(phdrs[i].pa) + SectSize
         /\ RoundUp(phdrs[i].pa + phdrs[i].memsz) \in Int
         /\ phdrs[i].pa + phdrs[i].memsz <= RoundUp(phdrs[i].pa + phdrs[i].memsz)
         /\ \A j \in 1..Count : i < j => LastByte(i) < phdrs[j].pa
<1>1. phdrs[i].pa \in Nat /\ phdrs[i].memsz \in Nat /\ phdrs[i].offset \in Nat
  BY Header
<1>2. LastByte(i) \in Int /\ phdrs[i].pa + phdrs[i].memsz \in Int
  BY <1>1, SMT DEF LastByte
<1>3. \A j \in 1..Count : i < j => LastByte(i) < phdrs[j].pa
  <2> SUFFICES ASSUME NEW j \in 1..Count, i < j PROVE LastByte(i) < phdrs[j].pa
    OBVIOUS
  <2>1. phdrs[i].pa + phdrs[i].memsz <= phdrs[j].pa
    BY Table DEF File, Count
  <2>2. phdrs[j].pa \in Nat
    BY Header
  <2> QED
    BY <1>1, <2>1, <2>2, SMT DEF LastByte
<1> QED
  BY <1>1, <1>2, <1>3, InSector, Rounded

(* Two segments share a sector exactly if the later one is read over the   *)
(* last byte of the earlier one.                                           *)
LEMMA SharedSector ==
  ASSUME File, NEW i \in 1..Count, NEW j \in 1..Count, i < j, phdrs[i].memsz > 0
  PROVE  SharesSector(phdrs[i], phdrs[j]) <=> Reads(j, LastByte(i))
<1> DEFINE x == LastByte(i)
           first == RoundDown(phdrs[j].pa)
           end == phdrs[j].pa + phdrs[j].memsz
<1>1. /\ x \in Int /\ first \in Int /\ Even(first) /\ first <= phdrs[j].pa
      /\ phdrs[j].pa \in Nat /\ phdrs[j].memsz \in Nat /\ end \in Int
      /\ RoundUp(end) \in Int /\ end <= RoundUp(end) /\ x < phdrs[j].pa
  BY Bounds, SMT
<1>2. /\ RoundDown(x) \in Int /\ Even(RoundDown(x)) /\ RoundDown(x) <= x
      /\ x < RoundDown(x) + SectSize
  BY <1>1, InSector
<1>3. SharesSector(phdrs[i], phdrs[j]) <=> first < end /\ RoundDown(x) >= first
  BY DEF SharesSector, LastByte
<1>4. Reads(j, x) <=> first <= x /\ x < RoundUp(end)
  BY DEF Reads
<1>5. SectSize \in Nat \ {0}
  BY Sizes
<1>6. phdrs[j].pa <= end
  BY <1>1, SMT
<1> HIDE DEF x, first, end
<1>7. ASSUME first < end, RoundDown(x) >= first
      PROVE  first <= x /\ x < RoundUp(end)
  BY <1>1, <1>2, <1>6, <1>7, SMT
<1>8. ASSUME first <= x, x < RoundUp(end)
      PROVE  first < end /\ RoundDown(x) >= first
  <2>1. first < end
    BY <1>1, <1>6, <1>8, SMT
  <2>2. RoundDown(x) < first => RoundDown(x) + SectSize <= first
    BY <1>1, <1>2, Apart
  <2> QED
    BY <1>1, <1>2, <1>5, <1>8, <2>1, <2>2, SMT
<1> QED
  BY <1>3, <1>4, <1>7, <1>8 DEF x

(* The sector that one segment shares with a later one is read as a whole. *)
LEMMA WholeSector ==
  ASSUME File, NEW i \in 1..Count, NEW j \in 1..Count, i < j,
         NEW x \in Int, phdrs[i].pa <= x, x <= LastByte(i), Reads(j, x)
  PROVE  /\ Reads(j, LastByte(i))
         /\ \A c \in 1..Count : j < c /\ Reads(c, LastByte(i)) => Reads(c, x)
<1>1. LastByte(i) \in Int
  BY Bounds
<1>2. /\ phdrs[j].pa \in Nat /\ RoundDown(phdrs[j].pa) \in Int
      /\ Even(RoundDown(phdrs[j].pa))
      /\ phdrs[j].pa < RoundDown(phdrs[j].pa) + SectSize
      /\ phdrs[j].memsz \in Nat
      /\ RoundUp(phdrs[j].pa + phdrs[j].memsz) \in Int
      /\ phdrs[j].pa + phdrs[j].memsz <= RoundUp(phdrs[j].pa + phdrs[j].memsz)
  BY Bounds
<1>3. LastByte(i) < phdrs[j].pa
  BY Bounds
<1>4. Reads(j, LastByte(i))
  BY <1>1, <1>2, <1>3, SMT DEF Reads
<1>5. ASSUME NEW c \in 1..Count, j < c, Reads(c, LastByte(i)) PROVE Reads(c, x)
  <2>1. RoundDown(phdrs[c].pa) \in Int /\ Even(RoundDown(phdrs[c].pa))
        /\ RoundUp(phdrs[c].pa + phdrs[c].memsz) \in Int
    BY Bounds
  <2>2. RoundDown(phdrs[j].pa) < RoundDown(phdrs[c].pa) =>
           RoundDown(phdrs[j].pa) + SectSize <= RoundDown(phdrs[c].pa)
    BY <1>2, <2>1, Apart
  <2>3. SectSize \in Nat
    BY Sizes
  <2> QED
    BY <1>1, <1>2, <1>3, <1>5, <2>1, <2>2, <2>3, SMT DEF Reads
<1> QED
  BY <1>4, <1>5

(* A byte that is read at all is read a last time.                         *)
LEMMA LastReader ==
  ASSUME File, NEW x, NEW i \in 1..Count, Reads(i, x)
  PROVE  \E j \in i..Count : Reads(j, x) /\ \A c \in (j + 1)..Count : ~Reads(c, x)
<1> PICK n \in Nat : n = Count
  BY Table DEF File, Count
<1> DEFINE T == {d \in 0..(n - i) : Reads(n - d, x)}
<1>1. T \subseteq Nat /\ n - i \in T
  <2>1. n - i \in 0..(n - i) /\ n - (n - i) = i
    BY SMT
  <2> QED
    BY <2>1
<1>2. PICK d \in T : \A e \in T : d <= e
  <2>1. T \in SUBSET Nat /\ T # {}
    BY <1>1
  <2> HIDE DEF T
  <2> QED
    BY <2>1, LeastMember
<1> DEFINE j == n - d
<1>3. d \in 0..(n - i) /\ j \in i..n /\ Reads(j, x)
  BY <1>2, SMT
<1>4. ASSUME NEW c \in (j + 1)..n PROVE ~Reads(c, x)
  <2>1. n - c \in 0..(n - i) /\ n - (n - c) = c /\ ~(d <= n - c)
    BY <1>3, SMT
  <2> QED
    BY <1>2, <2>1
<1> QED
  BY <1>3, <1>4

(* When the kernel is called, every byte is from the last segment that was *)
(* read over it.                                                           *)
LEMMA LastWins ==
  ASSUME LoaderIInv, pc = "entry",
         NEW x \in Addresses, NEW j \in 1..Count, Reads(j, x),
         \A c \in (j + 1)..Count : ~Reads(c, x)
  PROVE  mem[x] = x - phdrs[j].pa + phdrs[j].offset
<1> USE DEF LoaderIInv
<1>1. ph = Count /\ Count \in Nat /\ pa \in Int /\ end_pa \in Int
  BY Asked DEF Progress, Places
<1>2. /\ end_pa = Start + Size /\ Even(pa) /\ pa <= RoundUp(end_pa) /\ pa >= end_pa
  BY DEF Progress, Loading
<1>3. pa = RoundUp(end_pa)
  <2>1. /\ RoundUp(end_pa) \in Int /\ Even(RoundUp(end_pa))
        /\ RoundUp(end_pa) < end_pa + SectSize
    BY <1>1, Rounded
  <2>2. pa < RoundUp(end_pa) => pa + SectSize <= RoundUp(end_pa)
    BY <1>1, <1>2, <2>1, Apart
  <2>3. SectSize \in Nat
    BY Sizes
  <2> QED
    BY <1>1, <1>2, <2>1, <2>2, <2>3, SMT
<1>4. ASSUME NEW i \in 1..Count PROVE Covers(i, x) <=> Reads(i, x)
  <2>1. CASE i < ph
    BY <2>1 DEF Covers, Reads, ReadUpTo
  <2>2. CASE i = ph
    <3>1. ph # 0 /\ ~(i < ph)
      BY <1>1, <2>2, SMT
    <3>2. end_pa = phdrs[i].pa + phdrs[i].memsz
      BY <1>2, <2>2, <3>1 DEF Start, Size
    <3> QED
      BY <1>3, <3>1, <3>2 DEF Covers, Reads, ReadUpTo
  <2> QED
    BY <1>1, <2>1, <2>2, SMT
<1>5. \A c \in (j + 1)..Count : c \in 1..Count
  BY <1>1, SMT
<1>6. FromFile(j, x)
  BY <1>1, <1>4, <1>5 DEF Contents
<1> QED
  BY <1>6 DEF FromFile

LEMMA SegmentsLoaded == LoaderIInv => KernelLoaded
<1> SUFFICES ASSUME LoaderIInv, pc = "entry"
             PROVE  elf /\ ((\A a \in DOMAIN phdrs : InMemory(phdrs[a])) <=> Separate)
  BY DEF KernelLoaded
<1>1. elf /\ File
  BY DEF LoaderIInv, Progress
<1>2. DOMAIN phdrs = 1..Count /\ Count \in Nat
  BY <1>1, Table DEF File, Count
<1>3. ASSUME NEW i \in 1..Count, NEW x \in Int, phdrs[i].pa <= x, x <= LastByte(i)
      PROVE  x \in Addresses /\ Reads(i, x)
  <2>1. phdrs[i] \in Segments
    BY <1>1, Header
  <2>2. /\ phdrs[i].pa \in Nat /\ phdrs[i].memsz \in Nat
        /\ RoundDown(phdrs[i].pa) \in Int /\ RoundDown(phdrs[i].pa) <= phdrs[i].pa
        /\ RoundUp(phdrs[i].pa + phdrs[i].memsz) \in Int
        /\ phdrs[i].pa + phdrs[i].memsz <= RoundUp(phdrs[i].pa + phdrs[i].memsz)
    BY <1>1, Bounds
  <2>3. SectSize \in Nat
    BY Sizes
  <2>4. x \in RoundDown(phdrs[i].pa)..(RoundUp(phdrs[i].pa + phdrs[i].memsz) + SectSize)
        /\ Reads(i, x)
    BY <1>3, <2>2, <2>3, SMT DEF LastByte, Reads
  <2> QED
    BY <2>1, <2>4 DEF Addresses
<1>4. ASSUME Separate, NEW i \in 1..Count, NEW b \in 0..(phdrs[i].memsz - 1)
      PROVE  mem[phdrs[i].pa + b] = phdrs[i].offset + b
  <2> DEFINE x == phdrs[i].pa + b
  <2>1. /\ phdrs[i].pa \in Nat /\ phdrs[i].memsz \in Nat /\ phdrs[i].offset \in Nat
        /\ LastByte(i) \in Int
    BY <1>1, Bounds
  <2>2. x \in Int /\ phdrs[i].pa <= x /\ x <= LastByte(i) /\ phdrs[i].memsz > 0
        /\ x - phdrs[i].pa = b
    BY <2>1, SMT DEF LastByte
  <2> HIDE DEF x
  <2>3. x \in Addresses /\ Reads(i, x)
    BY <1>3, <2>2
  <2>4. PICK j \in i..Count : Reads(j, x) /\ \A c \in (j + 1)..Count : ~Reads(c, x)
    BY <1>1, <2>3, LastReader
  <2>5. j \in 1..Count /\ j \in Int /\ (j # i => i < j)
        /\ \A c \in 1..Count : c > j => c \in (j + 1)..Count
    BY <1>2, SMT
  <2>6. mem[x] = x - phdrs[j].pa + phdrs[j].offset
    BY <2>3, <2>4, <2>5, LastWins
  <2>7. ASSUME j # i
        PROVE  phdrs[i].pa - phdrs[i].offset = phdrs[j].pa - phdrs[j].offset
    <3>1. Reads(j, LastByte(i))
          /\ \A c \in 1..Count : j < c /\ Reads(c, LastByte(i)) => Reads(c, x)
      BY <1>1, <2>2, <2>4, <2>5, <2>7, WholeSector
    <3>2. SharesSector(phdrs[i], phdrs[j])
      BY <1>1, <2>2, <2>5, <2>7, <3>1, SharedSector
    <3>3. ASSUME NEW c \in 1..Count, c > j PROVE ~SharesSector(phdrs[i], phdrs[c])
      <4>1. i < c /\ j < c
        BY <2>5, <2>7, <3>3, SMT
      <4>2. ~Reads(c, LastByte(i))
        BY <2>4, <2>5, <3>1, <3>3, <4>1
      <4> QED
        BY <1>1, <2>2, <4>1, <4>2, SharedSector
    <3>4. ~Spoils(i, j)
      BY <1>2, <1>4, <2>5 DEF Separate
    <3> QED
      BY <1>2, <2>5, <2>7, <3>2, <3>3, <3>4 DEF Spoils
  <2>8. phdrs[j].pa \in Nat /\ phdrs[j].offset \in Nat
    BY <1>1, <2>5, Bounds
  <2>9. mem[x] = phdrs[i].offset + b
    <3>1. CASE j = i
      BY <2>1, <2>2, <2>6, <3>1, SMT
    <3>2. CASE j # i
      BY <2>1, <2>2, <2>6, <2>7, <2>8, <3>2, SMT
    <3> QED
      BY <3>1, <3>2
  <2> QED
    BY <2>9 DEF x
<1>5. ASSUME \A a \in DOMAIN phdrs : InMemory(phdrs[a]),
             NEW i \in 1..Count, NEW j \in 1..Count, Spoils(i, j)
      PROVE  FALSE
  <2>1. /\ phdrs[i].pa \in Nat /\ phdrs[i].memsz \in Nat /\ phdrs[i].offset \in Nat
        /\ phdrs[j].pa \in Nat /\ phdrs[j].offset \in Nat
        /\ LastByte(i) \in Int
    BY <1>1, Bounds
  <2>2. /\ i < j /\ SharesSector(phdrs[i], phdrs[j])
        /\ \A c \in 1..Count : c > j => ~SharesSector(phdrs[i], phdrs[c])
        /\ phdrs[i].pa - phdrs[i].offset # phdrs[j].pa - phdrs[j].offset
    BY <1>2, <1>5 DEF Spoils
  <2>3. phdrs[i].memsz > 0
    BY <2>2 DEF SharesSector
  <2> DEFINE x == LastByte(i)
             b == phdrs[i].memsz - 1
  <2>4. /\ x \in Int /\ phdrs[i].pa <= x /\ x <= LastByte(i)
        /\ b \in 0..(phdrs[i].memsz - 1) /\ x = phdrs[i].pa + b /\ b \in Int
    BY <2>1, <2>3, SMT DEF LastByte
  <2>5. x \in Addresses
    BY <1>3, <2>4
  <2>6. Reads(j, x)
    BY <1>1, <2>2, <2>3, SharedSector
  <2>7. ASSUME NEW c \in (j + 1)..Count PROVE ~Reads(c, x)
    <3>1. c \in 1..Count /\ c > j /\ i < c
      BY <1>2, <2>2, <2>7, SMT
    <3> QED
      BY <1>1, <2>2, <2>3, <3>1, SharedSector
  <2>8. mem[x] = x - phdrs[j].pa + phdrs[j].offset
    <3> HIDE DEF x
    <3> QED
      BY <2>5, <2>6, <2>7, LastWins
  <2>9. mem[phdrs[i].pa + b] = phdrs[i].offset + b
    BY <1>2, <1>5, <2>4 DEF InMemory
  <2> HIDE DEF x, b
  <2> QED
    BY <2>1, <2>2, <2>4, <2>8, <2>9, SMT
<1>6. Separate => \A a \in DOMAIN phdrs : InMemory(phdrs[a])
  BY <1>2, <1>4 DEF InMemory
<1>7. (\A a \in DOMAIN phdrs : InMemory(phdrs[a])) => Separate
  BY <1>2, <1>5 DEF Separate
<1> QED
  BY <1>1, <1>6, <1>7

(* bootmain calls the kernel's entry point only if the file is an ELF      *)
(* file, and then every segment is in memory exactly if none shares its    *)
(* last sector with a later one that is at another distance in the file.   *)
THEOREM Loads == Spec => []KernelLoaded
<1> QED
  BY LoaderInvariant, SegmentsLoaded, PTL
=============================================================================
