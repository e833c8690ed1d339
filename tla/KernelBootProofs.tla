-------------------------- MODULE KernelBootProofs --------------------------
(***************************************************************************)
(* Theorems about the boot path through memory, for every geometry of the  *)
(* page tables, every size of the kernel image and of the RAM, and every   *)
(* place of the video memory.                                              *)
(*                                                                         *)
(* The inductive invariant follows mm_continous_map: which directories are *)
(* linked so far, that the table of each is the page that was allocated    *)
(* for it and says where its pages are, and how far the list of free pages *)
(* has been used.  That the tables are reachable through themselves once   *)
(* paging is on is what decides whether the boot survives.                 *)
(***************************************************************************)
EXTENDS KernelBoot, PageAllocProofs, FiniteSetTheorems

-----------------------------------------------------------------------------
(* The directories of the two calls of mm_continous_map and their tables.  *)
VideoDir == DirIdx(vram.base)
KernelDirs == 0..(KernelTables - 1)
VideoDirs == VideoDir..(VideoDir + VideoTables - 1)
AllDirs == KernelDirs \cup VideoDirs
TablePage(d) == nr_kernel_page + 1 + (IF d < KernelTables THEN d
                                      ELSE KernelTables + d - VideoDir)

(* The pages that the calls map end before these.                          *)
KernelEnd == end \div PgSize
VideoEnd == (vram.base + vram.size) \div PgSize

(* What the table of a directory holds.                                    *)
Mapped(d, e) == IF d = 0 /\ e >= KernelEnd THEN NULL ELSE d * NPT + e

InLoop == pc \in {"tab", "clearTab", "fill", "link"}

(* The directories that are linked.                                        *)
Done == IF pc \in {"pgdir", "clearDir"} THEN {}
        ELSE IF pc \in {"enable", "video"} THEN KernelDirs
        ELSE IF ~InLoop THEN AllDirs
        ELSE IF pg THEN KernelDirs \cup VideoDir..(job.dir - 1)
        ELSE 0..(job.dir - 1)

Laid(L) ==
    /\ kpgdir = nr_kernel_page
    /\ owners[kpgdir] = 1
    /\ \A d \in Entries : table[kpgdir][d] = IF d \in L THEN TablePage(d) ELSE NULL
    /\ \A d \in L : /\ owners[TablePage(d)] = 1
                    /\ TablePage(d) < ListTop
                    /\ \A e \in Entries : table[TablePage(d)][e] = Mapped(d, e)

(* The loop of mm_continous_map, in the first call and in the second.      *)
Jobs == [dir : Int, last : Int, mapEnd : Int, vframe : Int, tab : Int,
         ret : {"none", "enable", "test"}]

Job == /\ job.last = IF pg THEN VideoDir + VideoTables - 1 ELSE KernelTables - 1
       /\ job.dir \in (IF pg THEN VideoDir ELSE 0)..job.last
       /\ job.mapEnd = IF pg THEN VideoEnd ELSE KernelEnd
       /\ job.ret = IF pg THEN "test" ELSE "enable"

(* One turn: the table of the directory at hand is allocated, cleared,     *)
(* filled and linked.                                                      *)
Turn == /\ pc # "link" => job.vframe = job.dir * NPT
        /\ pc # "tab" => job.tab = TablePage(job.dir) /\ owners[job.tab] = 1
        /\ pc = "fill" => table[job.tab] = Cleared
        /\ pc = "link" => /\ \A e \in Entries :
                                table[job.tab][e] = Mapped(job.dir, e)
                          /\ job.dir < job.last => job.vframe = (job.dir + 1) * NPT
        /\ pg /\ pc \in {"fill", "link"} => job.tab < MappedPages

(* How many pages have been taken off the list.                            *)
Taken == CASE pc = "pgdir" -> 0
           [] pc = "clearDir" -> 1
           [] InLoop -> TablePage(job.dir) - nr_kernel_page
                          + (IF pc = "tab" THEN 0 ELSE 1)
           [] pc \in {"enable", "video"} -> 1 + KernelTables
           [] pc = "test" -> 1 + KernelTables + VideoTables + Len(frame_buf)
           [] OTHER -> PagesNeeded - nr_kernel_page

(* test_page's pages come after the tables, and so does what it walks.     *)
Testing == /\ \A i \in DOMAIN frame_buf :
                 frame_buf[i] > nr_kernel_page + KernelTables + VideoTables
           /\ pc = "test" => Len(frame_buf) < TestPages
           /\ pc = "release" => frame_buf # <<>>
           /\ pc \notin {"test", "release"} => frame_buf = <<>>
           /\ pc \notin {"screen", "shown", "walk"} => logged = 0
           /\ pc = "walk" => /\ logged < WalkPages
                             /\ page = IF PagesNeeded + logged < NPages
                                       THEN PagesNeeded + logged
                                       ELSE IF PagesNeeded + logged = NPages
                                       THEN NULL ELSE Wild

Paging == pc \in AfterVideo \cup {"video"} \/ (InLoop /\ job.ret = "test")

Progress == /\ pg <=> Paging
            /\ ListTop = nr_kernel_page + Taken
            /\ pc \notin {"pgdir", "clearDir"} => Laid(Done)
            /\ pc = "clearDir" => kpgdir = nr_kernel_page /\ owners[kpgdir] = 1
            /\ InLoop => Job /\ Turn
            /\ Testing

(* What never changes after the choice of the image and the adapter.       *)
Image == /\ end \in Ends
         /\ nr_kernel_page = RoundUp(end) \div PgSize
         /\ vram \in [base : VramBases, size : VramSizes]

BootTyped == /\ BootTypeOK
             /\ job \in Jobs
             /\ frame_buf \in Seq(Pages)

BootIInv == /\ IInv
            /\ Image
            /\ BootTyped
            /\ BootOutcome
            /\ IdentityMap
            /\ TablesOwned
            /\ pc # "derailed" => Progress

-----------------------------------------------------------------------------
(* Numbers                                                                 *)

(* Division rounds down.                                                   *)
LEMMA Quotient ==
  ASSUME NEW p \in Nat \ {0}, NEW a \in Nat
  PROVE  /\ a \div p \in Nat
         /\ (a \div p) * p <= a
         /\ a < (a \div p) * p + p
         /\ a % p = a - (a \div p) * p
BY SMT

(* ... and is the only number to do so.                                    *)
LEMMA QuotientIs ==
  ASSUME NEW p \in Nat \ {0}, NEW a \in Nat, NEW q \in Nat,
         q * p <= a, a < q * p + p
  PROVE  a \div p = q
BY SMT

LEMMA MultiplesAscend ==
  ASSUME NEW p \in Nat \ {0}, NEW a \in Int, NEW b \in Int
  PROVE  /\ a <= b => a * p <= b * p
         /\ a * p < b * p => a < b
BY SMT

(* An address, its page, and the directory of the page.                    *)
LEMMA PageOf ==
  ASSUME NEW a \in Nat
  PROVE  /\ RoundDown(a) \in Nat
         /\ RoundDown(a) \div PgSize = a \div PgSize
         /\ a \div PgSize \in Nat
         /\ DirIdx(a) = (a \div PgSize) \div NPT
         /\ DirIdx(RoundDown(a)) = (a \div PgSize) \div NPT
<1>1. PgSize \in Nat \ {0} /\ NPT \in Nat \ {0}
  BY BootAssumption
<1> DEFINE q == a \div PgSize
           d == q \div NPT
<1>2. q \in Nat /\ q * PgSize <= a /\ a < q * PgSize + PgSize
  BY <1>1, Quotient
<1>3. d \in Nat /\ d * NPT <= q /\ q < d * NPT + NPT
  <2> HIDE DEF q
  <2> QED
    BY <1>1, <1>2, Quotient
<1> HIDE DEF q, d
<1>4. q * PgSize \in Nat /\ (q * PgSize) \div PgSize = q
  <2>1. q * PgSize \in Nat
    BY <1>1, <1>2
  <2> QED
    BY <1>1, <1>2, <2>1, QuotientIs
<1>5. PgSize * NPT \in Nat \ {0}
  BY <1>1
<1>6. d * (PgSize * NPT) <= q * PgSize
  <2>1. (d * NPT) * PgSize <= q * PgSize
    BY <1>1, <1>2, <1>3, MultiplesAscend
  <2>2. (d * NPT) * PgSize = d * (PgSize * NPT)
    BY <1>1, <1>3
  <2> QED
    BY <2>1, <2>2
<1>7. q * PgSize + PgSize <= d * (PgSize * NPT) + PgSize * NPT
  <2>1. q + 1 \in Int /\ d * NPT + NPT \in Int /\ q + 1 <= d * NPT + NPT
    BY <1>1, <1>2, <1>3
  <2>2. (q + 1) * PgSize <= (d * NPT + NPT) * PgSize
    BY <1>1, <2>1, MultiplesAscend
  <2>3. /\ (q + 1) * PgSize = q * PgSize + PgSize
        /\ (d * NPT + NPT) * PgSize = d * (PgSize * NPT) + PgSize * NPT
    BY <1>1, <1>2, <1>3
  <2> QED
    BY <2>2, <2>3
<1>8. a \div (PgSize * NPT) = d
  <2>1. d * (PgSize * NPT) <= a /\ a < d * (PgSize * NPT) + PgSize * NPT
    <3>1. d * (PgSize * NPT) \in Int /\ q * PgSize \in Int
      BY <1>3, <1>4, <1>5
    <3> QED
      BY <1>1, <1>2, <1>5, <1>6, <1>7, <3>1
  <2> QED
    BY <1>3, <1>5, <2>1, QuotientIs
<1>9. (q * PgSize) \div (PgSize * NPT) = d
  <2>1. q * PgSize < d * (PgSize * NPT) + PgSize * NPT
    <3>1. d * (PgSize * NPT) \in Int
      BY <1>3, <1>5
    <3> QED
      BY <1>1, <1>4, <1>5, <1>7, <3>1
  <2> QED
    BY <1>3, <1>4, <1>5, <1>6, <2>1, QuotientIs
<1>10. RoundDown(a) = q * PgSize
  BY DEF RoundDown, q
<1> QED
  BY <1>2, <1>4, <1>8, <1>9, <1>10 DEF DirIdx, q, d

(* Where the directories of the image and of the adapter lie.              *)
LEMMA ImageNumbers ==
  ASSUME Image
  PROVE  /\ nr_kernel_page \in Nat /\ 1 <= nr_kernel_page /\ nr_kernel_page < NPages
         /\ end \in Nat /\ vram.base \in Nat /\ vram.size \in Nat
         /\ KernelEnd \in Nat /\ KernelEnd <= nr_kernel_page
         /\ VideoEnd \in Nat
<1>1. /\ PgSize \in Nat \ {0}
      /\ end \in Nat /\ vram.base \in Nat /\ vram.size \in Nat
      /\ nr_kernel_page = RoundUp(end) \div PgSize
      /\ RoundUp(end) \div PgSize \in 1..(NPages - 1)
  BY BootAssumption DEF Image
<1>2. NPages \in Nat
  BY PageAssumption
<1>3. nr_kernel_page \in Nat /\ 1 <= nr_kernel_page /\ nr_kernel_page < NPages
  <2> HIDE DEF RoundUp
  <2> QED
    BY <1>1, <1>2
<1>4. KernelEnd \in Nat /\ KernelEnd * PgSize <= end
  BY <1>1, Quotient DEF KernelEnd
<1>5. end <= nr_kernel_page * PgSize
  <2> DEFINE q == (end + PgSize - 1) \div PgSize
  <2>1. end + PgSize - 1 \in Nat
    BY <1>1
  <2>2. q \in Nat /\ end + PgSize - 1 < q * PgSize + PgSize
    BY <1>1, <2>1, Quotient
  <2>3. RoundUp(end) = q * PgSize
    BY DEF RoundUp
  <2> HIDE DEF q
  <2>4. q * PgSize \in Nat /\ (q * PgSize) \div PgSize = q
    <3>1. q * PgSize \in Nat
      BY <1>1, <2>2
    <3> QED
      BY <1>1, <2>2, <3>1, QuotientIs
  <2>5. nr_kernel_page = q
    BY <1>1, <2>3, <2>4
  <2> QED
    BY <1>1, <2>2, <2>4, <2>5
<1>6. KernelEnd * PgSize <= nr_kernel_page * PgSize
  <2>1. nr_kernel_page * PgSize \in Int /\ KernelEnd * PgSize \in Int
    BY <1>1, <1>3, <1>4
  <2> QED
    BY <1>1, <1>4, <1>5, <2>1
<1>7. KernelEnd <= nr_kernel_page
  <2>1. nr_kernel_page < KernelEnd => nr_kernel_page + 1 <= KernelEnd
    BY <1>3, <1>4
  <2>2. ASSUME nr_kernel_page + 1 <= KernelEnd PROVE FALSE
    <3>1. (nr_kernel_page + 1) * PgSize <= KernelEnd * PgSize
      BY <1>1, <1>3, <1>4, <2>2, MultiplesAscend
    <3>2. (nr_kernel_page + 1) * PgSize = nr_kernel_page * PgSize + PgSize
      BY <1>1, <1>3
    <3>3. nr_kernel_page * PgSize \in Int /\ KernelEnd * PgSize \in Int
      BY <1>1, <1>3, <1>4
    <3> QED
      BY <1>1, <1>6, <3>1, <3>2, <3>3
  <2> QED
    BY <1>3, <1>4, <2>1, <2>2
<1>8. VideoEnd \in Nat
  <2>1. vram.base + vram.size \in Nat
    BY <1>1
  <2> QED
    BY <1>1, <2>1, Quotient DEF VideoEnd
<1> QED
  BY <1>1, <1>3, <1>4, <1>7, <1>8

(* The video memory begins with a table.                                   *)
LEMMA VideoBase ==
  ASSUME Image
  PROVE  /\ VideoDir \in Nat
         /\ vram.base = VideoDir * (PgSize * NPT)
         /\ vram.base \div PgSize = VideoDir * NPT
         /\ RoundUp(vram.base) = vram.base
         /\ NPages <= VideoDir * NPT
         /\ VideoEnd < VPages
         /\ VideoDir * NPT <= VideoEnd
<1>1. /\ PgSize \in Nat \ {0} /\ NPT \in Nat \ {0} /\ NPD \in Nat \ {0}
      /\ vram.base \in Nat /\ vram.size \in Nat
      /\ vram.base % (PgSize * NPT) = 0
      /\ vram.base >= NPages * PgSize
      /\ vram.base + vram.size < VPages * PgSize
      /\ NPages \in Nat
  BY BootAssumption, PageAssumption DEF Image
<1>2. PgSize * NPT \in Nat \ {0}
  BY <1>1
<1> DEFINE S == PgSize * NPT
<1>3. VideoDir \in Nat /\ vram.base = VideoDir * S
  <2>1. vram.base \div S \in Nat /\ vram.base % S = vram.base - (vram.base \div S) * S
    BY <1>1, <1>2, Quotient
  <2>2. (vram.base \div S) * S \in Nat
    BY <1>2, <2>1
  <2> QED
    BY <1>1, <2>1, <2>2 DEF VideoDir, DirIdx
<1>4. vram.base = (VideoDir * NPT) * PgSize /\ VideoDir * NPT \in Nat
  BY <1>1, <1>3
<1>5. vram.base \div PgSize = VideoDir * NPT
  BY <1>1, <1>4, QuotientIs
<1>6. RoundUp(vram.base) = vram.base
  <2>1. vram.base + PgSize - 1 \in Nat
    BY <1>1
  <2>2. (vram.base + PgSize - 1) \div PgSize = VideoDir * NPT
    BY <1>1, <1>4, <2>1, QuotientIs
  <2> QED
    BY <1>4, <2>2 DEF RoundUp
<1>7. NPages <= VideoDir * NPT
  <2>1. ASSUME VideoDir * NPT + 1 <= NPages PROVE FALSE
    <3>1. (VideoDir * NPT + 1) * PgSize <= NPages * PgSize
      BY <1>1, <1>4, <2>1, MultiplesAscend
    <3>2. (VideoDir * NPT + 1) * PgSize = vram.base + PgSize
      BY <1>1, <1>4
    <3>3. NPages * PgSize \in Int
      BY <1>1
    <3> QED
      BY <1>1, <3>1, <3>2, <3>3
  <2> QED
    BY <1>1, <1>4, <2>1
<1>8. VideoEnd \in Nat /\ VideoEnd * PgSize <= vram.base + vram.size
      /\ vram.base + vram.size < VideoEnd * PgSize + PgSize
  <2>1. vram.base + vram.size \in Nat
    BY <1>1
  <2> QED
    BY <1>1, <2>1, Quotient DEF VideoEnd
<1>9. VideoEnd < VPages
  <2>1. VPages \in Int
    BY <1>1 DEF VPages
  <2>2. VideoEnd * PgSize < VPages * PgSize
    <3>1. VideoEnd * PgSize \in Int /\ VPages * PgSize \in Int
      BY <1>1, <1>8, <2>1
    <3> QED
      BY <1>1, <1>8, <3>1
  <2> QED
    BY <1>1, <1>8, <2>1, <2>2, MultiplesAscend
<1>10. VideoDir * NPT <= VideoEnd
  <2>1. (VideoDir * NPT) * PgSize < (VideoEnd + 1) * PgSize
    <3>1. (VideoEnd + 1) * PgSize = VideoEnd * PgSize + PgSize
      BY <1>1, <1>8
    <3>2. VideoEnd * PgSize \in Int
      BY <1>1, <1>8
    <3> QED
      BY <1>1, <1>4, <1>8, <3>1, <3>2
  <2>2. VideoEnd + 1 \in Int /\ VideoDir * NPT \in Int
    BY <1>4, <1>8
  <2>3. VideoDir * NPT < VideoEnd + 1
    BY <1>1, <2>1, <2>2, MultiplesAscend
  <2> QED
    BY <1>8, <2>2, <2>3
<1> QED
  BY <1>3, <1>5, <1>6, <1>7, <1>9, <1>10

(* The image's directories come before the adapter's, and all of them fit. *)
LEMMA Geometry ==
  ASSUME Image
  PROVE  /\ KernelTables \in Nat /\ 1 <= KernelTables /\ KernelTables <= VideoDir
         /\ VideoTables \in Nat /\ 1 <= VideoTables
         /\ VideoDir \in Nat /\ VideoDir + VideoTables <= NPD
         /\ NPD \in Nat /\ NPT \in Nat \ {0} /\ NPD <= NPT
         /\ KernelTables - 1 = KernelEnd \div NPT
         /\ (KernelTables - 1) * NPT <= KernelEnd
         /\ KernelEnd < KernelTables * NPT
         /\ VideoDir + VideoTables - 1 = VideoEnd \div NPT
<1>1. /\ PgSize \in Nat \ {0} /\ NPT \in Nat \ {0} /\ NPD \in Nat \ {0}
      /\ NPD <= NPT /\ NPages \in Nat
  BY BootAssumption, PageAssumption
<1>2. /\ nr_kernel_page < NPages /\ nr_kernel_page \in Nat
      /\ end \in Nat /\ vram.base + vram.size \in Nat
      /\ KernelEnd \in Nat /\ KernelEnd <= nr_kernel_page
      /\ VideoEnd \in Nat
  BY ImageNumbers
<1>3. /\ VideoDir \in Nat /\ NPages <= VideoDir * NPT /\ VideoDir * NPT <= VideoEnd
      /\ VideoEnd < VPages
  BY VideoBase
<1> DEFINE k == KernelEnd \div NPT
           v == VideoEnd \div NPT
<1>4. KernelTables = k + 1
  BY <1>2, PageOf DEF KernelTables, KernelEnd
<1>5. VideoTables = v - VideoDir + 1
  BY <1>2, PageOf DEF VideoTables, VideoEnd, VideoDir
<1>6. k \in Nat /\ k * NPT <= KernelEnd /\ KernelEnd < k * NPT + NPT
  BY <1>1, <1>2, Quotient
<1>7. v \in Nat /\ v * NPT <= VideoEnd /\ VideoEnd < v * NPT + NPT
  BY <1>1, <1>2, Quotient
<1> HIDE DEF k, v
<1>8. k < VideoDir
  <2>1. k * NPT \in Int /\ VideoDir * NPT \in Int
    BY <1>1, <1>3, <1>6
  <2>2. k * NPT < VideoDir * NPT
    BY <1>1, <1>2, <1>3, <1>6, <2>1
  <2> QED
    BY <1>1, <1>3, <1>6, <2>2, MultiplesAscend
<1>9. VideoDir <= v
  <2>1. (v + 1) * NPT = v * NPT + NPT /\ v * NPT \in Int /\ VideoDir * NPT \in Int
    BY <1>1, <1>3, <1>7
  <2>2. VideoDir * NPT < (v + 1) * NPT
    BY <1>1, <1>2, <1>3, <1>7, <2>1
  <2>3. v + 1 \in Int
    BY <1>7
  <2>4. VideoDir < v + 1
    BY <1>1, <1>3, <2>2, <2>3, MultiplesAscend
  <2> QED
    BY <1>3, <1>7, <2>4
<1>10. v < NPD
  <2>1. VPages = NPD * NPT
    BY <1>1 DEF VPages
  <2>2. v * NPT < NPD * NPT
    <3>1. v * NPT \in Int /\ NPD * NPT \in Int
      BY <1>1, <1>7
    <3> QED
      BY <1>2, <1>3, <1>7, <2>1, <3>1
  <2> QED
    BY <1>1, <1>7, <2>2, MultiplesAscend
<1>11. /\ KernelTables - 1 = k
       /\ (KernelTables - 1) * NPT <= KernelEnd
       /\ KernelEnd < KernelTables * NPT
  <2>1. (k + 1) * NPT = k * NPT + NPT /\ k + 1 - 1 = k
    BY <1>1, <1>6
  <2> QED
    BY <1>4, <1>6, <2>1
<1>12. /\ KernelTables \in Nat /\ 1 <= KernelTables /\ KernelTables <= VideoDir
       /\ VideoTables \in Nat /\ 1 <= VideoTables
       /\ VideoDir + VideoTables <= NPD
       /\ VideoDir + VideoTables - 1 = v
  BY <1>1, <1>3, <1>4, <1>5, <1>6, <1>7, <1>8, <1>9, <1>10
<1> QED
  BY <1>1, <1>3, <1>11, <1>12 DEF k, v

(* What TablesReachable says of the pages.                                 *)
LEMMA PagesMapped ==
  ASSUME Image
  PROVE  /\ MappedPages = IF KernelEnd < NPT THEN KernelEnd ELSE KernelTables * NPT
         /\ MappedPages \in Nat
<1>1. PgSize \in Nat \ {0} /\ NPT \in Nat \ {0}
  BY BootAssumption
<1>2. end \in Nat /\ KernelEnd \in Nat /\ KernelTables \in Nat
  BY ImageNumbers, Geometry
<1>3. RoundDown(end) = KernelEnd * PgSize
  BY DEF RoundDown, KernelEnd
<1>4. RoundDown(end) < PgSize * NPT <=> KernelEnd < NPT
  <2>1. PgSize * NPT = NPT * PgSize
    BY <1>1
  <2>2. KernelEnd * PgSize < NPT * PgSize => KernelEnd < NPT
    BY <1>1, <1>2, MultiplesAscend
  <2>3. NPT <= KernelEnd => NPT * PgSize <= KernelEnd * PgSize
    BY <1>1, <1>2, MultiplesAscend
  <2>4. KernelEnd * PgSize \in Int /\ NPT * PgSize \in Int
    BY <1>1, <1>2
  <2> QED
    BY <1>1, <1>2, <1>3, <2>1, <2>2, <2>3, <2>4
<1>5. MappedPages = IF KernelEnd < NPT THEN KernelEnd ELSE KernelTables * NPT
  <2>1. end \div PgSize = KernelEnd
    BY DEF KernelEnd
  <2> QED
    BY <1>4, <2>1 DEF MappedPages
<1>6. KernelTables * NPT \in Nat
  BY <1>1, <1>2
<1> QED
  BY <1>2, <1>5, <1>6

-----------------------------------------------------------------------------
(* The tables                                                              *)

(* Every directory has a page of its own for its table.                    *)
LEMMA TablePages ==
  ASSUME Image, NEW d \in AllDirs
  PROVE  /\ d \in Nat /\ d < NPD /\ d \in Entries
         /\ TablePage(d) \in Nat
         /\ nr_kernel_page < TablePage(d)
         /\ TablePage(d) <= nr_kernel_page + KernelTables + VideoTables
         /\ \A c \in AllDirs : c < d => TablePage(c) < TablePage(d)
         /\ \A c \in AllDirs : TablePage(c) = TablePage(d) => c = d
<1>1. /\ nr_kernel_page \in Nat /\ KernelTables \in Nat /\ KernelTables <= VideoDir
      /\ VideoTables \in Nat /\ VideoDir \in Nat /\ VideoDir + VideoTables <= NPD
      /\ NPD \in Nat /\ NPT \in Nat /\ NPD <= NPT /\ 1 <= VideoTables
  BY ImageNumbers, Geometry
<1>2. ASSUME NEW c \in AllDirs
      PROVE  /\ c \in Nat /\ c < NPD
             /\ c < KernelTables \/ (VideoDir <= c /\ c < VideoDir + VideoTables)
  BY <1>1 DEF AllDirs, KernelDirs, VideoDirs
<1>3. d \in Entries
  BY <1>1, <1>2 DEF Entries
<1> QED
  BY <1>1, <1>2, <1>3 DEF TablePage

(* A virtual page is its directory and its entry.                          *)
LEMMA Split ==
  ASSUME NEW v \in 0..(VPages - 1)
  PROVE  /\ v \in Nat
         /\ v \div NPT \in 0..(NPD - 1) /\ v \div NPT \in Entries
         /\ v % NPT \in Entries
         /\ (v \div NPT) * NPT + (v % NPT) = v
         /\ v \div NPT = 0 <=> v < NPT
<1>1. NPT \in Nat \ {0} /\ NPD \in Nat \ {0} /\ NPD <= NPT
  BY BootAssumption
<1> DEFINE d == v \div NPT
<1>2. v \in Nat /\ VPages = NPD * NPT /\ NPD * NPT \in Nat
  BY <1>1 DEF VPages
<1>3. d \in Nat /\ d * NPT <= v /\ v < d * NPT + NPT /\ v % NPT = v - d * NPT
  BY <1>1, <1>2, Quotient
<1> HIDE DEF d
<1>4. d * NPT \in Nat
  BY <1>1, <1>3
<1>5. d < NPD
  <2>1. d * NPT < NPD * NPT
    BY <1>1, <1>2, <1>3, <1>4
  <2> QED
    BY <1>1, <1>3, <2>1, MultiplesAscend
<1>6. d = 0 <=> v < NPT
  <2>1. d = 0 => d * NPT = 0
    BY <1>1
  <2>2. 1 <= d => 1 * NPT <= d * NPT
    BY <1>1, <1>3, MultiplesAscend
  <2> QED
    BY <1>1, <1>3, <1>4, <2>1, <2>2
<1>7. d \in Entries /\ v % NPT \in Entries
  BY <1>1, <1>2, <1>3, <1>4, <1>5 DEF Entries
<1>8. d * NPT + (v % NPT) = v
  BY <1>2, <1>3, <1>4
<1> QED
  BY <1>1, <1>2, <1>3, <1>5, <1>6, <1>7, <1>8 DEF d

(* What the processor finds in the tables: the page itself or nothing.     *)
LEMMA Translates ==
  ASSUME Image, NEW L \in SUBSET AllDirs, Laid(L), NEW v \in 0..(VPages - 1)
  PROVE  Translate(v) = IF v \div NPT \in L /\ ~(v < NPT /\ KernelEnd <= v)
                        THEN v ELSE NULL
<1> DEFINE d == v \div NPT
           e == v % NPT
<1>1. /\ v \in Nat /\ d \in Entries /\ e \in Entries /\ d * NPT + e = v
      /\ d = 0 <=> v < NPT
  BY Split
<1>2. d = 0 => e = v
  <2>1. NPT \in Nat /\ e \in Int
    BY <1>1, BootAssumption DEF Entries
  <2> HIDE DEF d, e
  <2> QED
    BY <1>1, <2>1
<1>3. Translate(v) = IF table[kpgdir][d] = NULL THEN NULL ELSE table[table[kpgdir][d]][e]
  BY DEF Translate
<1> HIDE DEF d, e
<1>4. CASE d \notin L
  BY <1>1, <1>3, <1>4 DEF Laid, d
<1>5. CASE d \in L
  <2>1. TablePage(d) \in Nat /\ TablePage(d) # NULL
    BY <1>5, TablePages, PageAssumption
  <2>2. table[kpgdir][d] = TablePage(d) /\ table[TablePage(d)][e] = Mapped(d, e)
    BY <1>1, <1>5 DEF Laid
  <2>3. Translate(v) = Mapped(d, e)
    BY <1>3, <2>1, <2>2
  <2>4. Mapped(d, e) = IF v < NPT /\ KernelEnd <= v THEN NULL ELSE v
    <3>1. KernelEnd \in Int /\ e \in Int
      BY <1>1, ImageNumbers, BootAssumption DEF Entries
    <3> QED
      BY <1>1, <1>2, <3>1 DEF Mapped
  <2> QED
    BY <1>5, <2>3, <2>4 DEF d
<1> QED
  BY <1>4, <1>5

(* So every translated page is itself ...                                  *)
LEMMA LaidIdentity ==
  ASSUME Image, NEW L \in SUBSET AllDirs, Laid(L)
  PROVE  IdentityMap
BY Translates DEF IdentityMap

(* ... and every table has a page of its own.                              *)
LEMMA LaidOwned ==
  ASSUME Image, NEW L \in SUBSET AllDirs, Laid(L)
  PROVE  TablesOwned
<1>1. ASSUME NEW d \in Entries, table[kpgdir][d] # NULL
      PROVE  d \in L /\ table[kpgdir][d] = TablePage(d)
  BY <1>1 DEF Laid
<1>2. ASSUME NEW d \in L
      PROVE  owners[TablePage(d)] = 1 /\ TablePage(d) # kpgdir
  <2>1. nr_kernel_page < TablePage(d) /\ TablePage(d) \in Nat /\ nr_kernel_page \in Nat
    BY TablePages, ImageNumbers
  <2> QED
    BY <2>1 DEF Laid
<1>3. \A c, d \in L : TablePage(c) = TablePage(d) => c = d
  BY TablePages
<1> QED
  BY <1>1, <1>2, <1>3 DEF TablesOwned

(* A page of the RAM is reachable when the image covers its table.         *)
LEMMA RamMapped ==
  ASSUME Image, NEW L \in SUBSET AllDirs, KernelDirs \subseteq L, Laid(L),
         NEW p \in Pages
  PROVE  /\ Translate(p) = IF p < MappedPages THEN p ELSE NULL
         /\ p \in 0..(VPages - 1)
<1>1. /\ NPages \in Nat /\ NPT \in Nat \ {0} /\ VPages \in Nat /\ NPages <= VPages
  BY PageAssumption, BootAssumption DEF VPages
<1>2. p \in 0..(VPages - 1) /\ p \in Nat /\ p < NPages
  BY <1>1 DEF Pages
<1>3. /\ VideoDir \in Nat /\ NPages <= VideoDir * NPT
      /\ KernelTables \in Nat /\ 1 <= KernelTables /\ KernelTables <= VideoDir
      /\ KernelEnd \in Nat /\ VideoTables \in Nat
      /\ (KernelTables - 1) * NPT <= KernelEnd /\ KernelEnd < KernelTables * NPT
  BY VideoBase, Geometry, ImageNumbers
<1> DEFINE d == p \div NPT
<1>4. /\ d \in Nat /\ d * NPT <= p /\ p < d * NPT + NPT
  BY <1>1, <1>2, Quotient
<1> HIDE DEF d
<1>5. d < VideoDir
  <2>1. d * NPT < VideoDir * NPT
    <3>1. d * NPT \in Int /\ VideoDir * NPT \in Int
      BY <1>1, <1>3, <1>4
    <3> QED
      BY <1>1, <1>2, <1>3, <1>4, <3>1
  <2> QED
    BY <1>1, <1>3, <1>4, <2>1, MultiplesAscend
<1>6. d \in L <=> d < KernelTables
  BY <1>3, <1>4, <1>5 DEF AllDirs, KernelDirs, VideoDirs
<1>7. d < KernelTables <=> p < KernelTables * NPT
  <2>1. d + 1 <= KernelTables => (d + 1) * NPT <= KernelTables * NPT
    BY <1>1, <1>3, <1>4, MultiplesAscend
  <2>2. (d + 1) * NPT = d * NPT + NPT /\ d * NPT \in Int /\ KernelTables * NPT \in Int
    BY <1>1, <1>3, <1>4
  <2>3. KernelTables <= d => KernelTables * NPT <= d * NPT
    BY <1>1, <1>3, <1>4, MultiplesAscend
  <2> QED
    BY <1>1, <1>2, <1>3, <1>4, <2>1, <2>2, <2>3
<1>8. Translate(p) = IF d \in L /\ ~(p < NPT /\ KernelEnd <= p) THEN p ELSE NULL
  BY <1>2, Translates DEF d
<1>9. KernelEnd < NPT => KernelTables = 1
  <2>1. ASSUME 2 <= KernelTables PROVE NPT <= KernelEnd
    <3>1. 1 * NPT <= (KernelTables - 1) * NPT
      BY <1>1, <1>3, <2>1, MultiplesAscend
    <3>2. (KernelTables - 1) * NPT \in Int
      BY <1>1, <1>3
    <3> QED
      BY <1>1, <1>3, <3>1, <3>2
  <2> QED
    BY <1>1, <1>3, <2>1
<1>10. MappedPages = IF KernelEnd < NPT THEN KernelEnd ELSE KernelTables * NPT
  BY PagesMapped
<1>11. CASE KernelEnd < NPT
  <2>1. KernelTables * NPT = NPT
    BY <1>1, <1>9, <1>11
  <2> QED
    BY <1>1, <1>2, <1>3, <1>6, <1>7, <1>8, <1>10, <1>11, <2>1
<1>12. CASE ~(KernelEnd < NPT)
  BY <1>1, <1>2, <1>3, <1>6, <1>7, <1>8, <1>10, <1>12
<1> QED
  BY <1>2, <1>11, <1>12

(* The whole window of the adapter that update_screen writes is reachable, *)
(* since the second call links the directory its last page is in.          *)
LEMMA ScreenMapped ==
  ASSUME Image, Laid(AllDirs), NEW v \in PagesOf(vram.base, BufSize)
  PROVE  Translate(v) # NULL
<1>1. /\ PgSize \in Nat \ {0} /\ NPT \in Nat \ {0} /\ BufSize \in Nat
      /\ vram.base \in Nat /\ vram.size \in Nat /\ BufSize <= vram.size
  BY BootAssumption DEF Image
<1>2. /\ v \in 0..(VPages - 1) /\ v \in Nat
      /\ v * PgSize < vram.base + BufSize
      /\ (v + 1) * PgSize > vram.base
  BY <1>1, BootAssumption DEF PagesOf, VPages
<1>3. /\ VideoDir \in Nat /\ vram.base = (VideoDir * NPT) * PgSize /\ 1 <= VideoDir
      /\ KernelEnd \in Int /\ VideoTables \in Nat
      /\ VideoDir + VideoTables - 1 = VideoEnd \div NPT
  <2>1. VideoDir \in Nat /\ vram.base = VideoDir * (PgSize * NPT)
    BY VideoBase
  <2>2. VideoDir * (PgSize * NPT) = (VideoDir * NPT) * PgSize
    BY <1>1, <2>1
  <2> QED
    BY <2>1, <2>2, Geometry, ImageNumbers
<1>4. VideoDir * NPT <= v
  <2>1. v + 1 \in Int /\ VideoDir * NPT \in Int
    BY <1>1, <1>2, <1>3
  <2>2. VideoDir * NPT < v + 1
    BY <1>1, <1>2, <1>3, <2>1, MultiplesAscend
  <2> QED
    BY <1>2, <2>1, <2>2
<1>5. v <= VideoEnd
  <2>1. vram.base + vram.size \in Nat
    BY <1>1
  <2>2. /\ VideoEnd \in Nat
        /\ vram.base + vram.size < VideoEnd * PgSize + PgSize
    BY <1>1, <2>1, Quotient DEF VideoEnd
  <2>3. (VideoEnd + 1) * PgSize = VideoEnd * PgSize + PgSize
        /\ VideoEnd * PgSize \in Int /\ v * PgSize \in Int
    BY <1>1, <1>2, <2>2
  <2>4. v * PgSize < (VideoEnd + 1) * PgSize
    BY <1>1, <1>2, <2>2, <2>3
  <2>5. VideoEnd + 1 \in Int
    BY <2>2
  <2>6. v < VideoEnd + 1
    BY <1>1, <1>2, <2>4, <2>5, MultiplesAscend
  <2> QED
    BY <1>2, <2>2, <2>6
<1> DEFINE d == v \div NPT
           q == VideoEnd \div NPT
<1>6. d \in Nat /\ d * NPT <= v /\ v < d * NPT + NPT
  BY <1>1, <1>2, Quotient
<1>7. q \in Nat /\ q * NPT <= VideoEnd /\ VideoEnd < q * NPT + NPT /\ VideoEnd \in Nat
  BY <1>1, ImageNumbers, Quotient
<1>8. q = VideoDir + VideoTables - 1
  BY <1>3
<1> HIDE DEF d, q
<1>9. VideoDir <= d
  <2>1. (d + 1) * NPT = d * NPT + NPT /\ d * NPT \in Int /\ VideoDir * NPT \in Int
    BY <1>1, <1>3, <1>6
  <2>2. VideoDir * NPT < (d + 1) * NPT /\ d + 1 \in Int
    BY <1>1, <1>2, <1>4, <1>6, <2>1
  <2>3. VideoDir < d + 1
    BY <1>1, <1>3, <2>2, MultiplesAscend
  <2> QED
    BY <1>3, <1>6, <2>3
<1>10. d <= q
  <2>1. (q + 1) * NPT = q * NPT + NPT /\ d * NPT \in Int /\ q * NPT \in Int
    BY <1>1, <1>6, <1>7
  <2>2. d * NPT < (q + 1) * NPT /\ q + 1 \in Int
    BY <1>1, <1>2, <1>5, <1>6, <1>7, <2>1
  <2>3. d < q + 1
    BY <1>1, <1>6, <2>2, MultiplesAscend
  <2> QED
    BY <1>6, <1>7, <2>3
<1>11. d \in AllDirs
  BY <1>3, <1>6, <1>8, <1>9, <1>10 DEF AllDirs, VideoDirs
<1>12. ~(v < NPT)
  <2>1. 1 * NPT <= VideoDir * NPT
    BY <1>1, <1>3, MultiplesAscend
  <2>2. VideoDir * NPT \in Int
    BY <1>1, <1>3
  <2> QED
    BY <1>1, <1>2, <1>4, <2>1, <2>2
<1>13. Translate(v) = v
  BY <1>2, <1>11, <1>12, Translates DEF d
<1> QED
  BY <1>2, <1>13, PageAssumption

-----------------------------------------------------------------------------
(* What the steps have in common                                           *)

Fixed == <<end, vram, nr_kernel_page>>

(* The image and the adapter stay, and with them all that they determine.  *)
LEMMA FixedStay ==
  ASSUME UNCHANGED Fixed
  PROVE  /\ Image' = Image
         /\ KernelTables' = KernelTables /\ VideoTables' = VideoTables
         /\ VideoDir' = VideoDir /\ KernelEnd' = KernelEnd /\ VideoEnd' = VideoEnd
         /\ MappedPages' = MappedPages /\ PagesNeeded' = PagesNeeded
         /\ TablesReachable' = TablesReachable /\ WalkSafe' = WalkSafe
         /\ KernelDirs' = KernelDirs /\ VideoDirs' = VideoDirs /\ AllDirs' = AllDirs
         /\ \A d : TablePage(d)' = TablePage(d)
         /\ \A d, e : Mapped(d, e)' = Mapped(d, e)
<1>1. end' = end /\ vram' = vram /\ nr_kernel_page' = nr_kernel_page
  BY DEF Fixed
<1>2. KernelTables' = KernelTables /\ VideoTables' = VideoTables
  BY <1>1 DEF KernelTables, VideoTables
<1>3. VideoDir' = VideoDir /\ KernelEnd' = KernelEnd /\ VideoEnd' = VideoEnd
  BY <1>1 DEF VideoDir, KernelEnd, VideoEnd
<1>4. MappedPages' = MappedPages /\ PagesNeeded' = PagesNeeded
  BY <1>1, <1>2 DEF MappedPages, PagesNeeded
<1>5. TablesReachable' = TablesReachable /\ WalkSafe' = WalkSafe
  BY <1>1, <1>2, <1>4 DEF TablesReachable, WalkSafe
<1>6. KernelDirs' = KernelDirs /\ VideoDirs' = VideoDirs /\ AllDirs' = AllDirs
  BY <1>2, <1>3 DEF KernelDirs, VideoDirs, AllDirs
<1>7. \A d : TablePage(d)' = TablePage(d)
  BY <1>1, <1>2, <1>3 DEF TablePage
<1>8. \A d, e : Mapped(d, e)' = Mapped(d, e)
  BY <1>3 DEF Mapped
<1>9. Image' = Image
  BY <1>1 DEF Image
<1> QED
  BY <1>2, <1>3, <1>4, <1>5, <1>6, <1>7, <1>8, <1>9

(* What has been laid stays when nothing is written over it.               *)
LEMMA LaidStays ==
  ASSUME Image, UNCHANGED Fixed, NEW L \in SUBSET AllDirs, Laid(L),
         kpgdir' = kpgdir,
         ListTop' \in Nat, ListTop \in 0..NPages, ListTop <= ListTop',
         \A p \in Pages : owners[p] = 1
             /\ p <= nr_kernel_page + KernelTables + VideoTables => owners'[p] = 1,
         table'[kpgdir] = table[kpgdir],
         \A d \in L : table'[TablePage(d)] = table[TablePage(d)]
  PROVE  Laid(L)'
<1>1. /\ nr_kernel_page' = nr_kernel_page
      /\ \A d : TablePage(d)' = TablePage(d)
      /\ \A d, e : Mapped(d, e)' = Mapped(d, e)
  BY FixedStay DEF Fixed
<1>2. nr_kernel_page \in Nat /\ KernelTables \in Nat /\ VideoTables \in Nat
  BY ImageNumbers, Geometry
<1>3. \A d \in L : /\ TablePage(d) \in Pages /\ TablePage(d) \in Nat
                   /\ TablePage(d) <= nr_kernel_page + KernelTables + VideoTables
  <2>1. ASSUME NEW d \in L PROVE TablePage(d) \in Nat /\ TablePage(d) < NPages
    BY TablePages, PageAssumption DEF Laid
  <2> QED
    BY <2>1, TablePages, PageAssumption DEF Pages
<1>4. owners'[kpgdir'] = 1
  <2>1. kpgdir \in Pages
    BY ImageNumbers, PageAssumption DEF Laid, Pages
  <2> QED
    BY <1>2, <2>1 DEF Laid
<1>5. \A d \in Entries : table'[kpgdir'][d] = IF d \in L THEN TablePage(d)' ELSE NULL
  BY <1>1 DEF Laid
<1>6. \A d \in L : /\ owners'[TablePage(d)'] = 1
                   /\ TablePage(d)' < ListTop'
                   /\ \A e \in Entries : table'[TablePage(d)'][e] = Mapped(d, e)'
  BY <1>1, <1>2, <1>3 DEF Laid
<1> QED
  BY <1>1, <1>4, <1>5, <1>6 DEF Laid

(* What is linked are directories of the two calls.                        *)
LEMMA DoneDirs ==
  ASSUME Image, Progress, pc \in Labels
  PROVE  /\ Done \subseteq AllDirs
         /\ InLoop => job.dir \in AllDirs /\ job.dir \notin Done
         /\ pg => KernelDirs \subseteq Done \/ ~InLoop
<1>1. /\ KernelTables \in Nat /\ KernelTables <= VideoDir /\ VideoDir \in Nat
      /\ VideoTables \in Nat
  BY Geometry
<1>2. CASE InLoop
  <2>1. Job
    BY <1>2 DEF Progress
  <2>2. CASE pg
    <3>1. Done = KernelDirs \cup VideoDir..(job.dir - 1)
      BY <1>2, <2>2 DEF Done, InLoop
    <3>2. job.dir \in VideoDir..(VideoDir + VideoTables - 1)
      BY <2>1, <2>2 DEF Job
    <3> QED
      BY <1>1, <3>1, <3>2 DEF AllDirs, KernelDirs, VideoDirs
  <2>3. CASE ~pg
    <3>1. Done = 0..(job.dir - 1)
      BY <1>2, <2>3 DEF Done, InLoop
    <3>2. job.dir \in 0..(KernelTables - 1)
      BY <2>1, <2>3 DEF Job
    <3> QED
      BY <1>1, <2>3, <3>1, <3>2 DEF AllDirs, KernelDirs
  <2> QED
    BY <2>2, <2>3
<1>3. CASE ~InLoop
  <2>1. Done \in {{}, KernelDirs, AllDirs}
    BY <1>3 DEF Done
  <2> QED
    BY <1>3, <2>1 DEF AllDirs
<1> QED
  BY <1>2, <1>3

(* The tables that are linked hold what the properties say.                *)
LEMMA Maps ==
  Image /\ Progress /\ pc \in Labels => IdentityMap /\ TablesOwned
<1> SUFFICES ASSUME Image, Progress, pc \in Labels
             PROVE  IdentityMap /\ TablesOwned
  OBVIOUS
<1>1. CASE pc \in {"pgdir", "clearDir"}
  <2>1. ~pg
    BY <1>1 DEF Progress, Paging, InLoop, AfterVideo
  <2> QED
    BY <2>1 DEF IdentityMap, TablesOwned
<1>2. CASE pc \notin {"pgdir", "clearDir"}
  <2> PICK L : L = Done
    OBVIOUS
  <2>1. L \in SUBSET AllDirs
    BY DoneDirs
  <2>2. Laid(L)
    BY <1>2 DEF Progress
  <2> QED
    BY <2>1, <2>2, LaidIdentity, LaidOwned
<1> QED
  BY <1>1, <1>2

(* How a step preserves the invariant.                                     *)
LEMMA Reaches ==
  ASSUME BootIInv, UNCHANGED Fixed,
         IInv', BootTyped', Progress', pc' # "derailed",
         pc' \in AfterVideo => TablesReachable,
         panic' = panic
           \/ (panic' = "nofree" /\ PagesNeeded > NPages)
  PROVE  BootIInv'
<1>1. /\ Image' = Image
      /\ TablesReachable' = TablesReachable /\ WalkSafe' = WalkSafe
      /\ PagesNeeded' = PagesNeeded
  BY FixedStay
<1>2. Image'
  BY <1>1 DEF BootIInv
<1>3. (Image /\ Progress /\ pc \in Labels => IdentityMap /\ TablesOwned)'
  BY Maps, PTL
<1>4. IdentityMap' /\ TablesOwned'
  BY <1>2, <1>3 DEF BootTyped, BootTypeOK
<1>5. BootOutcome'
  BY <1>1 DEF BootIInv, BootOutcome
<1> QED
  BY <1>2, <1>4, <1>5 DEF BootIInv

(* The pages that alloc_page gives.                                        *)
LEMMA Given ==
  ASSUME IInv, AllocPage
  PROVE  /\ FrameOf(free_page_list) = ListTop
         /\ ListTop \in Pages /\ ListTop \in Nat
         /\ ListTop' = ListTop + 1
         /\ owners'[ListTop] = 1
         /\ \A p \in Pages : owners[p] = 1 => owners'[p] = 1
         /\ nr_kernel_page' = nr_kernel_page
         /\ panic' = panic
         /\ IInv' /\ TypeOK'
<1>1. /\ ListTop = free_page_list /\ ListTop \in Pages /\ FrameOf(ListTop) = ListTop
      /\ nr_kernel_page' = nr_kernel_page /\ ListTop' = ListTop + 1
  BY UnlinkTop DEF AllocPage
<1>2. /\ IInv' /\ owners' = [owners EXCEPT ![ListTop] = 1]
      /\ panic = "none" /\ panic' = "none"
  BY AllocIInv
<1>3. owners \in [Pages -> Nat] /\ TypeOK'
  BY <1>2 DEF IInv, TypeOK
<1>4. ListTop \in Nat
  BY <1>1, PageAssumption DEF Pages
<1>5. \A p \in Pages : owners[p] = 1 => owners'[p] = 1
  BY <1>2, <1>3
<1> QED
  BY <1>1, <1>2, <1>3, <1>4, <1>5

-----------------------------------------------------------------------------
(* The boot path, statement by statement                                   *)

(* When main begins, paging is off and nothing is laid.                    *)
LEMMA BootInitIInv == BootInit => BootIInv
<1> SUFFICES ASSUME BootInit PROVE BootIInv
  OBVIOUS
<1>1. /\ Init /\ pc = "pgdir" /\ kpgdir = 0 /\ pg = FALSE /\ job = Blank
      /\ frame_buf = <<>> /\ page = NULL /\ logged = 0
  BY DEF BootInit
<1>2. IInv
  BY <1>1, InitIInv
<1>3. Image
  BY DEF BootInit, Image
<1>4. nr_kernel_page \in Nat /\ ListTop = nr_kernel_page
  BY <1>1, <1>3, ImageNumbers, PageAssumption DEF Init, ListTop
<1>5. BootTyped
  <2>1. table \in [Pages -> [Entries -> Entry]]
    <3>1. 0 \in Entry /\ NULL \in Entry
      BY BootAssumption DEF Entry, VPages
    <3> QED
      BY <3>1 DEF BootInit
  <2>2. /\ 0 \in Pages /\ 0 \in 0..(NPD - 1) /\ 0 \in 0..WalkPages
        /\ 0 <= TestPages
    BY BootAssumption, PageAssumption DEF Pages
  <2>5. frame_buf \in Seq(Pages) /\ Len(frame_buf) <= TestPages
    BY <1>1, <2>2
  <2>3. job \in Jobs /\ job.tab = 0 /\ job.dir = 0
    BY <1>1 DEF Blank, Jobs
  <2>4. TypeOK
    BY <1>2 DEF IInv
  <2> QED
    BY <1>1, <2>1, <2>2, <2>3, <2>4, <2>5 DEF BootTyped, BootTypeOK, Labels
<1>6. Progress
  <2>1. ~Paging /\ ~InLoop /\ Taken = 0
    BY <1>1 DEF Paging, AfterVideo, InLoop, Taken
  <2>2. Testing
    BY <1>1 DEF Testing
  <2> QED
    BY <1>1, <1>4, <2>1, <2>2 DEF Progress
<1>7. BootOutcome
  BY <1>1 DEF BootOutcome, AfterVideo, Init
<1>8. IdentityMap /\ TablesOwned
  BY <1>1 DEF IdentityMap, TablesOwned
<1> QED
  BY <1>1, <1>2, <1>3, <1>5, <1>6, <1>7, <1>8 DEF BootIInv

(* init_page: the first page after the image becomes the directory.        *)
LEMMA GetPgdirIInv == BootIInv /\ GetPgdir => BootIInv'
<1> SUFFICES ASSUME BootIInv, GetPgdir PROVE BootIInv'
  OBVIOUS
<1>1. /\ pc = "pgdir" /\ AllocPage /\ kpgdir' = FrameOf(free_page_list)
      /\ pc' = "clearDir"
      /\ UNCHANGED <<end, pg, table, job, vram, frame_buf, page, logged>>
  BY DEF GetPgdir, Running, test_locals
<1>2. IInv /\ Image /\ BootTyped /\ Progress
  BY <1>1 DEF BootIInv
<1>3. /\ kpgdir' = ListTop /\ ListTop \in Pages /\ ListTop' = ListTop + 1
      /\ owners'[ListTop] = 1
      /\ nr_kernel_page' = nr_kernel_page /\ panic' = panic /\ IInv' /\ TypeOK'
  BY <1>1, <1>2, Given
<1>4. nr_kernel_page \in Nat /\ ListTop = nr_kernel_page
  <2>1. Taken = 0
    BY <1>1 DEF Taken, InLoop
  <2> QED
    BY <1>2, <2>1, ImageNumbers DEF Progress
<1>5. UNCHANGED Fixed
  BY <1>1, <1>3 DEF Fixed
<1>6. BootTyped'
  BY <1>1, <1>2, <1>3 DEF BootTyped, BootTypeOK, Labels
<1>7. Progress'
  <2>1. ~Paging /\ ~Paging' /\ ~InLoop' /\ Taken' = 1
    BY <1>1 DEF Paging, AfterVideo, InLoop, Taken
  <2>2. ~pg /\ ~pg'
    BY <1>1, <1>2, <2>1 DEF Progress
  <2>3. Testing'
    BY <1>1, <1>2 DEF Progress, Testing
  <2> QED
    BY <1>1, <1>3, <1>4, <2>1, <2>2, <2>3 DEF Progress
<1> QED
  BY <1>1, <1>3, <1>5, <1>6, <1>7, Reaches DEF AfterVideo

(* The calls of mm_continous_map begin with these directories.             *)
LEMMA FirstJob ==
  ASSUME Image
  PROVE  MapJob(0, 0, end, "enable") =
           [dir |-> 0, last |-> KernelTables - 1, mapEnd |-> KernelEnd,
            vframe |-> 0, tab |-> 0, ret |-> "enable"]
<1>1. PgSize \in Nat \ {0} /\ end \in Nat /\ NPT \in Nat \ {0}
  BY ImageNumbers, BootAssumption
<1>2. RoundUp(0) = 0
  <2>1. (0 + PgSize - 1) \div PgSize = 0
    <3>1. 0 + PgSize - 1 \in Nat
      BY <1>1
    <3> QED
      BY <1>1, <3>1, QuotientIs
  <2> QED
    BY <1>1, <2>1 DEF RoundUp
<1>3. 0 + end = end
  BY <1>1
<1>4. DirIdx(0) = 0 /\ 0 \div PgSize = 0
  <2>1. 0 \div PgSize = 0 /\ 0 \div NPT = 0
    BY <1>1, QuotientIs
  <2> QED
    BY <2>1, PageOf
<1>5. RoundDown(end) \div PgSize = KernelEnd /\ DirIdx(RoundDown(end)) = KernelTables - 1
  BY <1>1, PageOf, Geometry DEF KernelEnd
<1> QED
  BY <1>2, <1>3, <1>4, <1>5 DEF MapJob

LEMMA SecondJob ==
  ASSUME Image
  PROVE  MapJob(vram.base, vram.base, vram.size, "test") =
           [dir |-> VideoDir, last |-> VideoDir + VideoTables - 1, mapEnd |-> VideoEnd,
            vframe |-> VideoDir * NPT, tab |-> 0, ret |-> "test"]
<1>1. vram.base \in Nat /\ vram.base + vram.size \in Nat
  BY ImageNumbers
<1>2. RoundUp(vram.base) = vram.base /\ vram.base \div PgSize = VideoDir * NPT
  BY VideoBase
<1>3. /\ RoundDown(vram.base + vram.size) \div PgSize = VideoEnd
      /\ DirIdx(RoundDown(vram.base + vram.size)) = VideoDir + VideoTables - 1
  BY <1>1, PageOf, Geometry DEF VideoEnd
<1> QED
  BY <1>2, <1>3 DEF MapJob, VideoDir

(* The directory is cleared; the first call of mm_continous_map begins.    *)
LEMMA ClearDirIInv == BootIInv /\ ClearDir => BootIInv'
<1> SUFFICES ASSUME BootIInv, ClearDir PROVE BootIInv'
  OBVIOUS
<1>1. /\ pc = "clearDir"
      /\ table' = [table EXCEPT ![Phys(kpgdir)] = Cleared]
      /\ job' = MapJob(0, 0, end, "enable")
      /\ pc' = "tab"
      /\ UNCHANGED <<vars, end, kpgdir, pg, vram, frame_buf, page, logged>>
  BY DEF ClearDir, Running, test_locals
<1>2. IInv /\ Image /\ BootTyped /\ Progress
  BY <1>1 DEF BootIInv
<1>3. /\ UNCHANGED Fixed /\ IInv' /\ ListTop' = ListTop /\ owners' = owners
      /\ panic' = panic /\ TypeOK'
  <2>1. IInv'
    BY <1>1, <1>2, NextIInv
  <2> QED
    BY <1>1, <2>1 DEF Fixed, vars, ListTop, IInv
<1>4. ~pg /\ ~pg' /\ Phys(kpgdir) = kpgdir
  <2>1. ~Paging
    BY <1>1 DEF Paging, AfterVideo, InLoop
  <2> QED
    BY <1>1, <1>2, <2>1 DEF Progress, Phys
<1>5. /\ nr_kernel_page \in Nat /\ ListTop = nr_kernel_page + 1
      /\ kpgdir = nr_kernel_page /\ owners[kpgdir] = 1
      /\ kpgdir \in Pages
  <2>1. Taken = 1
    BY <1>1 DEF Taken, InLoop
  <2> QED
    BY <1>1, <1>2, <2>1, ImageNumbers DEF Progress, BootTyped, BootTypeOK
<1>6. /\ job'.dir = 0 /\ job'.last = KernelTables - 1 /\ job'.mapEnd = KernelEnd
      /\ job'.vframe = 0 /\ job'.tab = 0 /\ job'.ret = "enable"
      /\ job' \in Jobs
  BY <1>1, <1>2, FirstJob, Geometry, ImageNumbers DEF Jobs
<1>7. BootTyped'
  <2>1. Cleared \in [Entries -> Entry]
    BY DEF Cleared, Entry
  <2>2. table' \in [Pages -> [Entries -> Entry]]
    BY <1>1, <1>2, <1>4, <1>5, <2>1 DEF BootTyped, BootTypeOK
  <2>3. 0 \in Pages /\ 0 \in 0..(NPD - 1)
    BY PageAssumption, BootAssumption DEF Pages
  <2> QED
    BY <1>1, <1>2, <1>3, <1>6, <2>2, <2>3 DEF BootTyped, BootTypeOK, Labels
<1>8. Progress'
  <2>1. InLoop' /\ ~Paging'
    BY <1>1, <1>6 DEF Paging, AfterVideo, InLoop
  <2>2. /\ KernelTables' = KernelTables /\ KernelEnd' = KernelEnd
        /\ \A d : TablePage(d)' = TablePage(d)
        /\ KernelTables \in Nat /\ 1 <= KernelTables /\ NPT \in Nat
    BY <1>2, <1>3, FixedStay, Geometry
  <2>3. Taken' = 1
    <3>1. TablePage(0) = nr_kernel_page + 1
      BY <1>5, <2>2 DEF TablePage
    <3>2. TablePage(job.dir)' = TablePage(0)
      BY <1>6, <2>2
    <3>3. Taken' = TablePage(job.dir)' - nr_kernel_page' + 0
      BY <1>1, <2>1 DEF Taken, InLoop
    <3> QED
      BY <1>3, <1>5, <2>2, <3>1, <3>2, <3>3 DEF Fixed
  <2>4. Laid(Done)'
    <3>1. \A d : d \notin Done'
      BY <1>1, <1>4, <1>6, <2>1 DEF Done, InLoop
    <3>2. \A d \in Entries : table'[kpgdir'][d] = NULL
      BY <1>1, <1>2, <1>4, <1>5 DEF BootTyped, BootTypeOK, Cleared
    <3> QED
      BY <1>1, <1>3, <1>5, <3>1, <3>2 DEF Laid, Fixed
  <2>5. Job' /\ Turn'
    <3>1. Job'
      BY <1>4, <1>6, <2>2 DEF Job
    <3>2. Turn'
      BY <1>1, <1>4, <1>6, <2>2 DEF Turn
    <3> QED
      BY <3>1, <3>2
  <2>6. Testing'
    BY <1>1, <1>2 DEF Progress, Testing
  <2> QED
    BY <1>1, <1>3, <1>4, <1>5, <2>1, <2>3, <2>4, <2>5, <2>6 DEF Progress, Fixed
<1> QED
  BY <1>1, <1>3, <1>7, <1>8, Reaches DEF AfterVideo

(* The loop of mm_continous_map: where it is, and that the page of the     *)
(* table at hand is neither the directory nor another table.               *)
LEMMA LoopFacts ==
  ASSUME BootIInv, InLoop
  PROVE  /\ IInv /\ Image /\ BootTyped /\ Progress /\ Job /\ Turn /\ Laid(Done)
         /\ Done \in SUBSET AllDirs /\ job.dir \in AllDirs /\ job.dir \notin Done
         /\ pg => KernelDirs \subseteq Done
         /\ job.dir \in Nat /\ job.dir \in Entries /\ job.dir < NPD
         /\ kpgdir = nr_kernel_page /\ kpgdir \in Pages /\ kpgdir \in Nat
         /\ TablePage(job.dir) \in Nat /\ kpgdir # TablePage(job.dir)
         /\ TablePage(job.dir) <= nr_kernel_page + KernelTables + VideoTables
         /\ ListTop = TablePage(job.dir) + (IF pc = "tab" THEN 0 ELSE 1)
         /\ \A d \in Done : TablePage(d) # TablePage(job.dir)
<1>1. IInv /\ Image /\ BootTyped /\ Progress
  BY DEF BootIInv, InLoop
<1>2. Job /\ Turn /\ Laid(Done)
  BY <1>1 DEF Progress, InLoop
<1>3. /\ Done \in SUBSET AllDirs /\ job.dir \in AllDirs /\ job.dir \notin Done
      /\ pg => KernelDirs \subseteq Done
  BY <1>1, DoneDirs DEF BootTyped, BootTypeOK
<1>4. /\ job.dir \in Nat /\ job.dir \in Entries /\ job.dir < NPD
      /\ TablePage(job.dir) \in Nat /\ nr_kernel_page < TablePage(job.dir)
      /\ TablePage(job.dir) <= nr_kernel_page + KernelTables + VideoTables
      /\ \A c \in AllDirs : TablePage(c) = TablePage(job.dir) => c = job.dir
  BY <1>1, <1>3, TablePages
<1>5. nr_kernel_page \in Nat /\ kpgdir = nr_kernel_page /\ kpgdir \in Pages
  BY <1>1, <1>2, ImageNumbers DEF Laid, BootTyped, BootTypeOK
<1>6. Taken = TablePage(job.dir) - nr_kernel_page + (IF pc = "tab" THEN 0 ELSE 1)
  BY DEF Taken, InLoop
<1>7. ListTop = TablePage(job.dir) + (IF pc = "tab" THEN 0 ELSE 1)
  BY <1>1, <1>4, <1>5, <1>6 DEF Progress
<1> QED
  BY <1>1, <1>2, <1>3, <1>4, <1>5, <1>7

(* What main can write it writes where it means to.                        *)
LEMMA Reached ==
  ASSUME BootIInv, InLoop, NEW p \in Pages, Phys(p) # NULL
  PROVE  Phys(p) = p /\ (pg => p < MappedPages)
<1>1. CASE ~pg
  BY <1>1 DEF Phys
<1>2. CASE pg
  <2> PICK L : L = Done
    OBVIOUS
  <2>1. Image /\ L \in SUBSET AllDirs /\ KernelDirs \subseteq L /\ Laid(L)
    BY <1>2, LoopFacts
  <2>2. Translate(p) = IF p < MappedPages THEN p ELSE NULL
    BY <2>1, RamMapped
  <2> QED
    BY <1>2, <2>2 DEF Phys
<1> QED
  BY <1>1, <1>2

LEMMA AllocTabIInv == BootIInv /\ AllocTab => BootIInv'
<1> SUFFICES ASSUME BootIInv, AllocTab PROVE BootIInv'
  OBVIOUS
<1>1. /\ pc = "tab" /\ AllocPage
      /\ job' = [job EXCEPT !.tab = FrameOf(free_page_list)]
      /\ pc' = "clearTab"
      /\ UNCHANGED <<end, kpgdir, pg, table, vram, frame_buf, page, logged>>
      /\ InLoop /\ InLoop'
  BY DEF AllocTab, Running, test_locals, InLoop
<1>2. /\ IInv /\ Image /\ BootTyped /\ Progress /\ Job /\ Turn /\ Laid(Done)
      /\ Done \in SUBSET AllDirs
      /\ TablePage(job.dir) \in Nat /\ ListTop = TablePage(job.dir)
  BY <1>1, LoopFacts
<1>3. /\ FrameOf(free_page_list) = ListTop /\ ListTop \in Pages
      /\ ListTop' = ListTop + 1
      /\ owners'[ListTop] = 1
      /\ \A p \in Pages : owners[p] = 1 => owners'[p] = 1
      /\ nr_kernel_page' = nr_kernel_page /\ panic' = panic /\ IInv' /\ TypeOK'
  BY <1>1, <1>2, Given
<1>4. UNCHANGED Fixed
  BY <1>1, <1>3 DEF Fixed
<1>5. /\ job' \in Jobs /\ job'.tab = ListTop /\ job'.dir = job.dir
      /\ job'.last = job.last /\ job'.mapEnd = job.mapEnd
      /\ job'.vframe = job.vframe /\ job'.ret = job.ret
  BY <1>1, <1>2, <1>3 DEF BootTyped, Jobs
<1>6. /\ \A d : TablePage(d)' = TablePage(d)
      /\ VideoDir' = VideoDir /\ KernelTables' = KernelTables /\ VideoTables' = VideoTables
      /\ KernelEnd' = KernelEnd /\ VideoEnd' = VideoEnd /\ MappedPages' = MappedPages
      /\ KernelDirs' = KernelDirs /\ AllDirs' = AllDirs
  BY <1>4, FixedStay
<1>7. BootTyped'
  BY <1>1, <1>2, <1>3, <1>5 DEF BootTyped, BootTypeOK, Labels
<1>8. Progress'
  <2>1. Paging' <=> Paging
    BY <1>1, <1>5 DEF Paging, AfterVideo
  <2>2. Laid(Done)'
    <3> PICK L : L = Done
      OBVIOUS
    <3>1. Done' = L
      BY <1>1, <1>5, <1>6 DEF Done, InLoop
    <3>2. ListTop \in 0..NPages /\ ListTop' \in Nat /\ ListTop <= ListTop'
      BY <1>2, <1>3, PageAssumption DEF Pages
    <3>3. Laid(L)'
      BY <1>1, <1>2, <1>3, <1>4, <3>2, LaidStays
    <3> QED
      BY <3>1, <3>3
  <2>3. ListTop' = nr_kernel_page' + Taken'
    <3>1. Taken' = TablePage(job.dir) - nr_kernel_page + 1
      BY <1>1, <1>4, <1>5, <1>6 DEF Taken, InLoop, Fixed
    <3> QED
      BY <1>2, <1>3, <3>1, ImageNumbers
  <2>4. Job'
    BY <1>1, <1>2, <1>5, <1>6 DEF Job
  <2>5. Turn'
    BY <1>1, <1>2, <1>3, <1>5, <1>6 DEF Turn
  <2>6. Testing'
    BY <1>1, <1>2, <1>4, <1>6 DEF Progress, Testing
  <2> QED
    BY <1>1, <1>2, <2>1, <2>2, <2>3, <2>4, <2>5, <2>6 DEF Progress
<1> QED
  BY <1>1, <1>3, <1>4, <1>7, <1>8, Reaches DEF AfterVideo

LEMMA ClearTabIInv == BootIInv /\ ClearTab => BootIInv'
<1> SUFFICES ASSUME BootIInv, ClearTab PROVE BootIInv'
  OBVIOUS
<1>1. /\ pc = "clearTab" /\ Phys(job.tab) # NULL
      /\ table' = [table EXCEPT ![Phys(job.tab)] = Cleared]
      /\ pc' = "fill"
      /\ UNCHANGED <<vars, end, kpgdir, pg, job, vram, frame_buf, page, logged>>
      /\ InLoop /\ InLoop'
  BY DEF ClearTab, Running, Touched, test_locals, InLoop
<1>2. /\ IInv /\ Image /\ BootTyped /\ Progress /\ Job /\ Turn /\ Laid(Done)
      /\ Done \in SUBSET AllDirs
      /\ kpgdir # TablePage(job.dir)
      /\ TablePage(job.dir) \in Nat /\ ListTop = TablePage(job.dir) + 1
      /\ \A d \in Done : TablePage(d) # TablePage(job.dir)
  BY <1>1, LoopFacts
<1>3. /\ job.tab = TablePage(job.dir) /\ owners[job.tab] = 1 /\ job.tab \in Pages
      /\ Phys(job.tab) = job.tab /\ (pg => job.tab < MappedPages)
  <2>1. job.tab = TablePage(job.dir) /\ owners[job.tab] = 1 /\ job.tab \in Pages
    BY <1>1, <1>2 DEF Turn, BootTyped, BootTypeOK
  <2> QED
    BY <1>1, <2>1, Reached
<1>4. /\ UNCHANGED Fixed /\ IInv' /\ ListTop' = ListTop /\ owners' = owners
      /\ panic' = panic /\ TypeOK' /\ ListTop \in 0..NPages
  <2>1. IInv'
    BY <1>1, <1>2, NextIInv
  <2> QED
    BY <1>1, <1>2, <2>1, ImageNumbers DEF Fixed, vars, ListTop, IInv
<1>5. /\ table'[job.tab] = Cleared
      /\ \A p \in Pages : p # job.tab => table'[p] = table[p]
      /\ table' \in [Pages -> [Entries -> Entry]]
  <2>1. Cleared \in [Entries -> Entry]
    BY DEF Cleared, Entry
  <2> QED
    BY <1>1, <1>2, <1>3, <2>1 DEF BootTyped, BootTypeOK
<1>6. /\ \A d : TablePage(d)' = TablePage(d)
      /\ VideoDir' = VideoDir /\ KernelTables' = KernelTables /\ VideoTables' = VideoTables
      /\ KernelEnd' = KernelEnd /\ VideoEnd' = VideoEnd /\ MappedPages' = MappedPages
      /\ KernelDirs' = KernelDirs /\ AllDirs' = AllDirs
  BY <1>4, FixedStay
<1>7. BootTyped'
  BY <1>1, <1>2, <1>4, <1>5 DEF BootTyped, BootTypeOK, Labels
<1>8. Progress'
  <2>1. Paging' <=> Paging
    BY <1>1 DEF Paging, AfterVideo
  <2>2. Laid(Done)'
    <3> PICK L : L = Done
      OBVIOUS
    <3>1. Done' = L
      BY <1>1, <1>6 DEF Done, InLoop
    <3>2. ListTop \in 0..NPages /\ ListTop' \in Nat /\ ListTop <= ListTop'
      BY <1>2, <1>4
    <3>3. \A d \in L : TablePage(d) \in Pages
      BY <1>2, <1>4, TablePages, PageAssumption DEF Laid, Pages
    <3>4. \A d \in L : table'[TablePage(d)] = table[TablePage(d)]
      BY <1>2, <1>3, <1>5, <3>3
    <3>5. table'[kpgdir] = table[kpgdir]
      BY <1>2, <1>3, <1>5 DEF BootTyped, BootTypeOK
    <3>6. Laid(L)'
      BY <1>1, <1>2, <1>4, <3>2, <3>4, <3>5, LaidStays
    <3> QED
      BY <3>1, <3>6
  <2>3. ListTop' = nr_kernel_page' + Taken'
    <3>1. Taken' = Taken
      BY <1>1, <1>4, <1>6 DEF Taken, InLoop, Fixed
    <3> QED
      BY <1>2, <1>4, <3>1 DEF Progress, Fixed
  <2>4. Job'
    BY <1>1, <1>2, <1>6 DEF Job
  <2>5. Turn'
    BY <1>1, <1>2, <1>3, <1>4, <1>5, <1>6 DEF Turn
  <2>6. Testing'
    BY <1>1, <1>2, <1>4, <1>6 DEF Progress, Testing
  <2> QED
    BY <1>1, <1>2, <2>1, <2>2, <2>3, <2>4, <2>5, <2>6 DEF Progress
<1> QED
  BY <1>1, <1>4, <1>7, <1>8, Reaches DEF AfterVideo

(* What the loop over the entries leaves in the table: in the first call's *)
(* first table the pages up to the end of the image, in all others every   *)
(* page.                                                                   *)
LEMMA FilledIs ==
  ASSUME BootIInv, InLoop
  PROVE  /\ job.dir = 0 => Filled = {e \in Entries : e < KernelEnd}
         /\ job.dir # 0 => Filled = Entries
         /\ job.dir < job.last => Filled = Entries
         /\ Cardinality(Filled) \in Nat
         /\ Cardinality(Entries) = NPT
<1>1. /\ Image /\ Job
      /\ job.dir \in Nat
  BY LoopFacts
<1>2. /\ NPT \in Nat \ {0} /\ KernelTables \in Nat /\ KernelTables <= VideoDir /\ VideoDir \in Nat
      /\ 1 <= KernelTables /\ KernelEnd \in Nat /\ VideoEnd \in Nat
      /\ (KernelTables - 1) * NPT <= KernelEnd /\ VideoDir * NPT <= VideoEnd
  BY <1>1, Geometry, ImageNumbers, VideoBase
<1>3. 2 <= KernelTables => NPT <= KernelEnd
  <2>1. 2 <= KernelTables => 1 * NPT <= (KernelTables - 1) * NPT
    BY <1>2, MultiplesAscend
  <2>2. (KernelTables - 1) * NPT \in Int
    BY <1>2
  <2> QED
    BY <1>2, <2>1, <2>2
<1>4. NPT <= VideoEnd
  <2>1. 1 * NPT <= VideoDir * NPT
    BY <1>2, MultiplesAscend
  <2>2. VideoDir * NPT \in Int
    BY <1>2
  <2> QED
    BY <1>2, <2>1, <2>2
<1>5. \A e \in Entries : e \in Int /\ e < NPT
  BY <1>2 DEF Entries
<1>6. /\ job.dir = 0 => ~pg /\ job.mapEnd = KernelEnd
      /\ job.dir # 0 => NPT <= job.mapEnd
      /\ job.dir < job.last => NPT <= job.mapEnd
      /\ job.mapEnd \in Int
  <2>1. CASE pg
    <3>1. job.dir >= VideoDir /\ job.mapEnd = VideoEnd
      BY <1>1, <2>1 DEF Job
    <3> QED
      BY <1>1, <1>2, <1>4, <2>1, <3>1
  <2>2. CASE ~pg
    <3>1. /\ job.dir \in 0..(KernelTables - 1) /\ job.mapEnd = KernelEnd
          /\ job.last = KernelTables - 1
      BY <1>1, <2>2 DEF Job
    <3> QED
      BY <1>1, <1>2, <1>3, <2>2, <3>1
  <2> QED
    BY <2>1, <2>2
<1>7. NPT <= job.mapEnd => Filled = Entries
  BY <1>2, <1>5, <1>6 DEF Filled
<1>8. job.dir = 0 => Filled = {e \in Entries : e < KernelEnd}
  BY <1>6 DEF Filled
<1>9. Cardinality(Filled) \in Nat /\ Cardinality(Entries) = NPT
  <2>1. 0 \in Int /\ NPT - 1 \in Int
    BY <1>2
  <2>2. IsFiniteSet(Entries) /\ Cardinality(Entries) = NPT
    <3>1. /\ IsFiniteSet(0..(NPT - 1))
          /\ Cardinality(0..(NPT - 1)) = IF 0 > NPT - 1 THEN 0 ELSE NPT - 1 - 0 + 1
      BY <2>1, FS_Interval
    <3> QED
      BY <1>2, <3>1 DEF Entries
  <2>3. Filled \subseteq Entries
    BY DEF Filled
  <2>4. IsFiniteSet(Filled)
    BY <2>2, <2>3, FS_Subset
  <2> QED
    BY <2>2, <2>4, FS_CardinalityType
<1> QED
  BY <1>6, <1>7, <1>8, <1>9

LEMMA FillIInv == BootIInv /\ Fill => BootIInv'
<1> SUFFICES ASSUME BootIInv, Fill PROVE BootIInv'
  OBVIOUS
<1> DEFINE row == [e \in Entries |-> IF e \in Filled THEN (job.vframe + e) % VPages
                                     ELSE table[job.tab][e]]
<1>1. /\ pc = "fill" /\ Phys(job.tab) # NULL
      /\ pc' = "link"
      /\ job' = [job EXCEPT !.vframe = @ + Cardinality(Filled)]
      /\ UNCHANGED <<vars, end, kpgdir, pg, vram, frame_buf, page, logged>>
      /\ InLoop /\ InLoop'
  BY DEF Fill, Running, Touched, test_locals, InLoop
<1>2. /\ IInv /\ Image /\ BootTyped /\ Progress /\ Job /\ Turn /\ Laid(Done)
      /\ Done \in SUBSET AllDirs
      /\ job.dir \in Nat /\ job.dir < NPD
      /\ kpgdir # TablePage(job.dir)
      /\ TablePage(job.dir) \in Nat /\ ListTop = TablePage(job.dir) + 1
      /\ \A d \in Done : TablePage(d) # TablePage(job.dir)
  BY <1>1, LoopFacts
<1>3. /\ job.tab = TablePage(job.dir) /\ owners[job.tab] = 1 /\ job.tab \in Pages
      /\ Phys(job.tab) = job.tab /\ (pg => job.tab < MappedPages)
      /\ table[job.tab] = Cleared /\ job.vframe = job.dir * NPT
  <2>1. /\ job.tab = TablePage(job.dir) /\ owners[job.tab] = 1 /\ job.tab \in Pages
        /\ table[job.tab] = Cleared /\ job.vframe = job.dir * NPT
    BY <1>1, <1>2 DEF Turn, BootTyped, BootTypeOK
  <2> QED
    BY <1>1, <2>1, Reached
<1>4. /\ UNCHANGED Fixed /\ IInv' /\ ListTop' = ListTop /\ owners' = owners
      /\ panic' = panic /\ TypeOK' /\ ListTop \in 0..NPages
  <2>1. IInv'
    BY <1>1, <1>2, NextIInv
  <2> QED
    BY <1>1, <1>2, <2>1, ImageNumbers DEF Fixed, vars, ListTop, IInv
<1>5. /\ \A e \in Entries : row[e] = Mapped(job.dir, e)
      /\ row \in [Entries -> Entry]
  <2>1. /\ NPT \in Nat \ {0} /\ NPD \in Nat \ {0} /\ VPages = NPD * NPT
        /\ VPages \in Nat \ {0} /\ KernelEnd \in Nat
    BY <1>2, BootAssumption, ImageNumbers DEF VPages
  <2>2. ASSUME NEW e \in Entries
        PROVE  /\ e \in Nat /\ job.dir * NPT + e \in 0..(VPages - 1)
               /\ (job.vframe + e) % VPages = job.dir * NPT + e
    <3>1. e \in Nat /\ e < NPT
      BY <2>1 DEF Entries
    <3>2. (job.dir + 1) * NPT <= NPD * NPT
      BY <1>2, <2>1, MultiplesAscend
    <3>3. (job.dir + 1) * NPT = job.dir * NPT + NPT /\ job.dir * NPT \in Nat
      BY <1>2, <2>1
    <3>4. job.dir * NPT + e \in 0..(VPages - 1)
      BY <2>1, <3>1, <3>2, <3>3
    <3>5. \A x \in 0..(VPages - 1) : x % VPages = x
      BY <2>1
    <3> QED
      BY <1>3, <3>1, <3>4, <3>5
  <2>3. ASSUME NEW e \in Entries PROVE row[e] = Mapped(job.dir, e)
    <3>1. row[e] = IF e \in Filled THEN job.dir * NPT + e ELSE NULL
      BY <1>3, <2>2 DEF Cleared
    <3>2. CASE job.dir = 0
      <4>1. e \in Filled <=> e < KernelEnd
        BY <1>1, <3>2, FilledIs
      <4> QED
        BY <2>1, <2>2, <3>1, <3>2, <4>1 DEF Mapped
    <3>3. CASE job.dir # 0
      <4>1. e \in Filled
        BY <1>1, <3>3, FilledIs
      <4> QED
        BY <3>1, <3>3, <4>1 DEF Mapped
    <3> QED
      BY <3>2, <3>3
  <2>4. \A e \in Entries : Mapped(job.dir, e) \in Entry
    BY <2>2 DEF Mapped, Entry
  <2> QED
    BY <2>3, <2>4
<1>6. /\ table'[job.tab] = row
      /\ \A p \in Pages : p # job.tab => table'[p] = table[p]
      /\ table' \in [Pages -> [Entries -> Entry]]
  <2>1. table' = [table EXCEPT ![Phys(job.tab)] =
                     [e \in Entries |-> IF e \in Filled
                                        THEN (job.vframe + e) % VPages
                                        ELSE @[e]]]
    BY DEF Fill
  <2>2. table' = [table EXCEPT ![job.tab] = row]
    BY <1>3, <2>1
  <2> HIDE DEF row
  <2> QED
    BY <1>2, <1>3, <1>5, <2>2 DEF BootTyped, BootTypeOK
<1> HIDE DEF row
<1>7. /\ job' \in Jobs /\ job'.tab = job.tab /\ job'.dir = job.dir
      /\ job'.last = job.last /\ job'.mapEnd = job.mapEnd /\ job'.ret = job.ret
      /\ job.dir < job.last => job'.vframe = (job.dir + 1) * NPT
  <2>1. /\ Cardinality(Filled) \in Nat
        /\ job.dir < job.last => Cardinality(Filled) = NPT
    BY <1>1, FilledIs
  <2>2. /\ job' \in Jobs /\ job'.tab = job.tab /\ job'.dir = job.dir
        /\ job'.last = job.last /\ job'.mapEnd = job.mapEnd /\ job'.ret = job.ret
        /\ job'.vframe = job.vframe + Cardinality(Filled)
    BY <1>1, <1>2, <2>1 DEF BootTyped, Jobs
  <2>3. job.dir * NPT + NPT = (job.dir + 1) * NPT
    BY <1>2, BootAssumption
  <2> QED
    BY <1>3, <2>1, <2>2, <2>3
<1>8. /\ \A d : TablePage(d)' = TablePage(d)
      /\ \A d, e : Mapped(d, e)' = Mapped(d, e)
      /\ VideoDir' = VideoDir /\ KernelTables' = KernelTables /\ VideoTables' = VideoTables
      /\ KernelEnd' = KernelEnd /\ VideoEnd' = VideoEnd /\ MappedPages' = MappedPages
      /\ KernelDirs' = KernelDirs /\ AllDirs' = AllDirs
  BY <1>4, FixedStay
<1>9. BootTyped'
  BY <1>1, <1>2, <1>4, <1>6, <1>7 DEF BootTyped, BootTypeOK, Labels
<1>10. Progress'
  <2>1. Paging' <=> Paging
    BY <1>1, <1>7 DEF Paging, AfterVideo
  <2>2. Laid(Done)'
    <3> PICK L : L = Done
      OBVIOUS
    <3>1. Done' = L
      BY <1>1, <1>7, <1>8 DEF Done, InLoop
    <3>2. ListTop \in 0..NPages /\ ListTop' \in Nat /\ ListTop <= ListTop'
      BY <1>2, <1>4
    <3>3. \A d \in L : TablePage(d) \in Pages
      BY <1>2, <1>4, TablePages, PageAssumption DEF Laid, Pages
    <3>4. \A d \in L : table'[TablePage(d)] = table[TablePage(d)]
      BY <1>2, <1>3, <1>6, <3>3
    <3>5. table'[kpgdir] = table[kpgdir]
      BY <1>2, <1>3, <1>6 DEF BootTyped, BootTypeOK
    <3>6. Laid(L)'
      BY <1>1, <1>2, <1>4, <3>2, <3>4, <3>5, LaidStays
    <3> QED
      BY <3>1, <3>6
  <2>3. ListTop' = nr_kernel_page' + Taken'
    <3>1. Taken' = Taken
      BY <1>1, <1>4, <1>7, <1>8 DEF Taken, InLoop, Fixed
    <3> QED
      BY <1>2, <1>4, <3>1 DEF Progress, Fixed
  <2>4. Job'
    BY <1>1, <1>2, <1>7, <1>8 DEF Job
  <2>5. Turn'
    <3>1. \A e \in Entries : table'[job'.tab][e] = Mapped(job.dir, e)'
      <4>1. \A e \in Entries : Mapped(job.dir, e)' = Mapped(job.dir, e)
        BY <1>7, <1>8
      <4> QED
        BY <1>5, <1>6, <1>7, <4>1
    <3> QED
      BY <1>1, <1>3, <1>4, <1>7, <1>8, <3>1 DEF Turn
  <2>6. Testing'
    BY <1>1, <1>2, <1>4, <1>8 DEF Progress, Testing
  <2> QED
    BY <1>1, <1>2, <2>1, <2>2, <2>3, <2>4, <2>5, <2>6 DEF Progress
<1> QED
  BY <1>1, <1>4, <1>9, <1>10, Reaches DEF AfterVideo

(* The directory entry.  The turn ends, or with the last directory the     *)
(* call.                                                                   *)
LEMMA LinkIInv == BootIInv /\ Link => BootIInv'
<1> SUFFICES ASSUME BootIInv, Link PROVE BootIInv'
  OBVIOUS
<1>1. /\ pc = "link" /\ Phys(kpgdir) # NULL
      /\ table' = [table EXCEPT ![Phys(kpgdir)][job.dir] = job.tab]
      /\ \/ /\ job.dir < job.last
            /\ job' = [job EXCEPT !.dir = @ + 1]
            /\ pc' = "tab"
         \/ /\ ~(job.dir < job.last)
            /\ pc' = job.ret
            /\ job' = job
      /\ UNCHANGED <<vars, end, kpgdir, pg, vram, frame_buf, page, logged>>
      /\ InLoop
  BY DEF Link, Running, Touched, test_locals, InLoop
<1>2. /\ IInv /\ Image /\ BootTyped /\ Progress /\ Job /\ Turn /\ Laid(Done)
      /\ Done \in SUBSET AllDirs /\ job.dir \in AllDirs
      /\ job.dir \in Nat /\ job.dir \in Entries /\ job.dir < NPD
      /\ kpgdir = nr_kernel_page /\ kpgdir \in Pages /\ kpgdir \in Nat
      /\ kpgdir # TablePage(job.dir)
      /\ TablePage(job.dir) \in Nat /\ ListTop = TablePage(job.dir) + 1
      /\ \A d \in Done : TablePage(d) # TablePage(job.dir)
  BY <1>1, LoopFacts
<1>3. /\ job.tab = TablePage(job.dir) /\ owners[job.tab] = 1 /\ job.tab \in Pages
      /\ Phys(kpgdir) = kpgdir /\ (pg => job.tab < MappedPages)
      /\ \A e \in Entries : table[job.tab][e] = Mapped(job.dir, e)
      /\ job.dir < job.last => job.vframe = (job.dir + 1) * NPT
  BY <1>1, <1>2, Reached DEF Turn, BootTyped, BootTypeOK
<1>4. /\ UNCHANGED Fixed /\ IInv' /\ ListTop' = ListTop /\ owners' = owners
      /\ panic' = panic /\ TypeOK' /\ ListTop \in 0..NPages
  <2>1. IInv'
    BY <1>1, <1>2, NextIInv
  <2> QED
    BY <1>1, <1>2, <2>1, ImageNumbers DEF Fixed, vars, ListTop, IInv
<1>5. /\ \A d \in Entries : table'[kpgdir][d] = IF d = job.dir THEN job.tab
                                                ELSE table[kpgdir][d]
      /\ \A p \in Pages : p # kpgdir => table'[p] = table[p]
      /\ table' \in [Pages -> [Entries -> Entry]]
  <2>1. table' = [table EXCEPT ![kpgdir] = [table[kpgdir] EXCEPT ![job.dir] = job.tab]]
    BY <1>1, <1>2, <1>3 DEF BootTyped, BootTypeOK
  <2>2. job.tab \in Entry
    <3>1. NPages \in Nat /\ VPages \in Nat /\ NPages <= VPages
      BY PageAssumption, BootAssumption DEF VPages
    <3> QED
      BY <1>3, <3>1 DEF Pages, Entry
  <2> DEFINE row == [table[kpgdir] EXCEPT ![job.dir] = job.tab]
  <2>3. /\ row \in [Entries -> Entry]
        /\ \A d \in Entries : row[d] = IF d = job.dir THEN job.tab ELSE table[kpgdir][d]
    BY <1>2, <2>2 DEF BootTyped, BootTypeOK
  <2> HIDE DEF row
  <2>4. table' = [table EXCEPT ![kpgdir] = row]
    BY <2>1 DEF row
  <2> QED
    BY <1>2, <2>3, <2>4 DEF BootTyped, BootTypeOK
<1>6. /\ \A d : TablePage(d)' = TablePage(d)
      /\ \A d, e : Mapped(d, e)' = Mapped(d, e)
      /\ VideoDir' = VideoDir /\ KernelTables' = KernelTables /\ VideoTables' = VideoTables
      /\ KernelEnd' = KernelEnd /\ VideoEnd' = VideoEnd /\ MappedPages' = MappedPages
      /\ KernelDirs' = KernelDirs /\ AllDirs' = AllDirs
  BY <1>4, FixedStay
<1>7. PICK L : L = Done \cup {job.dir}
  OBVIOUS
<1>8. Laid(L)'
  <2>1. \A d \in Entries : table'[kpgdir'][d] = IF d \in L THEN TablePage(d)' ELSE NULL
    BY <1>1, <1>2, <1>3, <1>5, <1>6, <1>7 DEF Laid
  <2>2. ASSUME NEW d \in L
        PROVE  /\ owners'[TablePage(d)'] = 1
               /\ TablePage(d)' < ListTop'
               /\ \A e \in Entries : table'[TablePage(d)'][e] = Mapped(d, e)'
    <3>1. d \in AllDirs
      BY <1>2, <1>7
    <3>2. /\ TablePage(d)' = TablePage(d) /\ TablePage(d) \in Nat
          /\ nr_kernel_page < TablePage(d)
          /\ \A e : Mapped(d, e)' = Mapped(d, e)
      BY <1>2, <1>6, <3>1, TablePages
    <3>3. /\ owners[TablePage(d)] = 1 /\ TablePage(d) < ListTop
          /\ \A e \in Entries : table[TablePage(d)][e] = Mapped(d, e)
      <4>1. CASE d = job.dir
        BY <1>2, <1>3, <4>1
      <4>2. CASE d # job.dir
        BY <1>2, <1>7, <4>2 DEF Laid
      <4> QED
        BY <4>1, <4>2
    <3>4. TablePage(d) \in Pages /\ TablePage(d) # kpgdir
      BY <1>2, <1>4, <3>2, <3>3, PageAssumption DEF Pages
    <3> QED
      BY <1>4, <1>5, <3>2, <3>3, <3>4
  <2>3. kpgdir' = nr_kernel_page' /\ owners'[kpgdir'] = 1
    BY <1>1, <1>2, <1>4 DEF Laid, Fixed
  <2> QED
    BY <2>1, <2>2, <2>3 DEF Laid
<1>9. /\ KernelTables \in Nat /\ 1 <= KernelTables /\ KernelTables <= VideoDir
      /\ VideoDir \in Nat /\ VideoTables \in Nat /\ 1 <= VideoTables
      /\ nr_kernel_page \in Nat
      /\ TablePage(job.dir) = nr_kernel_page + 1 + (IF job.dir < KernelTables THEN job.dir
                                                   ELSE KernelTables + job.dir - VideoDir)
  BY <1>2, Geometry, ImageNumbers DEF TablePage
<1>10. /\ pg => /\ job.dir >= VideoDir /\ job.dir <= job.last
                /\ job.last = VideoDir + VideoTables - 1 /\ job.ret = "test"
                /\ Done = KernelDirs \cup VideoDir..(job.dir - 1)
       /\ ~pg => /\ job.dir >= 0 /\ job.dir <= job.last
                 /\ job.last = KernelTables - 1 /\ job.ret = "enable"
                 /\ Done = 0..(job.dir - 1)
  <2>1. pg => /\ job.dir \in VideoDir..job.last
              /\ job.last = VideoDir + VideoTables - 1 /\ job.ret = "test"
    BY <1>2 DEF Job
  <2>2. ~pg => /\ job.dir \in 0..job.last
               /\ job.last = KernelTables - 1 /\ job.ret = "enable"
    BY <1>2 DEF Job
  <2>3. Done = IF pg THEN KernelDirs \cup VideoDir..(job.dir - 1) ELSE 0..(job.dir - 1)
    BY <1>1 DEF Done, InLoop
  <2> QED
    BY <1>9, <2>1, <2>2, <2>3
<1>11. Testing'
  <2>1. frame_buf = <<>> /\ logged = 0
    BY <1>1, <1>2 DEF Progress, Testing
  <2>2. pc' \in {"tab", "enable", "test"}
    BY <1>1, <1>10
  <2>3. Len(frame_buf) < TestPages
    BY <2>1, BootAssumption
  <2> QED
    BY <1>1, <2>1, <2>2, <2>3 DEF Testing
<1>12. CASE job.dir < job.last
  <2>1. /\ pc' = "tab" /\ InLoop' /\ job' \in Jobs
        /\ job'.dir = job.dir + 1 /\ job'.last = job.last /\ job'.mapEnd = job.mapEnd
        /\ job'.vframe = job.vframe /\ job'.tab = job.tab /\ job'.ret = job.ret
    BY <1>1, <1>2, <1>12 DEF InLoop, BootTyped, Jobs
  <2>2. job.dir + 1 \in 0..(NPD - 1)
    <3>1. NPD \in Nat /\ VideoDir + VideoTables <= NPD
      BY <1>2, Geometry
    <3>2. job.last \in Int /\ job.last < NPD
      <4>1. CASE pg
        BY <1>9, <1>10, <3>1, <4>1
      <4>2. CASE ~pg
        BY <1>9, <1>10, <3>1, <4>2
      <4> QED
        BY <4>1, <4>2
    <3> QED
      BY <1>2, <1>12, <3>1, <3>2
  <2>3. BootTyped'
    <3>1. /\ pc' \in Labels /\ job' \in Jobs
          /\ job'.tab \in Pages /\ job'.dir \in 0..(NPD - 1)
      BY <1>3, <2>1, <2>2 DEF Labels
    <3>2. /\ kpgdir' \in Pages /\ pg' \in BOOLEAN
          /\ Len(frame_buf') <= TestPages /\ frame_buf' \in Seq(Pages)
          /\ page' \in Pages \cup {NULL, Wild} /\ logged' \in 0..WalkPages
      BY <1>1, <1>2 DEF BootTyped, BootTypeOK
    <3> QED
      BY <1>4, <1>5, <3>1, <3>2 DEF BootTyped, BootTypeOK
  <2>4. Done' = L
    <3>1. pg' = pg /\ pc' = "tab" /\ InLoop' /\ job'.dir - 1 = job.dir
      BY <1>1, <1>2, <2>1
    <3>2. Done' = IF pg THEN KernelDirs \cup VideoDir..job.dir ELSE 0..job.dir
      BY <1>6, <3>1 DEF Done
    <3>3. CASE pg
      <4>1. VideoDir..job.dir = VideoDir..(job.dir - 1) \cup {job.dir}
        BY <1>2, <1>9, <1>10, <3>3
      <4> QED
        BY <1>7, <1>10, <3>2, <3>3, <4>1
    <3>4. CASE ~pg
      <4>1. 0..job.dir = 0..(job.dir - 1) \cup {job.dir}
        BY <1>2, <1>10, <3>4
      <4> QED
        BY <1>7, <1>10, <3>2, <3>4, <4>1
    <3> QED
      BY <3>3, <3>4
  <2>5. TablePage(job.dir)' = TablePage(job.dir) + 1
    <3>1. TablePage(job.dir)' = nr_kernel_page + 1
             + (IF job.dir + 1 < KernelTables THEN job.dir + 1
                ELSE KernelTables + (job.dir + 1) - VideoDir)
      BY <1>4, <1>6, <2>1 DEF TablePage, Fixed
    <3>2. CASE pg
      <4>1. ~(job.dir < KernelTables) /\ ~(job.dir + 1 < KernelTables)
        BY <1>2, <1>9, <1>10, <3>2
      <4> QED
        BY <1>2, <1>9, <3>1, <4>1
    <3>3. CASE ~pg
      <4>1. job.dir < KernelTables /\ job.dir + 1 < KernelTables
        BY <1>2, <1>9, <1>10, <1>12, <3>3
      <4> QED
        BY <1>2, <1>9, <3>1, <4>1
    <3> QED
      BY <3>2, <3>3
  <2>6. ListTop' = nr_kernel_page' + Taken'
    <3>1. Taken' = TablePage(job.dir)' - nr_kernel_page' + 0
      BY <2>1 DEF Taken, InLoop
    <3> QED
      BY <1>2, <1>4, <1>9, <2>5, <3>1 DEF Fixed
  <2>7. Job'
    <3>1. /\ pg' = pg /\ VideoEnd' = VideoEnd /\ KernelEnd' = KernelEnd
          /\ VideoDir' = VideoDir /\ VideoTables' = VideoTables /\ KernelTables' = KernelTables
      BY <1>1, <1>6
    <3>2. job'.dir \in (IF pg THEN VideoDir ELSE 0)..job.last
      BY <1>2, <1>9, <1>10, <1>12, <2>1
    <3>3. /\ job.last = IF pg THEN VideoDir + VideoTables - 1 ELSE KernelTables - 1
          /\ job.mapEnd = IF pg THEN VideoEnd ELSE KernelEnd
          /\ job.ret = IF pg THEN "test" ELSE "enable"
      BY <1>2 DEF Job
    <3> QED
      BY <2>1, <3>1, <3>2, <3>3 DEF Job
  <2>8. Turn'
    BY <1>1, <1>3, <1>12, <2>1 DEF Turn
  <2>9. Paging' <=> Paging
    BY <1>1, <2>1 DEF Paging, AfterVideo, InLoop
  <2>10. Progress'
    BY <1>1, <1>2, <1>8, <1>11, <2>1, <2>4, <2>6, <2>7, <2>8, <2>9 DEF Progress
  <2> QED
    BY <1>4, <2>1, <2>3, <2>10, <1>2, Reaches DEF AfterVideo
<1>13. CASE ~(job.dir < job.last)
  <2>1. /\ pc' = job.ret /\ job' = job /\ job.dir = job.last
        /\ pc' = (IF pg THEN "test" ELSE "enable") /\ ~InLoop'
    <3>1. pc' = job.ret /\ job' = job
      BY <1>1, <1>13
    <3>2. job.dir = job.last
      <4>1. CASE pg
        BY <1>2, <1>9, <1>10, <1>13, <4>1
      <4>2. CASE ~pg
        BY <1>2, <1>9, <1>10, <1>13, <4>2
      <4> QED
        BY <4>1, <4>2
    <3>3. pc' = (IF pg THEN "test" ELSE "enable")
      BY <1>10, <3>1
    <3> QED
      BY <3>1, <3>2, <3>3 DEF InLoop
  <2>2. BootTyped'
    BY <1>1, <1>2, <1>4, <1>5, <2>1 DEF BootTyped, BootTypeOK, Labels
  <2>3. Done' = L
    <3>1. CASE pg
      <4>1. Done' = AllDirs
        BY <1>6, <2>1, <3>1 DEF Done
      <4> QED
        BY <1>7, <1>9, <1>10, <2>1, <3>1, <4>1 DEF AllDirs, VideoDirs
    <3>2. CASE ~pg
      <4>1. Done' = KernelDirs
        BY <1>6, <2>1, <3>2 DEF Done
      <4> QED
        BY <1>7, <1>9, <1>10, <2>1, <3>2, <4>1 DEF KernelDirs
    <3> QED
      BY <3>1, <3>2
  <2>4. ListTop' = nr_kernel_page' + Taken'
    <3>1. Taken' = IF pg THEN 1 + KernelTables + VideoTables ELSE 1 + KernelTables
      <4>1. frame_buf' = <<>>
        BY <1>1, <1>2 DEF Progress, Testing
      <4>2. pg => Taken' = 1 + KernelTables' + VideoTables' + Len(frame_buf')
        BY <2>1 DEF Taken
      <4>3. ~pg => Taken' = 1 + KernelTables'
        BY <2>1 DEF Taken
      <4>4. Len(frame_buf') = 0
        BY <4>1
      <4> QED
        BY <1>6, <1>9, <4>2, <4>3, <4>4
    <3>2. ListTop = nr_kernel_page + (IF pg THEN 1 + KernelTables + VideoTables
                                      ELSE 1 + KernelTables)
      <4>1. CASE pg
        BY <1>2, <1>9, <1>10, <2>1, <4>1
      <4>2. CASE ~pg
        BY <1>2, <1>9, <1>10, <2>1, <4>2
      <4> QED
        BY <4>1, <4>2
    <3> QED
      BY <1>4, <3>1, <3>2 DEF Fixed
  <2>5. Paging' <=> pg
    BY <2>1 DEF Paging, AfterVideo
  <2>6. Progress'
    BY <1>1, <1>8, <1>11, <2>1, <2>3, <2>4, <2>5 DEF Progress
  <2>7. pc' \in AfterVideo => TablesReachable
    <3>1. ASSUME pg PROVE TablesReachable
      <4>1. job.tab = nr_kernel_page + KernelTables + VideoTables
        BY <1>2, <1>3, <1>9, <1>10, <2>1, <3>1
      <4>2. MappedPages \in Nat
        BY <1>2, PagesMapped
      <4> QED
        BY <1>3, <1>9, <3>1, <4>1, <4>2 DEF TablesReachable
    <3> QED
      BY <2>1, <3>1 DEF AfterVideo
  <2> QED
    BY <1>4, <2>1, <2>2, <2>6, <2>7, Reaches
<1> QED
  BY <1>12, <1>13

(* cr0.PG is set: from here on all goes through the tables.                *)
LEMMA EnablePagingIInv == BootIInv /\ EnablePaging => BootIInv'
<1> SUFFICES ASSUME BootIInv, EnablePaging PROVE BootIInv'
  OBVIOUS
<1>1. /\ pc = "enable" /\ pg' = TRUE /\ pc' = "video"
      /\ UNCHANGED <<vars, end, kpgdir, table, job, vram, frame_buf, page, logged>>
      /\ ~InLoop /\ ~InLoop'
  BY DEF EnablePaging, Running, test_locals, InLoop
<1>2. IInv /\ Image /\ BootTyped /\ Progress
  BY <1>1 DEF BootIInv
<1>3. /\ UNCHANGED Fixed /\ IInv' /\ ListTop' = ListTop /\ owners' = owners
      /\ panic' = panic /\ TypeOK'
  <2>1. IInv'
    BY <1>1, <1>2, NextIInv
  <2> QED
    BY <1>1, <2>1 DEF Fixed, vars, ListTop, IInv
<1>4. /\ \A d : TablePage(d)' = TablePage(d)
      /\ \A d, e : Mapped(d, e)' = Mapped(d, e)
      /\ KernelTables' = KernelTables /\ VideoTables' = VideoTables
      /\ KernelDirs' = KernelDirs
  BY <1>3, FixedStay
<1>5. BootTyped'
  BY <1>1, <1>2, <1>3 DEF BootTyped, BootTypeOK, Labels
<1>6. Progress'
  <2>1. Paging'
    BY <1>1 DEF Paging
  <2>2. Done' = Done /\ Done = KernelDirs
    BY <1>1, <1>4 DEF Done
  <2>3. Laid(Done)'
    <3>1. Laid(Done)
      BY <1>1, <1>2 DEF Progress
    <3> QED
      BY <1>1, <1>3, <1>4, <2>2, <3>1 DEF Laid, Fixed
  <2>4. Taken' = Taken
    BY <1>1, <1>4 DEF Taken
  <2>5. Testing'
    BY <1>1, <1>2, <1>3, <1>4 DEF Progress, Testing
  <2> QED
    BY <1>1, <1>2, <1>3, <2>1, <2>3, <2>4, <2>5 DEF Progress, Fixed
<1> QED
  BY <1>1, <1>3, <1>5, <1>6, Reaches DEF AfterVideo

(* init_video calls mm_continous_map again.                                *)
LEMMA InitVideoIInv == BootIInv /\ InitVideo => BootIInv'
<1> SUFFICES ASSUME BootIInv, InitVideo PROVE BootIInv'
  OBVIOUS
<1>1. /\ pc = "video" /\ pc' = "tab"
      /\ job' = MapJob(vram.base, vram.base, vram.size, "test")
      /\ UNCHANGED <<vars, end, kpgdir, pg, table, vram, frame_buf, page, logged>>
      /\ ~InLoop /\ InLoop'
  BY DEF InitVideo, Running, test_locals, InLoop
<1>2. IInv /\ Image /\ BootTyped /\ Progress
  BY <1>1 DEF BootIInv
<1>3. /\ UNCHANGED Fixed /\ IInv' /\ ListTop' = ListTop /\ owners' = owners
      /\ panic' = panic /\ TypeOK'
  <2>1. IInv'
    BY <1>1, <1>2, NextIInv
  <2> QED
    BY <1>1, <2>1 DEF Fixed, vars, ListTop, IInv
<1>4. /\ \A d : TablePage(d)' = TablePage(d)
      /\ \A d, e : Mapped(d, e)' = Mapped(d, e)
      /\ KernelTables' = KernelTables /\ VideoTables' = VideoTables
      /\ VideoDir' = VideoDir /\ VideoEnd' = VideoEnd /\ KernelDirs' = KernelDirs
  BY <1>3, FixedStay
<1>5. /\ KernelTables \in Nat /\ KernelTables <= VideoDir /\ VideoDir \in Nat
      /\ VideoTables \in Nat /\ 1 <= VideoTables /\ VideoDir + VideoTables <= NPD
      /\ NPD \in Nat /\ NPT \in Nat /\ VideoEnd \in Nat /\ nr_kernel_page \in Nat
  BY <1>2, Geometry, ImageNumbers
<1>6. /\ job'.dir = VideoDir /\ job'.last = VideoDir + VideoTables - 1
      /\ job'.mapEnd = VideoEnd /\ job'.vframe = VideoDir * NPT /\ job'.tab = 0
      /\ job'.ret = "test" /\ job' \in Jobs
  BY <1>1, <1>2, <1>5, SecondJob DEF Jobs
<1>7. pg /\ pg'
  BY <1>1, <1>2 DEF Progress, Paging
<1>8. BootTyped'
  <2>1. 0 \in Pages /\ VideoDir \in 0..(NPD - 1)
    BY <1>5, PageAssumption DEF Pages
  <2> QED
    BY <1>1, <1>2, <1>3, <1>6, <2>1 DEF BootTyped, BootTypeOK, Labels
<1>9. Progress'
  <2>1. Paging'
    BY <1>1, <1>6 DEF Paging, InLoop
  <2>2. Done' = Done /\ Done = KernelDirs
    <3>1. Done = KernelDirs
      BY <1>1 DEF Done
    <3>2. Done' = KernelDirs \cup VideoDir..(VideoDir - 1)
      BY <1>1, <1>4, <1>6, <1>7 DEF Done
    <3>3. VideoDir..(VideoDir - 1) = {}
      BY <1>5
    <3> QED
      BY <3>1, <3>2, <3>3
  <2>3. Laid(Done)'
    <3>1. Laid(Done)
      BY <1>1, <1>2 DEF Progress
    <3> QED
      BY <1>1, <1>3, <1>4, <2>2, <3>1 DEF Laid, Fixed
  <2>4. ListTop' = nr_kernel_page' + Taken'
    <3>1. Taken = 1 + KernelTables
      BY <1>1 DEF Taken, InLoop
    <3>2. Taken' = TablePage(job.dir)' - nr_kernel_page' + 0
      BY <1>1 DEF Taken
    <3>3. TablePage(job.dir)' = nr_kernel_page + 1 + KernelTables
      <4>1. TablePage(job.dir)' = nr_kernel_page + 1
              + (IF VideoDir < KernelTables THEN VideoDir ELSE KernelTables + VideoDir - VideoDir)
        BY <1>3, <1>4, <1>6 DEF TablePage, Fixed
      <4> QED
        BY <1>5, <4>1
    <3> QED
      BY <1>2, <1>3, <1>5, <3>1, <3>2, <3>3 DEF Progress, Fixed
  <2>5. Job'
    BY <1>4, <1>5, <1>6, <1>7 DEF Job
  <2>6. Turn'
    BY <1>1, <1>6 DEF Turn
  <2>7. Testing'
    BY <1>1, <1>2, <1>3, <1>4 DEF Progress, Testing
  <2> QED
    BY <1>1, <1>7, <2>1, <2>3, <2>4, <2>5, <2>6, <2>7 DEF Progress
<1> QED
  BY <1>1, <1>3, <1>8, <1>9, Reaches DEF AfterVideo

(* After the second call: all directories are laid, and stay.              *)
LEMMA AllLaid ==
  ASSUME BootIInv, pc \in AfterVideo
  PROVE  /\ IInv /\ Image /\ BootTyped /\ Progress /\ Testing /\ Laid(AllDirs) /\ pg
         /\ Done = AllDirs /\ TablesReachable /\ ~InLoop
         /\ ListTop \in 0..NPages
         /\ PagesNeeded = nr_kernel_page + 1 + KernelTables + VideoTables + TestPages
         /\ PagesNeeded \in Nat /\ TestPages \in Nat \ {0} /\ WalkPages \in Nat \ {0}
         /\ nr_kernel_page \in Nat /\ KernelTables \in Nat /\ VideoTables \in Nat
         /\ ListTop = IF pc = "test"
                      THEN nr_kernel_page + 1 + KernelTables + VideoTables
                             + Len(frame_buf)
                      ELSE PagesNeeded
<1>1. pc \notin {"pgdir", "clearDir", "enable", "video", "derailed"} /\ ~InLoop
  BY DEF AfterVideo, InLoop
<1>2. IInv /\ Image /\ BootTyped /\ Progress /\ TablesReachable
  BY <1>1 DEF BootIInv, BootOutcome
<1>3. Done = AllDirs
  BY <1>1 DEF Done
<1>4. Laid(AllDirs) /\ pg /\ Testing
  BY <1>1, <1>2, <1>3 DEF Progress, Paging
<1>5. /\ nr_kernel_page \in Nat /\ KernelTables \in Nat /\ VideoTables \in Nat
      /\ TestPages \in Nat \ {0} /\ WalkPages \in Nat \ {0}
  BY <1>2, ImageNumbers, Geometry, BootAssumption
<1>6. ListTop \in 0..NPages
  BY <1>2, <1>5, PageAssumption DEF IInv
<1>7. PagesNeeded \in Nat
  BY <1>5 DEF PagesNeeded
<1>8. Len(frame_buf) \in Nat
  BY <1>2 DEF BootTyped
<1>9. ListTop = IF pc = "test"
                THEN nr_kernel_page + 1 + KernelTables + VideoTables + Len(frame_buf)
                ELSE PagesNeeded
  <2>1. CASE pc = "test"
    <3>1. Taken = 1 + KernelTables + VideoTables + Len(frame_buf)
      BY <1>1, <2>1 DEF Taken
    <3> QED
      BY <1>2, <1>5, <1>8, <2>1, <3>1 DEF Progress
  <2>2. CASE pc # "test"
    <3>1. Taken = PagesNeeded - nr_kernel_page
      BY <1>1, <2>2 DEF Taken
    <3> QED
      BY <1>2, <1>5, <1>7, <2>2, <3>1 DEF Progress
  <2> QED
    BY <2>1, <2>2
<1> QED
  BY <1>1, <1>2, <1>3, <1>4, <1>5, <1>6, <1>7, <1>9 DEF PagesNeeded

(* A step of test_page or of the first frame: the tables are not written.  *)
LEMMA TestStep ==
  ASSUME BootIInv, pc \in AfterVideo, pc' \in AfterVideo,
         UNCHANGED <<end, kpgdir, pg, table, vram, nr_kernel_page, panic>>,
         IInv', BootTyped', Testing',
         ListTop <= ListTop',
         ListTop' = IF pc' = "test"
                    THEN nr_kernel_page + 1 + KernelTables + VideoTables
                           + Len(frame_buf')
                    ELSE PagesNeeded,
         \A p \in Pages : owners[p] = 1
             /\ p <= nr_kernel_page + KernelTables + VideoTables => owners'[p] = 1
  PROVE  BootIInv'
<1>1. /\ IInv /\ Image /\ Laid(AllDirs) /\ pg
      /\ Done = AllDirs /\ TablesReachable /\ ListTop \in 0..NPages
      /\ nr_kernel_page \in Nat /\ KernelTables \in Nat /\ VideoTables \in Nat
      /\ PagesNeeded \in Nat
  BY AllLaid
<1>2. UNCHANGED Fixed
  BY DEF Fixed
<1>3. /\ AllDirs' = AllDirs /\ KernelTables' = KernelTables
      /\ VideoTables' = VideoTables /\ PagesNeeded' = PagesNeeded
  BY <1>2, FixedStay
<1>4. pc' \notin {"pgdir", "clearDir", "enable", "video", "derailed"} /\ ~InLoop'
  BY DEF AfterVideo, InLoop
<1>5. Laid(Done)'
  <2> PICK L : L = AllDirs
    OBVIOUS
  <2>1. Done' = L
    BY <1>3, <1>4 DEF Done
  <2>2. ListTop' \in Nat
    <3>1. Len(frame_buf') \in Nat
      BY DEF BootTyped
    <3> QED
      BY <1>1, <3>1
  <2>3. Laid(L)'
    BY <1>1, <1>2, <2>2, LaidStays
  <2> QED
    BY <2>1, <2>3
<1>6. ListTop' = nr_kernel_page' + Taken'
  <2>1. Len(frame_buf') \in Nat
    BY DEF BootTyped
  <2>2. CASE pc' = "test"
    <3>1. Taken' = 1 + KernelTables' + VideoTables' + Len(frame_buf')
      BY <1>4, <2>2 DEF Taken
    <3> QED
      BY <1>1, <1>3, <2>1, <2>2, <3>1
  <2>3. CASE pc' # "test"
    <3>1. Taken' = PagesNeeded' - nr_kernel_page'
      BY <1>4, <2>3 DEF Taken
    <3> QED
      BY <1>1, <1>3, <2>3, <3>1
  <2> QED
    BY <2>2, <2>3
<1>7. Progress'
  BY <1>1, <1>4, <1>5, <1>6 DEF Progress, Paging
<1> QED
  BY <1>1, <1>2, <1>4, <1>7, Reaches

(* test_page: the next page comes after all tables.                        *)
LEMMA TestAllocIInv == BootIInv /\ TestAlloc => BootIInv'
<1> SUFFICES ASSUME BootIInv, TestAlloc PROVE BootIInv'
  OBVIOUS
<1>1. /\ pc = "test" /\ pc \in AfterVideo /\ AllocPage
      /\ frame_buf' = Append(frame_buf, FrameOf(free_page_list))
      /\ pc' = IF Len(frame_buf') = TestPages THEN "release" ELSE "test"
      /\ pc' \in AfterVideo
      /\ UNCHANGED <<end, kpgdir, pg, table, job, vram, page, logged>>
  BY DEF TestAlloc, Running, AfterVideo
<1>2. /\ IInv /\ BootTyped /\ Testing
      /\ PagesNeeded = nr_kernel_page + 1 + KernelTables + VideoTables + TestPages
      /\ TestPages \in Nat \ {0}
      /\ nr_kernel_page \in Nat /\ KernelTables \in Nat /\ VideoTables \in Nat
      /\ ListTop = nr_kernel_page + 1 + KernelTables + VideoTables + Len(frame_buf)
  BY <1>1, AllLaid
<1>3. /\ FrameOf(free_page_list) = ListTop /\ ListTop \in Pages /\ ListTop \in Nat
      /\ ListTop' = ListTop + 1
      /\ \A p \in Pages : owners[p] = 1 => owners'[p] = 1
      /\ nr_kernel_page' = nr_kernel_page /\ panic' = panic /\ IInv' /\ TypeOK'
  BY <1>1, <1>2, Given
<1>4. /\ frame_buf \in Seq(Pages) /\ Len(frame_buf) \in Nat
      /\ Len(frame_buf) < TestPages
  BY <1>1, <1>2 DEF BootTyped, Testing
<1>5. /\ frame_buf' = Append(frame_buf, ListTop)
      /\ frame_buf' \in Seq(Pages) /\ Len(frame_buf') = Len(frame_buf) + 1
      /\ frame_buf' # <<>>
      /\ \A i \in DOMAIN frame_buf' :
            \/ i \in DOMAIN frame_buf /\ frame_buf'[i] = frame_buf[i]
            \/ frame_buf'[i] = ListTop
  BY <1>1, <1>3, <1>4
<1>6. BootTyped'
  BY <1>1, <1>2, <1>3, <1>4, <1>5 DEF BootTyped, BootTypeOK, Labels
<1>7. Testing'
  <2>1. /\ KernelTables' = KernelTables /\ VideoTables' = VideoTables
    BY <1>1, <1>3, FixedStay DEF Fixed
  <2>2. \A i \in DOMAIN frame_buf' :
           frame_buf'[i] > nr_kernel_page' + KernelTables' + VideoTables'
    <3>1. ListTop > nr_kernel_page + KernelTables + VideoTables
      BY <1>2, <1>4
    <3> QED
      BY <1>2, <1>3, <1>5, <2>1, <3>1 DEF Testing
  <2>3. pc' = "test" => Len(frame_buf') < TestPages
    BY <1>1, <1>2, <1>4, <1>5
  <2>4. logged' = 0 /\ pc' \in {"test", "release"}
    BY <1>1, <1>2 DEF Testing
  <2> QED
    BY <1>5, <2>2, <2>3, <2>4 DEF Testing
<1>8. ListTop' = IF pc' = "test"
                 THEN nr_kernel_page + 1 + KernelTables + VideoTables + Len(frame_buf')
                 ELSE PagesNeeded
  BY <1>1, <1>2, <1>3, <1>4, <1>5
<1>9. ListTop <= ListTop'
  BY <1>3
<1> QED
  BY <1>1, <1>3, <1>6, <1>7, <1>8, <1>9, TestStep

(* ... and goes back: the head of the list stays where it was.             *)
LEMMA TestReleaseIInv == BootIInv /\ TestRelease => BootIInv'
<1> SUFFICES ASSUME BootIInv, TestRelease PROVE BootIInv'
  OBVIOUS
<1>1. /\ pc = "release" /\ pc \in AfterVideo /\ pc' \in AfterVideo
      /\ ReleasePage(Head(frame_buf))
      /\ frame_buf' = Tail(frame_buf)
      /\ \/ frame_buf' = <<>> /\ pc' = "walk" /\ page' = free_page_list'
         \/ frame_buf' # <<>> /\ pc' = pc /\ page' = page
      /\ UNCHANGED <<end, kpgdir, pg, table, job, vram, logged>>
  BY DEF TestRelease, Running, AfterVideo
<1>2. /\ IInv /\ BootTyped /\ Testing
      /\ PagesNeeded \in Nat /\ WalkPages \in Nat \ {0}
      /\ nr_kernel_page \in Nat /\ KernelTables \in Nat /\ VideoTables \in Nat
      /\ ListTop = PagesNeeded /\ ListTop \in 0..NPages
  BY <1>1, AllLaid
<1> DEFINE f == Head(frame_buf)
<1>3. /\ frame_buf \in Seq(Pages) /\ frame_buf # <<>> /\ f \in Pages
      /\ f > nr_kernel_page + KernelTables + VideoTables
      /\ frame_buf' \in Seq(Pages) /\ Len(frame_buf') <= Len(frame_buf)
      /\ \A i \in DOMAIN frame_buf' : i + 1 \in DOMAIN frame_buf
                                      /\ frame_buf'[i] = frame_buf[i + 1]
  BY <1>1, <1>2 DEF BootTyped, Testing
<1> HIDE DEF f
<1>4. /\ IInv' /\ ListTop' = ListTop
      /\ owners' = [owners EXCEPT ![f] = 0] \/ owners' = owners
  BY <1>1, <1>2, <1>3, ReleaseIInv DEF f
<1>5. nr_kernel_page' = nr_kernel_page /\ panic' = panic /\ TypeOK'
  BY <1>1, <1>4 DEF ReleasePage, IInv
<1>6. \A p \in Pages : owners[p] = 1
         /\ p <= nr_kernel_page + KernelTables + VideoTables => owners'[p] = 1
  <2>1. \A p \in Pages : p # f => owners'[p] = owners[p]
    BY <1>2, <1>3, <1>4 DEF IInv, TypeOK
  <2>2. \A p \in Pages : p <= nr_kernel_page + KernelTables + VideoTables => p # f
    <3>1. f \in Int
      BY <1>3 DEF Pages
    <3> QED
      BY <1>2, <1>3, <3>1
  <2> QED
    BY <2>1, <2>2
<1>7. BootTyped'
  <2>1. page' \in Pages \cup {NULL, Wild}
    BY <1>1, <1>2, <1>5 DEF BootTyped, BootTypeOK, TypeOK
  <2>2. Len(frame_buf') <= TestPages
    <3>1. Len(frame_buf) <= TestPages
      BY <1>2 DEF BootTyped, BootTypeOK
    <3>2. Len(frame_buf) \in Int /\ Len(frame_buf') \in Int /\ TestPages \in Int
      BY <1>3, BootAssumption
    <3> QED
      BY <1>3, <3>1, <3>2
  <2>3. pc' \in Labels
    BY <1>1 DEF AfterVideo, Labels
  <2> QED
    BY <1>1, <1>2, <1>3, <1>5, <2>1, <2>2, <2>3 DEF BootTyped, BootTypeOK
<1>8. Testing'
  <2>1. /\ KernelTables' = KernelTables /\ VideoTables' = VideoTables
        /\ PagesNeeded' = PagesNeeded
    BY <1>1, <1>5, FixedStay DEF Fixed
  <2>2. \A i \in DOMAIN frame_buf' :
           frame_buf'[i] > nr_kernel_page' + KernelTables' + VideoTables'
    BY <1>2, <1>3, <1>5, <2>1 DEF Testing
  <2>3. logged' = 0
    BY <1>1, <1>2 DEF Testing
  <2>4. ASSUME pc' = "walk"
        PROVE  /\ logged' < WalkPages
               /\ page' = IF PagesNeeded' + logged' < NPages
                          THEN PagesNeeded' + logged'
                          ELSE IF PagesNeeded' + logged' = NPages
                          THEN NULL ELSE Wild
    <3>1. page' = free_page_list'
      BY <1>1, <2>4
    <3>2. free_page_list' \in Pages \cup {NULL}
      BY <1>5 DEF TypeOK
    <3>3. /\ free_page_list' = NULL => PagesNeeded = NPages
          /\ free_page_list' # NULL => PagesNeeded = free_page_list'
      BY <1>2, <1>4 DEF ListTop
    <3>4. PagesNeeded' + logged' = PagesNeeded
      BY <1>2, <2>1, <2>3
    <3>5. NPages \in Nat /\ NULL \notin Int
      BY PageAssumption
    <3> QED
      BY <1>2, <2>3, <3>1, <3>2, <3>3, <3>4, <3>5 DEF Pages
  <2>5. pc' \in {"walk", "release"} /\ (pc' = "release" <=> frame_buf' # <<>>)
    BY <1>1
  <2> QED
    BY <2>2, <2>3, <2>4, <2>5 DEF Testing
<1>9. ListTop <= ListTop' /\ pc' # "test" /\ ListTop' = PagesNeeded
  BY <1>1, <1>2, <1>4
<1> QED
  BY <1>1, <1>4, <1>5, <1>6, <1>7, <1>8, <1>9, TestStep

(* The walk over the list follows the links, whose tail is known.          *)
LEMMA TestWalkIInv == BootIInv /\ TestWalk => BootIInv'
<1> SUFFICES ASSUME BootIInv, TestWalk PROVE BootIInv'
  OBVIOUS
<1>1. /\ pc = "walk" /\ pc \in AfterVideo /\ pc' \in AfterVideo
      /\ page' = IF page \in Pages THEN next[page] ELSE Wild
      /\ logged' = logged + 1
      /\ pc' = IF logged' = WalkPages THEN "screen" ELSE "walk"
      /\ UNCHANGED <<vars, end, kpgdir, pg, table, job, vram, frame_buf>>
  BY DEF TestWalk, Running, AfterVideo
<1>2. /\ IInv /\ BootTyped /\ Testing
      /\ PagesNeeded \in Nat /\ WalkPages \in Nat \ {0}
      /\ ListTop = PagesNeeded
  BY <1>1, AllLaid
<1>3. /\ logged \in Nat /\ logged < WalkPages
      /\ page = IF PagesNeeded + logged < NPages THEN PagesNeeded + logged
                ELSE IF PagesNeeded + logged = NPages THEN NULL ELSE Wild
      /\ frame_buf = <<>>
  BY <1>1, <1>2, BootAssumption DEF BootTyped, BootTypeOK, Testing
<1>4. /\ IInv' /\ ListTop' = ListTop /\ owners' = owners /\ panic' = panic
      /\ nr_kernel_page' = nr_kernel_page /\ TypeOK'
  <2>1. IInv'
    BY <1>1, <1>2, NextIInv
  <2> QED
    BY <1>1, <2>1 DEF vars, ListTop, IInv
<1>5. NPages \in Nat /\ NULL \notin Int /\ Wild \notin Pages /\ Wild \in Int
  BY PageAssumption DEF Wild, Pages
<1>6. page' = IF PagesNeeded + (logged + 1) < NPages THEN PagesNeeded + (logged + 1)
              ELSE IF PagesNeeded + (logged + 1) = NPages THEN NULL ELSE Wild
  <2>1. CASE PagesNeeded + logged < NPages
    <3>1. page = PagesNeeded + logged /\ page \in Pages
      BY <1>2, <1>3, <1>5, <2>1 DEF Pages
    <3>2. next[page] = IF page + 1 < NPages THEN page + 1 ELSE NULL
      BY <1>2, <1>3, <3>1 DEF IInv, Linked
    <3> QED
      BY <1>1, <1>2, <1>3, <1>5, <2>1, <3>1, <3>2
  <2>2. CASE ~(PagesNeeded + logged < NPages)
    <3>1. page \notin Pages
      BY <1>2, <1>3, <1>5, <2>2 DEF Pages
    <3> QED
      BY <1>1, <1>2, <1>3, <1>5, <2>2, <3>1
  <2> QED
    BY <2>1, <2>2
<1>7. BootTyped'
  <2>1. page' \in Pages \cup {NULL, Wild}
    <3>1. page \in Pages => next[page] \in Pages \cup {NULL}
      BY <1>2 DEF IInv, TypeOK
    <3> QED
      BY <1>1, <3>1
  <2>2. logged' \in 0..WalkPages
    BY <1>1, <1>2, <1>3
  <2>3. pc' \in Labels
    BY <1>1 DEF AfterVideo, Labels
  <2> QED
    BY <1>1, <1>2, <1>4, <2>1, <2>2, <2>3 DEF BootTyped, BootTypeOK
<1>8. Testing'
  <2>1. PagesNeeded' = PagesNeeded
    BY <1>1, <1>4, FixedStay DEF Fixed
  <2>2. frame_buf' = <<>>
    BY <1>1, <1>3
  <2>3. pc' \in {"walk", "screen"} /\ (pc' = "walk" => logged' < WalkPages)
    BY <1>1, <1>2, <1>3
  <2> QED
    BY <1>1, <1>6, <2>1, <2>2, <2>3 DEF Testing
<1>9. ListTop <= ListTop' /\ ListTop' = PagesNeeded /\ pc' # "test"
  BY <1>1, <1>2, <1>4
<1> QED
  BY <1>1, <1>4, <1>7, <1>8, <1>9, TestStep

LEMMA UpdateScreenIInv == BootIInv /\ UpdateScreen => BootIInv'
<1> SUFFICES ASSUME BootIInv, UpdateScreen PROVE BootIInv'
  OBVIOUS
<1>1. /\ pc = "screen" /\ pc' = "shown" /\ pc \in AfterVideo /\ pc' \in AfterVideo
      /\ UNCHANGED <<vars, end, kpgdir, pg, table, job, vram, frame_buf, page, logged>>
  BY DEF UpdateScreen, Running, AfterVideo, test_locals
<1>2. /\ IInv /\ BootTyped /\ Testing /\ PagesNeeded \in Nat
      /\ ListTop = PagesNeeded
  BY <1>1, AllLaid
<1>3. /\ IInv' /\ ListTop' = ListTop /\ owners' = owners /\ panic' = panic
      /\ nr_kernel_page' = nr_kernel_page /\ TypeOK'
  <2>1. IInv'
    BY <1>1, <1>2, NextIInv
  <2> QED
    BY <1>1, <2>1 DEF vars, ListTop, IInv
<1>4. BootTyped'
  BY <1>1, <1>2, <1>3 DEF BootTyped, BootTypeOK, Labels
<1>5. Testing'
  <2>1. frame_buf' = <<>>
    BY <1>1, <1>2 DEF Testing
  <2> QED
    BY <1>1, <2>1 DEF Testing
<1>6. ListTop <= ListTop' /\ ListTop' = PagesNeeded /\ pc' # "test"
  BY <1>1, <1>2, <1>3
<1> QED
  BY <1>1, <1>3, <1>4, <1>5, <1>6, TestStep

(* PANIC: the list is empty before main has all the pages it needs.        *)
LEMMA OutOfPagesIInv == BootIInv /\ OutOfPages => BootIInv'
<1> SUFFICES ASSUME BootIInv, OutOfPages PROVE BootIInv'
  OBVIOUS
<1>1. /\ pc \in {"pgdir", "tab", "test"} /\ pc' = pc
      /\ free_page_list = NULL /\ panic' = "nofree"
      /\ UNCHANGED <<nr_kernel_page, ref_count, next, free_page_list, owners>>
      /\ UNCHANGED <<end, kpgdir, pg, table, job, vram, frame_buf, page, logged>>
      /\ AllocNoFree
  BY DEF OutOfPages, AllocNoFree, onlyBoot, test_locals
<1>2. IInv /\ Image /\ BootTyped /\ Progress
  BY <1>1 DEF BootIInv
<1>3. UNCHANGED Fixed /\ IInv' /\ ListTop' = ListTop /\ TypeOK'
  <2>1. IInv'
    BY <1>1, <1>2, HaltIInv
  <2> QED
    BY <1>1, <2>1 DEF Fixed, ListTop, IInv
<1>4. ListTop = NPages
  BY <1>1 DEF ListTop
<1>5. PagesNeeded > NPages
  <2>1. /\ nr_kernel_page \in Nat /\ nr_kernel_page < NPages
        /\ KernelTables \in Nat /\ VideoTables \in Nat
        /\ TestPages \in Nat \ {0} /\ NPages \in Nat
    BY <1>2, ImageNumbers, Geometry, BootAssumption, PageAssumption
  <2>2. CASE pc = "pgdir"
    <3>1. Taken = 0
      BY <2>2 DEF Taken, InLoop
    <3>2. ListTop = nr_kernel_page
      BY <1>2, <2>1, <3>1 DEF Progress
    <3> QED
      BY <1>4, <2>1, <3>2
  <2>3. CASE pc = "tab"
    <3>1. /\ TablePage(job.dir) \in Nat /\ ListTop = TablePage(job.dir)
          /\ TablePage(job.dir) <= nr_kernel_page + KernelTables + VideoTables
      BY <2>3, LoopFacts DEF InLoop
    <3> QED
      BY <1>4, <2>1, <3>1 DEF PagesNeeded
  <2>4. CASE pc = "test"
    <3>1. ListTop = nr_kernel_page + 1 + KernelTables + VideoTables + Len(frame_buf)
      BY <2>4, AllLaid DEF AfterVideo
    <3>2. Len(frame_buf) \in Nat /\ Len(frame_buf) < TestPages
      BY <1>2, <2>4 DEF BootTyped, Progress, Testing
    <3> QED
      BY <1>4, <2>1, <3>1, <3>2 DEF PagesNeeded
  <2> QED
    BY <1>1, <2>2, <2>3, <2>4
<1>6. BootTyped'
  BY <1>1, <1>2, <1>3 DEF BootTyped, BootTypeOK
<1>7. Progress'
  <2>1. /\ \A d : TablePage(d)' = TablePage(d)
        /\ \A d, e : Mapped(d, e)' = Mapped(d, e)
        /\ VideoDir' = VideoDir /\ KernelTables' = KernelTables /\ VideoTables' = VideoTables
        /\ KernelEnd' = KernelEnd /\ VideoEnd' = VideoEnd /\ MappedPages' = MappedPages
        /\ KernelDirs' = KernelDirs /\ AllDirs' = AllDirs /\ PagesNeeded' = PagesNeeded
    BY <1>3, FixedStay
  <2>2. (Paging' <=> Paging) /\ (InLoop' <=> InLoop)
    BY <1>1 DEF Paging, InLoop
  <2>3. Taken' = Taken
    BY <1>1, <2>1 DEF Taken, InLoop
  <2>4. Done' = Done
    BY <1>1, <2>1 DEF Done, InLoop
  <2>5. pc \notin {"pgdir", "clearDir"} => Laid(Done)'
    <3>1. pc \notin {"pgdir", "clearDir"} => Laid(Done)
      BY <1>2 DEF Progress
    <3> QED
      BY <1>1, <1>3, <2>1, <2>4, <3>1 DEF Laid
  <2>6. InLoop => Job' /\ Turn'
    <3>1. InLoop => Job /\ Turn
      BY <1>2 DEF Progress
    <3> QED
      BY <1>1, <2>1, <3>1 DEF Job, Turn, InLoop
  <2>7. Testing'
    BY <1>1, <1>2, <2>1 DEF Progress, Testing
  <2> QED
    BY <1>1, <1>2, <1>3, <2>2, <2>3, <2>5, <2>6, <2>7 DEF Progress
<1>8. pc' \in AfterVideo => TablesReachable
  BY <1>1 DEF BootIInv, BootOutcome
<1> QED
  BY <1>1, <1>3, <1>5, <1>6, <1>7, <1>8, Reaches

(* What main cannot reach is a table beyond the pages that the first call  *)
(* has mapped, or what the null pointer at the end of the list points to.  *)
LEMMA FaultsJustified ==
  ASSUME BootIInv, Faulting
  PROVE  /\ ~TablesReachable \/ ~WalkSafe
         /\ pc # "screen"
<1>1. pc \in {"clearDir", "link", "clearTab", "fill", "screen", "walk"}
  BY DEF Faulting, Touched
<1>2. CASE pc = "clearDir"
  <2>1. ~pg
    BY <1>2 DEF BootIInv, Progress, Paging, InLoop, AfterVideo
  <2>2. Touched = {kpgdir}
    BY <1>2 DEF Touched
  <2>3. Phys(kpgdir) = kpgdir
    BY <2>1 DEF Phys
  <2>4. kpgdir # NULL
    BY PageAssumption DEF BootIInv, BootTyped, BootTypeOK, Pages
  <2> QED
    BY <1>2, <2>2, <2>3, <2>4 DEF Faulting
<1>3. CASE pc \in {"link", "clearTab", "fill"}
  <2>1. InLoop
    BY <1>3 DEF InLoop
  <2>2. /\ BootTyped /\ Image /\ Turn
        /\ nr_kernel_page \in Nat /\ KernelTables \in Nat /\ VideoTables \in Nat
        /\ MappedPages \in Nat
    BY <2>1, LoopFacts, ImageNumbers, Geometry, PagesMapped
  <2>3. Touched \in {{kpgdir}, {job.tab}}
    BY <1>3 DEF Touched
  <2>4. /\ kpgdir \in Pages /\ job.tab \in Pages
        /\ kpgdir \in Nat /\ job.tab \in Nat
        /\ kpgdir <= nr_kernel_page + KernelTables + VideoTables
        /\ job.tab <= nr_kernel_page + KernelTables + VideoTables
    <3>1. kpgdir = nr_kernel_page /\ kpgdir \in Pages
      BY <2>1, LoopFacts
    <3>2. /\ job.tab = TablePage(job.dir) /\ TablePage(job.dir) \in Nat
          /\ TablePage(job.dir) <= nr_kernel_page + KernelTables + VideoTables
      BY <1>3, <2>1, <2>2, LoopFacts DEF Turn
    <3>3. job.tab \in Pages
      BY <2>2 DEF BootTyped, BootTypeOK
    <3> QED
      BY <2>2, <3>1, <3>2, <3>3
  <2>5. PICK p \in Pages : /\ p \in Nat /\ Phys(p) = NULL
                           /\ p <= nr_kernel_page + KernelTables + VideoTables
    BY <1>3, <2>3, <2>4 DEF Faulting
  <2>6. pg /\ Translate(p) = NULL
    BY <2>5, PageAssumption DEF Phys
  <2> PICK L : L = Done
    OBVIOUS
  <2>7. Translate(p) = IF p < MappedPages THEN p ELSE NULL
    BY <2>1, <2>6, LoopFacts, RamMapped
  <2>8. MappedPages <= p
    BY <2>2, <2>5, <2>6, <2>7, PageAssumption
  <2> QED
    BY <1>3, <2>2, <2>5, <2>8 DEF TablesReachable
<1>4. CASE pc = "screen"
  <2>1. Image /\ Laid(AllDirs) /\ pg
    BY <1>4, AllLaid DEF AfterVideo
  <2>2. Touched = PagesOf(vram.base, BufSize)
    BY <1>4 DEF Touched
  <2> QED
    BY <1>4, <2>1, <2>2, ScreenMapped DEF Faulting, Phys
<1>5. CASE pc = "walk"
  <2>1. page = Wild
    BY <1>5 DEF Faulting, Touched
  <2>2. /\ BootTyped /\ Testing /\ PagesNeeded \in Nat /\ WalkPages \in Nat
    BY <1>5, AllLaid DEF AfterVideo
  <2>3. /\ logged \in Nat /\ logged < WalkPages
        /\ page = IF PagesNeeded + logged < NPages THEN PagesNeeded + logged
                  ELSE IF PagesNeeded + logged = NPages THEN NULL ELSE Wild
    BY <1>5, <2>2 DEF BootTyped, BootTypeOK, Testing
  <2>4. NPages \in Nat /\ NULL # Wild
    BY PageAssumption DEF Wild
  <2>5. PagesNeeded + logged > NPages
    BY <2>1, <2>2, <2>3, <2>4 DEF Wild
  <2> QED
    BY <1>5, <2>2, <2>3, <2>4, <2>5 DEF WalkSafe
<1> QED
  BY <1>1, <1>2, <1>3, <1>4, <1>5

(* A derailed boot has left its image, its tables and its pages behind.    *)
LEMMA DerailedIInv ==
  ASSUME BootIInv, pc' = "derailed", ~TablesReachable \/ ~WalkSafe,
         UNCHANGED <<vars, end, kpgdir, pg, table, job, vram, test_locals>>
  PROVE  BootIInv'
<1>1. UNCHANGED <<nr_kernel_page, ref_count, next, free_page_list, owners, panic,
                  frame_buf, page, logged>>
  BY DEF vars, test_locals
<1>2. UNCHANGED Fixed
  BY <1>1 DEF Fixed
<1>3. IInv'
  <2>1. IInv
    BY DEF BootIInv
  <2> QED
    BY <2>1, NextIInv
<1>4. /\ Image' = Image /\ PagesNeeded' = PagesNeeded
      /\ TablesReachable' = TablesReachable /\ WalkSafe' = WalkSafe
  BY <1>2, FixedStay
<1>5. BootTyped'
  BY <1>1, <1>3 DEF IInv, BootIInv, BootTyped, BootTypeOK, Labels
<1>6. BootOutcome'
  BY <1>1, <1>4 DEF BootIInv, BootOutcome, AfterVideo
<1>7. IdentityMap' /\ TablesOwned'
  <2>1. \A v : Translate(v)' = Translate(v)
    BY DEF Translate
  <2> QED
    BY <1>1, <2>1 DEF BootIInv, IdentityMap, TablesOwned
<1> QED
  BY <1>3, <1>4, <1>5, <1>6, <1>7 DEF BootIInv

LEMMA PageFaultIInv == BootIInv /\ PageFault => BootIInv'
BY FaultsJustified, DerailedIInv DEF PageFault

LEMMA MainStepIInv == BootIInv /\ MainStep => BootIInv'
BY GetPgdirIInv, ClearDirIInv, AllocTabIInv, ClearTabIInv, FillIInv, LinkIInv,
   EnablePagingIInv, InitVideoIInv, TestAllocIInv, TestReleaseIInv,
   TestWalkIInv, UpdateScreenIInv, OutOfPagesIInv DEF MainStep

LEMMA BootNextIInv == BootIInv /\ [BootNext]_bootVars => BootIInv'
<1> SUFFICES ASSUME BootIInv, [BootNext]_bootVars PROVE BootIInv'
  OBVIOUS
<1>1. CASE MainStep
  BY <1>1, MainStepIInv
<1>2. CASE PageFault
  BY <1>2, PageFaultIInv
<1>3. CASE UNCHANGED bootVars
  <2>1. /\ UNCHANGED vars
        /\ UNCHANGED <<end, pc, kpgdir, pg, table, job, vram, frame_buf, page, logged>>
    BY <1>3 DEF bootVars, onlyBoot, test_locals
  <2>2. UNCHANGED <<nr_kernel_page, ref_count, next, free_page_list, owners, panic>>
    BY <2>1 DEF vars
  <2>3. IInv' /\ ListTop' = ListTop
    <3>1. IInv
      BY DEF BootIInv
    <3> QED
      BY <2>1, <2>2, <3>1, NextIInv DEF ListTop
  <2>4. UNCHANGED Fixed
    BY <2>1, <2>2 DEF Fixed
  <2>5. /\ \A d : TablePage(d)' = TablePage(d)
        /\ \A d, e : Mapped(d, e)' = Mapped(d, e)
        /\ VideoDir' = VideoDir /\ KernelTables' = KernelTables
        /\ VideoTables' = VideoTables
        /\ KernelEnd' = KernelEnd /\ VideoEnd' = VideoEnd /\ MappedPages' = MappedPages
        /\ KernelDirs' = KernelDirs /\ AllDirs' = AllDirs /\ PagesNeeded' = PagesNeeded
        /\ TablesReachable' = TablesReachable /\ WalkSafe' = WalkSafe
        /\ Image' = Image
    BY <2>4, FixedStay
  <2>6. BootTyped'
    BY <2>1, <2>2, <2>3 DEF IInv, BootIInv, BootTyped, BootTypeOK
  <2>7. BootOutcome'
    BY <2>1, <2>2, <2>5 DEF BootIInv, BootOutcome
  <2>8. IdentityMap' /\ TablesOwned'
    <3>1. \A v : Translate(v)' = Translate(v)
      BY <2>1 DEF Translate
    <3> QED
      BY <2>1, <2>2, <3>1 DEF BootIInv, IdentityMap, TablesOwned
  <2>9. Progress' = Progress
    <3>1. (Paging' <=> Paging) /\ (InLoop' <=> InLoop)
      BY <2>1 DEF Paging, InLoop
    <3>2. Taken' = Taken /\ Done' = Done
      BY <2>1, <2>2, <2>5, <3>1 DEF Taken, Done
    <3>3. Laid(Done)' <=> Laid(Done)
      BY <2>1, <2>2, <2>3, <2>5, <3>2 DEF Laid
    <3>4. (Job' <=> Job) /\ (Turn' <=> Turn) /\ (Testing' <=> Testing)
      BY <2>1, <2>2, <2>5 DEF Job, Turn, Testing
    <3> QED
      BY <2>1, <2>2, <2>3, <3>1, <3>2, <3>3, <3>4 DEF Progress
  <2> QED
    BY <2>1, <2>3, <2>5, <2>6, <2>7, <2>8, <2>9 DEF BootIInv
<1> QED
  BY <1>1, <1>2, <1>3 DEF BootNext

-----------------------------------------------------------------------------
(* Theorems                                                                *)

(* The invariant holds whatever main does, up to the first frame, PANIC or *)
(* a page fault.                                                           *)
THEOREM BootInvariant == BootSpec => []BootIInv
BY BootInitIInv, BootNextIInv, PTL DEF BootSpec

(* init_page, init_video and test_page keep their types: frames are pages  *)
(* of the RAM, entries of the tables are frames or absent, the directory   *)
(* index stays inside the directory.                                       *)
THEOREM BootTypes == BootSpec => []BootTypeOK
<1>1. BootIInv => BootTypeOK
  BY DEF BootIInv, BootTyped
<1> QED
  BY <1>1, BootInvariant, PTL

(* main, up to the game: a page fault means that mm_continous_map put a    *)
(* table out of its own reach or that test_page logs more pages than are   *)
(* left; PANIC means that the memory cannot hold what is needed.           *)
THEOREM Outcomes == BootSpec => []BootOutcome
<1>1. BootIInv => BootOutcome
  BY DEF BootIInv
<1> QED
  BY <1>1, BootInvariant, PTL

(* mm_continous_map maps every page it maps to itself, so that page.c may  *)
(* go on to use physical addresses as pointers.                            *)
THEOREM MapsToItself == BootSpec => []IdentityMap
<1>1. BootIInv => IdentityMap
  BY DEF BootIInv
<1> QED
  BY <1>1, BootInvariant, PTL

(* mm_continous_map gives every directory entry a table of its own, a page *)
(* that alloc_page granted for it and that test_page never gets.           *)
THEOREM TablesAreOwned == BootSpec => []TablesOwned
<1>1. BootIInv => TablesOwned
  BY DEF BootIInv
<1> QED
  BY <1>1, BootInvariant, PTL

(* What the processor finds depends on what is linked.                     *)
Found(L, v) == IF v \div NPT \in L /\ ~(v < NPT /\ KernelEnd <= v) THEN v ELSE NULL

AsLinked == \A L \in SUBSET AllDirs : Laid(L) =>
               \A v \in 0..(VPages - 1) : Translate(v) = Found(L, v)

LEMMA TranslatesAsLinked == Image => AsLinked
BY Translates DEF AsLinked, Found

(* Once linked, a directory stays linked.                                  *)
LEMMA DoneGrows ==
  ASSUME BootIInv, BootIInv', pg, ClearTab \/ Fill \/ Link
  PROVE  /\ Image /\ Image' /\ UNCHANGED Fixed
         /\ Done \in SUBSET AllDirs /\ Done' \in SUBSET AllDirs'
         /\ Laid(Done) /\ Laid(Done)' /\ Done \subseteq Done'
<1>1. /\ pc \in {"clearTab", "fill", "link"} /\ InLoop
      /\ UNCHANGED <<vars, end, pg, vram>>
      /\ pc' \in {"fill", "link", "tab"} \/ (pc = "link" /\ pc' = job.ret)
  BY DEF ClearTab, Fill, Link, Running, InLoop
<1>2. /\ Image /\ BootTyped /\ Progress /\ Job /\ Laid(Done) /\ Done \in SUBSET AllDirs
  BY <1>1, LoopFacts
<1>3. UNCHANGED Fixed /\ job.ret = "test"
  BY <1>1, <1>2 DEF Fixed, vars, Job
<1>4. /\ Image' = Image /\ AllDirs' = AllDirs /\ KernelDirs' = KernelDirs
      /\ VideoDir' = VideoDir
  BY <1>3, FixedStay
<1>5. Done = KernelDirs \cup VideoDir..(job.dir - 1)
  BY <1>1 DEF Done, InLoop
<1>6. Progress' /\ Laid(Done)'
  BY <1>1, <1>3 DEF BootIInv, Progress
<1>7. Done \subseteq Done' /\ Done' \in SUBSET AllDirs'
  <2>1. CASE pc' = "test"
    <3>1. Done' = AllDirs
      BY <1>4, <2>1 DEF Done, InLoop
    <3> QED
      BY <1>2, <1>4, <3>1
  <2>2. CASE pc' \in {"fill", "link", "tab"}
    <3>1. job'.dir \in {job.dir, job.dir + 1} /\ job.dir \in Int
      BY <1>2, <2>2 DEF ClearTab, Fill, Link, BootTyped, Jobs
    <3>2. Done' = KernelDirs \cup VideoDir..(job'.dir - 1)
      BY <1>1, <1>4, <2>2 DEF Done, InLoop
    <3>3. Job'
      BY <2>2, <1>6 DEF Progress, InLoop
    <3>4. VideoDir \in Nat /\ VideoTables \in Nat /\ VideoTables' = VideoTables
      BY <1>2, <1>3, Geometry, FixedStay
    <3>5. job'.dir \in VideoDir..(VideoDir + VideoTables - 1)
      BY <1>1, <1>4, <3>3, <3>4 DEF Job
    <3>6. Done \subseteq Done'
      BY <1>5, <3>1, <3>2, <3>4
    <3>7. Done' \subseteq AllDirs
      BY <3>2, <3>4, <3>5 DEF AllDirs, VideoDirs
    <3> QED
      BY <1>4, <3>6, <3>7
  <2> QED
    BY <1>1, <1>3, <2>1, <2>2
<1> QED
  BY <1>2, <1>3, <1>4, <1>6, <1>7

(* init_video, which links tables while paging is on, and all that follows:*)
(* no page that main can reach is ever lost or moved.                      *)
LEMMA TranslatedStay ==
  ASSUME BootIInv, BootIInv', [BootNext]_bootVars, pg, pg',
         NEW v \in 0..(VPages - 1), Translate(v) # NULL
  PROVE  Translate(v)' = Translate(v)
<1>1. CASE UNCHANGED <<table, kpgdir>>
  BY <1>1 DEF Translate
<1>2. CASE ClearTab \/ Fill \/ Link
  <2>1. /\ Image /\ Image' /\ UNCHANGED Fixed
        /\ Done \in SUBSET AllDirs /\ Done' \in SUBSET AllDirs'
        /\ Laid(Done) /\ Laid(Done)' /\ Done \subseteq Done'
    BY <1>2, DoneGrows
  <2>2. KernelEnd' = KernelEnd
    BY <2>1, FixedStay
  <2>3. Translate(v) = Found(Done, v)
    BY <2>1, TranslatesAsLinked DEF AsLinked
  <2>4. (Image => AsLinked)'
    BY TranslatesAsLinked, PTL
  <2> PICK L : L = Done'
    OBVIOUS
  <2>5. Laid(L)' /\ L \in SUBSET AllDirs'
    BY <2>1 DEF Laid
  <2>6. Translate(v)' = IF v \div NPT \in L /\ ~(v < NPT /\ KernelEnd' <= v)
                        THEN v ELSE NULL
    BY <2>1, <2>4, <2>5 DEF AsLinked, Found
  <2> QED
    BY <2>1, <2>2, <2>3, <2>6 DEF Found
<1>3. ~GetPgdir /\ ~ClearDir
  BY DEF GetPgdir, ClearDir, Running, BootIInv, Progress, Paging, InLoop, AfterVideo
<1> QED
  BY <1>1, <1>2, <1>3
     DEF BootNext, MainStep, AllocTab, EnablePaging, InitVideo, TestAlloc,
         TestRelease, TestWalk, UpdateScreen, OutOfPages, PageFault, onlyBoot,
         bootVars

(* init_video and what follows it: every page that is translated stays     *)
(* translated, to the same page, while main writes tables through them.    *)
THEOREM NothingUnmapped == BootSpec => TranslationsStay
<1>1. BootIInv /\ BootIInv' /\ [BootNext]_bootVars
        => [pg /\ pg' => \A v \in 0..(VPages - 1) :
               Translate(v) # NULL => Translate(v)' = Translate(v)]_bootVars
  BY TranslatedStay
<1> QED
  BY <1>1, BootInvariant, PTL DEF BootSpec, TranslationsStay
=============================================================================
