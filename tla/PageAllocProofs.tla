-------------------------- MODULE PageAllocProofs --------------------------
(***************************************************************************)
(* Theorems about the page allocator, for every number of pages, every     *)
(* size of the kernel image, every width of the reference count and every  *)
(* amount of misuse below that width.                                      *)
(*                                                                         *)
(* The inductive invariant says that the free list is always a tail of     *)
(* page_pool, in ascending order, of pages that nobody holds: alloc_page   *)
(* takes its first page, and release_page, which leaves the head where it  *)
(* was, writes a link only into a page below the tail.                     *)
(***************************************************************************)
EXTENDS PageAlloc, TLAPS, WellFoundedInduction

(* A set of naturals with a member has a least one.                        *)
LEMMA LeastMember ==
  ASSUME NEW T \in SUBSET Nat, T # {}
  PROVE  \E x \in T : \A y \in T : x <= y
<1> DEFINE Below == {ss \in Nat \X Nat : ss[1] < ss[2]}
<1>1. IsWellFoundedOn(Below, Nat)
  BY NatLessThanWellFounded DEF OpToRel
<1>2. \E x \in T : \A y \in T : <<y, x>> \notin Below
  <2> HIDE DEF Below
  <2> QED
    BY <1>1, WFMin
<1> PICK x \in T : \A y \in T : <<y, x>> \notin Below
  BY <1>2
<1>3. ASSUME NEW y \in T PROVE x <= y
  <2>1. <<y, x>> \in Nat \X Nat /\ ~(<<y, x>>[1] < <<y, x>>[2])
    OBVIOUS
  <2> QED
    BY <2>1
<1> QED
  BY <1>3

(* The first page of the tail that is still linked.                        *)
ListTop == IF free_page_list = NULL THEN NPages ELSE free_page_list

(* The count of a linked page is zero or has been brought below zero.      *)
Linked == \A i \in Pages : i >= ListTop =>
             /\ next[i] = IF i + 1 < NPages THEN i + 1 ELSE NULL
             /\ owners[i] = 0
             /\ \/ ref_count[i] = 0
                \/ ref_count[i] >= RefMod - MaxSkew

Owned == /\ \A i \in Pages : owners[i] \in {0, 1}
         /\ \A i \in Pages : i < nr_kernel_page => owners[i] = 0
         /\ MaxSkew = 0 => RefCountsOwners

Panicked == /\ panic = "nofree" => free_page_list = NULL
            /\ panic = "inuse" => \E p \in Pages : Skew(p) > 0

IInv == /\ TypeOK
        /\ ListTop \in nr_kernel_page..NPages
        /\ Linked
        /\ Owned
        /\ Panicked

-----------------------------------------------------------------------------
(* Counting down modulo RefMod.                                            *)
LEMMA CountDown ==
  ASSUME NEW c \in 0..(RefMod - 1)
  PROVE  (c + RefMod - 1) % RefMod = IF c = 0 THEN RefMod - 1 ELSE c - 1
BY PageAssumption, SMT

(* The skew of a page that nobody holds.                                   *)
LEMMA SkewUnowned ==
  ASSUME NEW p, ref_count[p] \in 0..(RefMod - 1), owners[p] = 0
  PROVE  Skew(p) = IF ref_count[p] = 0 THEN 0 ELSE RefMod - ref_count[p]
BY PageAssumption, SMT DEF Skew

(* A skew is never negative.                                               *)
LEMMA SkewIsNat ==
  ASSUME NEW p, ref_count[p] \in Int, owners[p] \in Int
  PROVE  Skew(p) \in Int /\ Skew(p) >= 0
BY PageAssumption, SMT DEF Skew

(* init_page leaves a well-formed pool: the image's pages are outside the  *)
(* list and all the others are in it.                                      *)
LEMMA InitIInv == Init => IInv
<1> USE PageAssumption DEF Pages
<1> SUFFICES ASSUME Init PROVE IInv
  OBVIOUS
<1>1. TypeOK
  BY DEF Init, TypeOK, Reasons
<1>2. free_page_list # NULL /\ ListTop = nr_kernel_page
  BY DEF Init, ListTop
<1>3. Linked
  BY <1>2 DEF Init, Linked
<1>4. Owned /\ Panicked
  BY DEF Init, Owned, RefCountsOwners, Panicked
<1> QED
  BY <1>1, <1>2, <1>3, <1>4 DEF IInv, TypeOK

(* Taking the head off makes the list the tail that starts one page up.    *)
LEMMA UnlinkTop ==
  ASSUME IInv, Unlink
  PROVE  /\ ListTop = free_page_list
         /\ ListTop \in Pages
         /\ ListTop >= nr_kernel_page
         /\ owners[ListTop] = 0
         /\ FrameOf(ListTop) = ListTop
         /\ free_page_list' \in Pages \cup {NULL}
         /\ next' = [next EXCEPT ![ListTop] = NULL]
         /\ nr_kernel_page' = nr_kernel_page
         /\ ListTop' = ListTop + 1
<1> USE PageAssumption DEF Pages
<1> DEFINE h == free_page_list
<1>1. /\ h \in Pages
      /\ h >= nr_kernel_page
      /\ ListTop = h
      /\ owners[h] = 0
      /\ next[h] = IF h + 1 < NPages THEN h + 1 ELSE NULL
      /\ FrameOf(h) = h
  BY DEF IInv, TypeOK, ListTop, Linked, Unlink, FrameOf
<1>2. /\ free_page_list' = next[h]
      /\ next' = [next EXCEPT ![h] = NULL]
      /\ nr_kernel_page' = nr_kernel_page
  BY <1>1 DEF Unlink
<1>3. ListTop' = h + 1
  <2>1. CASE h + 1 < NPages
    <3>1. free_page_list' = h + 1 /\ h + 1 # NULL
      BY <1>1, <1>2, <2>1
    <3> QED
      BY <3>1 DEF ListTop
  <2>2. CASE ~(h + 1 < NPages)
    <3>1. free_page_list' = NULL /\ h + 1 = NPages
      BY <1>1, <1>2, <2>2
    <3> QED
      BY <3>1 DEF ListTop
  <2> QED
    BY <2>1, <2>2
<1> QED
  BY <1>1, <1>2, <1>3

(* Granting the head preserves the invariant.                              *)
LEMMA AllocIInv ==
  ASSUME IInv, AllocPage
  PROVE  /\ IInv'
         /\ owners' = [owners EXCEPT ![ListTop] = 1]
         /\ panic = "none" /\ panic' = "none"
<1> USE PageAssumption DEF Pages
<1>1. /\ ListTop = free_page_list
      /\ ListTop \in Pages
      /\ ListTop >= nr_kernel_page
      /\ owners[ListTop] = 0
      /\ FrameOf(ListTop) = ListTop
      /\ free_page_list' \in Pages \cup {NULL}
      /\ next' = [next EXCEPT ![ListTop] = NULL]
      /\ nr_kernel_page' = nr_kernel_page
      /\ ListTop' = ListTop + 1
  BY UnlinkTop DEF AllocPage
<1>2. /\ ref_count' = [ref_count EXCEPT ![ListTop] = 1]
      /\ owners' = [owners EXCEPT ![ListTop] = 1]
      /\ panic = "none" /\ panic' = "none"
  BY <1>1 DEF AllocPage, Unlink, IInv, TypeOK
<1>3. TypeOK'
  <2> USE DEF IInv, TypeOK
  <2>1. ref_count' \in [Pages -> 0..(RefMod - 1)]
    <3>1. 1 \in 0..(RefMod - 1)
      OBVIOUS
    <3> QED
      BY <1>2, <3>1
  <2>2. next' \in [Pages -> Pages \cup {NULL}]
    BY <1>1
  <2>3. owners' \in [Pages -> Nat]
    BY <1>2
  <2> QED
    BY <1>1, <1>2, <2>1, <2>2, <2>3 DEF Reasons
<1>4. Linked'
  <2> SUFFICES ASSUME NEW i \in Pages, i >= ListTop'
               PROVE  /\ next'[i] = IF i + 1 < NPages THEN i + 1 ELSE NULL
                      /\ owners'[i] = 0
                      /\ \/ ref_count'[i] = 0
                         \/ ref_count'[i] >= RefMod - MaxSkew
    BY DEF Linked
  <2>1. i >= ListTop /\ i # ListTop
    BY <1>1
  <2>2. next'[i] = next[i] /\ owners'[i] = owners[i] /\ ref_count'[i] = ref_count[i]
    BY <1>1, <1>2, <2>1 DEF IInv, TypeOK
  <2> QED
    BY <2>1, <2>2 DEF IInv, Linked
<1>5. Owned'
  BY <1>1, <1>2 DEF IInv, TypeOK, Owned, RefCountsOwners
<1>6. Panicked'
  BY <1>2 DEF Panicked
<1>7. ListTop' \in nr_kernel_page'..NPages
  BY <1>1 DEF IInv, TypeOK
<1> QED
  BY <1>2, <1>3, <1>4, <1>5, <1>6, <1>7 DEF IInv

(* The in-use TEST fires on a page that nobody holds but whose count is    *)
(* not zero: it has been misused.                                          *)
LEMMA InUseIInv ==
  ASSUME IInv, AllocInUse
  PROVE  IInv' /\ owners' = owners
<1> USE PageAssumption DEF Pages
<1>1. /\ ListTop = free_page_list
      /\ ListTop \in Pages
      /\ ListTop >= nr_kernel_page
      /\ owners[ListTop] = 0
      /\ free_page_list' \in Pages \cup {NULL}
      /\ next' = [next EXCEPT ![ListTop] = NULL]
      /\ nr_kernel_page' = nr_kernel_page
      /\ ListTop' = ListTop + 1
  BY UnlinkTop DEF AllocInUse
<1>2. /\ ref_count' = ref_count /\ owners' = owners
      /\ panic' = "inuse"
      /\ ref_count[ListTop] # 0
  BY <1>1 DEF AllocInUse
<1>3. TypeOK'
  BY <1>1, <1>2 DEF IInv, TypeOK, Reasons
<1>4. Linked'
  <2> SUFFICES ASSUME NEW i \in Pages, i >= ListTop'
               PROVE  /\ next'[i] = IF i + 1 < NPages THEN i + 1 ELSE NULL
                      /\ owners'[i] = 0
                      /\ \/ ref_count'[i] = 0
                         \/ ref_count'[i] >= RefMod - MaxSkew
    BY DEF Linked
  <2>1. i >= ListTop /\ i # ListTop
    BY <1>1
  <2>2. next'[i] = next[i] /\ owners'[i] = owners[i] /\ ref_count'[i] = ref_count[i]
    BY <1>1, <1>2, <2>1 DEF IInv, TypeOK
  <2> QED
    BY <2>1, <2>2 DEF IInv, Linked
<1>5. Owned'
  BY <1>1, <1>2 DEF IInv, Owned, RefCountsOwners
<1>6. Panicked'
  <2>1. ref_count[ListTop] \in 0..(RefMod - 1)
    BY <1>1 DEF IInv, TypeOK
  <2>2. Skew(ListTop) > 0
    BY <1>1, <1>2, <2>1, SkewUnowned
  <2>3. \A p : Skew(p)' = Skew(p)
    BY <1>2 DEF Skew
  <2> QED
    BY <1>1, <1>2, <2>2, <2>3 DEF Panicked
<1>7. ListTop' \in nr_kernel_page'..NPages
  BY <1>1 DEF IInv, TypeOK
<1> QED
  BY <1>2, <1>3, <1>4, <1>5, <1>6, <1>7 DEF IInv

(* A PANIC that changes nothing else.                                      *)
LEMMA HaltIInv ==
  ASSUME IInv, AllocNoFree \/ ReleaseBeyond
  PROVE  IInv'
<1>1. /\ UNCHANGED <<nr_kernel_page, ref_count, next, free_page_list, owners>>
      /\ panic' \in {"nofree", "limit"}
      /\ panic' = "nofree" => free_page_list = NULL
  BY DEF AllocNoFree, ReleaseBeyond
<1>2. TypeOK' /\ Linked' /\ Owned' /\ ListTop' = ListTop
  BY <1>1 DEF IInv, TypeOK, Reasons, Linked, Owned, RefCountsOwners, ListTop
<1>3. Panicked'
  BY <1>1 DEF Panicked
<1> QED
  BY <1>1, <1>2, <1>3 DEF IInv

(* What release_page writes: the count, and a link if the page is below    *)
(* the tail; never the head.                                               *)
LEMMA DropFrame ==
  ASSUME NEW f \in Pages, IInv, Drop(f), f < ListTop \/ Skew(f) < MaxSkew
  PROVE  /\ free_page_list' = free_page_list
         /\ next' \in [Pages -> Pages \cup {NULL}]
         /\ \A i \in Pages : i >= ListTop => next'[i] = next[i]
         /\ ref_count' = [ref_count EXCEPT ![f] =
                             IF ref_count[f] = 0 THEN RefMod - 1
                                                 ELSE ref_count[f] - 1]
         /\ f >= ListTop => \/ ref_count'[f] = 0
                        \/ ref_count'[f] >= RefMod - MaxSkew
<1> USE PageAssumption DEF Pages
<1> DEFINE c == ref_count[f]
           d == IF c = 0 THEN RefMod - 1 ELSE c - 1
<1>1. c \in 0..(RefMod - 1)
  BY DEF IInv, TypeOK
<1>2. (c + RefMod - 1) % RefMod = d
  BY <1>1, CountDown
<1>3. /\ ref_count' = [ref_count EXCEPT ![f] = d]
      /\ next' = IF d = 0 THEN [next EXCEPT ![f] = free_page_list] ELSE next
      /\ free_page_list' = IF d = 0 THEN next'[f] ELSE free_page_list
  <2> DEFINE count == (ref_count[f] + RefMod - 1) % RefMod
  <2>1. /\ ref_count' = [ref_count EXCEPT ![f] = count]
        /\ next' = IF count = 0 THEN [next EXCEPT ![f] = free_page_list]
                                ELSE next
        /\ free_page_list' = IF count = 0 THEN next'[f] ELSE free_page_list
    BY Zenon DEF Drop
  <2>2. count = d
    BY <1>2
  <2> HIDE DEF count, d
  <2> QED
    BY <2>1, <2>2
<1>4. free_page_list' = free_page_list /\ next' \in [Pages -> Pages \cup {NULL}]
  BY <1>3 DEF IInv, TypeOK
<1>5. ASSUME f >= ListTop PROVE d # 0 /\ d >= RefMod - MaxSkew
  <2>1. /\ owners[f] = 0
        /\ c = 0 \/ c >= RefMod - MaxSkew
    BY <1>5 DEF IInv, Linked
  <2>2. Skew(f) = IF c = 0 THEN 0 ELSE RefMod - c
    BY <1>1, <2>1, SkewUnowned
  <2>3. Skew(f) < MaxSkew
    BY <1>5 DEF IInv, TypeOK
  <2> QED
    BY <1>1, <2>1, <2>2, <2>3
<1>6. \A i \in Pages : i >= ListTop => next'[i] = next[i]
  BY <1>3, <1>5 DEF IInv, TypeOK
<1>7. ref_count'[f] = d
  BY <1>3 DEF IInv, TypeOK
<1> QED
  BY <1>3, <1>4, <1>5, <1>6, <1>7

(* Any release of a page, by a holder or not, preserves the invariant.     *)
LEMMA ReleaseIInv ==
  ASSUME NEW f \in Pages, IInv, ReleasePage(f) \/ StrayRelease(f)
  PROVE  /\ IInv'
         /\ ListTop' = ListTop
         /\ \/ ReleasePage(f) /\ owners' = [owners EXCEPT ![f] = 0]
            \/ owners' = owners
<1> USE PageAssumption DEF Pages
<1>1. f < ListTop \/ Skew(f) < MaxSkew
  BY DEF IInv, TypeOK, Linked, ReleasePage, StrayRelease
<1>2. /\ free_page_list' = free_page_list
      /\ next' \in [Pages -> Pages \cup {NULL}]
      /\ \A i \in Pages : i >= ListTop => next'[i] = next[i]
      /\ ref_count' = [ref_count EXCEPT ![f] =
                          IF ref_count[f] = 0 THEN RefMod - 1
                                              ELSE ref_count[f] - 1]
      /\ f >= ListTop => \/ ref_count'[f] = 0
                     \/ ref_count'[f] >= RefMod - MaxSkew
  <2>1. Drop(f)
    BY DEF ReleasePage, StrayRelease
  <2> QED
    BY <1>1, <2>1, DropFrame
<1>3. /\ nr_kernel_page' = nr_kernel_page
      /\ panic = "none" /\ panic' = "none"
  BY DEF ReleasePage, StrayRelease
<1>4. \/ /\ ReleasePage(f)
         /\ owners[f] = 1
         /\ owners' = [owners EXCEPT ![f] = 0]
      \/ StrayRelease(f) /\ owners' = owners
  <2>1. CASE ReleasePage(f)
    <3>1. owners[f] = 1
      BY <2>1 DEF IInv, TypeOK, Owned, ReleasePage
    <3>2. owners' = [owners EXCEPT ![f] = 0]
      BY <2>1, <3>1 DEF ReleasePage
    <3> QED
      BY <2>1, <3>1, <3>2
  <2>2. CASE StrayRelease(f)
    BY <2>2 DEF StrayRelease
  <2> QED
    BY <2>1, <2>2
<1>5. TypeOK'
  <2>1. owners' \in [Pages -> Nat]
    <3>1. owners \in [Pages -> Nat]
      BY DEF IInv, TypeOK
    <3> QED
      BY <1>4, <3>1
  <2>2. ref_count' \in [Pages -> 0..(RefMod - 1)]
    <3>1. ref_count[f] \in 0..(RefMod - 1) /\ ref_count \in [Pages -> 0..(RefMod - 1)]
      BY DEF IInv, TypeOK
    <3>2. (IF ref_count[f] = 0 THEN RefMod - 1 ELSE ref_count[f] - 1) \in 0..(RefMod - 1)
      BY <3>1
    <3> QED
      BY <1>2, <3>1, <3>2
  <2> QED
    BY <1>2, <1>3, <2>1, <2>2 DEF IInv, TypeOK
<1>6. ListTop' = ListTop
  BY <1>2 DEF ListTop
<1>7. Linked'
  BY <1>2, <1>4, <1>6 DEF IInv, TypeOK, Linked
<1>8. Owned'
  <2>1. ASSUME MaxSkew = 0 PROVE RefCountsOwners'
    <3>1. ~StrayRelease(f)
      <4>1. ref_count[f] \in Int /\ owners[f] \in Int
        BY DEF IInv, TypeOK
      <4>2. Skew(f) \in Int /\ Skew(f) >= 0
        BY <4>1, SkewIsNat
      <4> QED
        BY <2>1, <4>2 DEF StrayRelease
    <3> QED
      BY <1>2, <1>4, <2>1, <3>1 DEF IInv, TypeOK, Owned, RefCountsOwners
  <2>2. \A i \in Pages : /\ owners'[i] \in {0, 1}
                         /\ i < nr_kernel_page' => owners'[i] = 0
    <3>1. CASE owners' = [owners EXCEPT ![f] = 0]
      BY <1>3, <3>1 DEF IInv, TypeOK, Owned
    <3>2. CASE owners' = owners
      BY <1>3, <3>2 DEF IInv, Owned
    <3> QED
      BY <1>4, <3>1, <3>2
  <2> QED
    BY <2>1, <2>2 DEF Owned
<1>9. Panicked'
  BY <1>3 DEF Panicked
<1> QED
  BY <1>3, <1>4, <1>5, <1>6, <1>7, <1>8, <1>9 DEF IInv

(* Every step of the allocator preserves the inductive invariant.          *)
LEMMA NextIInv == IInv /\ [Next]_vars => IInv'
<1> SUFFICES ASSUME IInv, [Next]_vars PROVE IInv'
  OBVIOUS
<1>1. CASE AllocPage
  BY <1>1, AllocIInv
<1>2. CASE AllocInUse
  BY <1>2, InUseIInv
<1>3. CASE AllocNoFree \/ ReleaseBeyond
  BY <1>3, HaltIInv
<1>4. CASE \E f \in Pages : ReleasePage(f) \/ StrayRelease(f)
  BY <1>4, ReleaseIInv
<1>5. CASE UNCHANGED vars
  BY <1>5 DEF vars, IInv, TypeOK, ListTop, Linked, Owned, RefCountsOwners,
              Panicked, Skew
<1> QED
  BY <1>1, <1>2, <1>3, <1>4, <1>5 DEF Next

(* The free list is a tail of page_pool in every reachable state.          *)
THEOREM Invariant == Spec => []IInv
BY InitIInv, NextIInv, PTL DEF Spec

-----------------------------------------------------------------------------
(* The variables of the allocator keep their types.                        *)
THEOREM TypeCorrect == Spec => []TypeOK
BY Invariant, PTL DEF IInv

(* Two callers never hold the same frame, and none holds one of the image, *)
(* whatever is released by whom.                                           *)
THEOREM Exclusive == Spec => []FramesExclusive
<1>1. IInv => FramesExclusive
  <2> SUFFICES ASSUME IInv, NEW p \in Pages
               PROVE  owners[p] <= 1 /\ (p \in ImagePages => owners[p] = 0)
    BY DEF FramesExclusive
  <2>1. owners[p] \in {0, 1} /\ (p < nr_kernel_page => owners[p] = 0)
    BY DEF IInv, Owned
  <2>2. p \in ImagePages => p < nr_kernel_page
    BY DEF IInv, TypeOK, ImagePages
  <2> QED
    BY <2>1, <2>2
<1> QED
  BY <1>1, Invariant, PTL

(* Without misuse the counts are the numbers of holders, and the in-use    *)
(* TEST never fires.                                                       *)
THEOREM Disciplined ==
  ASSUME MaxSkew = 0
  PROVE  Spec => [](RefCountsOwners /\ panic \in {"none", "nofree"})
<1>1. ASSUME NEW p \in Pages, TypeOK, RefCountsOwners PROVE ~(Skew(p) > 0)
  <2>1. Skew(p) = RefMod % RefMod
    BY <1>1, PageAssumption DEF TypeOK, RefCountsOwners, Skew
  <2> QED
    BY <2>1, PageAssumption, SMT
<1>2. IInv => RefCountsOwners /\ panic # "inuse"
  BY <1>1 DEF IInv, Owned, Panicked
<1>3. panic # "limit" /\ [Next]_vars => (panic # "limit")'
  BY PageAssumption DEF Next, vars, AllocPage, AllocInUse, AllocNoFree, Unlink,
                        ReleasePage, StrayRelease, ReleaseBeyond
<1>4. Init => panic # "limit"
  BY DEF Init
<1>5. Spec => [](panic # "limit")
  BY <1>3, <1>4, PTL DEF Spec
<1>6. IInv /\ panic # "limit" => RefCountsOwners /\ panic \in {"none", "nofree"}
  BY <1>2 DEF IInv, TypeOK, Reasons
<1> QED
  BY <1>5, <1>6, Invariant, PTL

(* What the list leads to lies in the tail that starts at ListTop: the tail is *)
(* closed under the links.                                                 *)
LEMMA FreeInTail == IInv => FreePages \subseteq {p \in Pages : p >= ListTop}
<1> USE PageAssumption DEF Pages
<1> SUFFICES ASSUME IInv PROVE FreePages \subseteq {p \in Pages : p >= ListTop}
  OBVIOUS
<1> DEFINE Tail == {p \in Pages : p >= ListTop}
<1>1. free_page_list # NULL => free_page_list \in Tail
  BY DEF IInv, TypeOK, ListTop
<1>2. \A p \in Tail : next[p] # NULL => next[p] \in Tail
  BY DEF IInv, Linked, ListTop
<1>3. ListClosed(Tail)
  BY <1>1, <1>2 DEF ListClosed
<1> QED
  BY <1>3 DEF FreePages

(* The list leads to every page of the tail: the first page it missed      *)
(* would be the one its predecessor names.                                 *)
LEMMA FreeIsTail == IInv => FreePages = {p \in Pages : p >= ListTop}
<1> USE PageAssumption DEF Pages
<1> SUFFICES ASSUME IInv,
                    NEW p \in Pages, p >= ListTop,
                    NEW S \in SUBSET Pages, ListClosed(S), p \notin S
             PROVE  FALSE
  BY FreeInTail DEF FreePages
<1> DEFINE Missed == {q \in Pages : q >= ListTop /\ q \notin S}
<1>1. PICK x \in Missed : \A y \in Missed : x <= y
  <2>1. Missed \in SUBSET Nat /\ Missed # {}
    OBVIOUS
  <2> HIDE DEF Missed
  <2> QED
    BY <2>1, LeastMember
<1>2. CASE x = ListTop
  <2>1. free_page_list = x
    BY <1>2 DEF ListTop
  <2> QED
    BY <2>1, PageAssumption DEF ListClosed
<1>3. CASE x # ListTop
  <2>1. x - 1 \in Pages /\ x - 1 >= ListTop
    BY <1>3, PageAssumption DEF IInv, TypeOK
  <2>2. x - 1 \in S
    BY <1>1, <2>1
  <2>3. next[x - 1] = x
    BY <2>1 DEF IInv, Linked
  <2> QED
    BY <2>2, <2>3 DEF ListClosed
<1> QED
  BY <1>2, <1>3

(* The list leads to no page of the image and to none that is held.        *)
THEOREM FreeSound == Spec => []FreeListSound
<1>1. IInv => FreeListSound
  BY FreeInTail, PageAssumption
     DEF IInv, TypeOK, Linked, Pages, FreeListSound, ImagePages, Held
<1> QED
  BY <1>1, Invariant, PTL

(* A PANIC of alloc_page is never the allocator's own fault.               *)
THEOREM PanicsJustified == Spec => []PanicJustified
<1>1. IInv => PanicJustified
  BY FreeInTail, PageAssumption DEF IInv, Panicked, PanicJustified, ListTop, Pages
<1> QED
  BY <1>1, Invariant, PTL

(* The allocator implements the abstract pool of frames: what is available *)
(* is what the list leads to, and a frame given back need not become       *)
(* available again (it does not: see ReleasedIsFree).                      *)
THEOREM Refinement == Spec => PoolSpec
<1> USE PageAssumption DEF Pages
<1>1. Init => Pool!PoolInit
  BY DEF Init, Held, FreePages, Pool!PoolInit
<1>2. (IInv => FreePages = {p \in Pages : p >= ListTop})'
  BY FreeIsTail, PTL
<1>3. IInv /\ IInv' /\ [Next]_vars => [Pool!PoolNext]_(Pool!poolVars)
  <2> SUFFICES ASSUME IInv, IInv', [Next]_vars
               PROVE  [Pool!PoolNext]_(Pool!poolVars)
    OBVIOUS
  <2>1. /\ FreePages = {p \in Pages : p >= ListTop}
        /\ FreePages' = {p \in Pages : p >= ListTop'}
    BY <1>2, FreeIsTail
  <2>2. CASE AllocPage
    <3>1. /\ ListTop \in Pages
          /\ ListTop' = ListTop + 1
          /\ owners' = [owners EXCEPT ![ListTop] = 1]
          /\ panic = "none" /\ panic' = "none"
      BY <2>2, AllocIInv, UnlinkTop DEF AllocPage
    <3>2. FreePages' = FreePages \ {ListTop} /\ ListTop \in FreePages
      BY <2>1, <3>1
    <3>3. Held' = Held \cup {ListTop}
      <4>1. \A i \in Pages : owners'[i] = IF i = ListTop THEN 1 ELSE owners[i]
        BY <3>1 DEF IInv, TypeOK
      <4> QED
        BY <3>1, <4>1 DEF Held
    <3>4. Pool!Grant(ListTop)
      BY <3>1, <3>2, <3>3 DEF Pool!Grant
    <3> QED
      BY <3>1, <3>4 DEF Pool!PoolNext
  <2>3. CASE \E f \in Pages : ReleasePage(f) \/ StrayRelease(f)
    <3> PICK f \in Pages : ReleasePage(f) \/ StrayRelease(f)
      BY <2>3
    <3>1. /\ ListTop' = ListTop
          /\ \/ ReleasePage(f) /\ owners' = [owners EXCEPT ![f] = 0]
             \/ owners' = owners
      BY ReleaseIInv
    <3>2. panic = "none" /\ panic' = "none"
      BY DEF ReleasePage, StrayRelease
    <3>3. FreePages' = FreePages
      BY <2>1, <3>1
    <3>4. CASE ReleasePage(f) /\ owners' = [owners EXCEPT ![f] = 0]
      <4>1. Held' = Held \ {f} /\ f \in Held
        <5>1. owners \in [Pages -> Nat] /\ owners[f] > 0
          BY <3>4 DEF IInv, TypeOK, ReleasePage
        <5>2. \A p \in Pages : owners'[p] = IF p = f THEN 0 ELSE owners[p]
          BY <3>4, <5>1
        <5> QED
          BY <5>1, <5>2 DEF Held
      <4>2. Pool!Return(f)
        BY <3>2, <3>3, <4>1 DEF Pool!Return
      <4> QED
        BY <4>2 DEF Pool!PoolNext
    <3>5. CASE owners' = owners
      BY <3>2, <3>3, <3>5 DEF Held, Pool!poolVars
    <3> QED
      BY <3>1, <3>4, <3>5
  <2>4. CASE AllocInUse
    <3>1. ListTop' = ListTop + 1 /\ ListTop \in Pages
      BY <2>4, UnlinkTop DEF AllocInUse
    <3>2. FreePages' \subseteq FreePages
      BY <2>1, <3>1
    <3>3. Pool!Halt
      BY <2>4, <3>2 DEF AllocInUse, Unlink, Held, Pool!Halt
    <3> QED
      BY <3>3 DEF Pool!PoolNext
  <2>5. CASE AllocNoFree \/ ReleaseBeyond
    <3>1. FreePages' = FreePages
      BY <2>1, <2>5 DEF AllocNoFree, ReleaseBeyond, ListTop
    <3>2. Pool!Halt
      BY <3>1, <2>5 DEF AllocNoFree, ReleaseBeyond, Held, Pool!Halt
    <3> QED
      BY <3>2 DEF Pool!PoolNext
  <2>6. CASE UNCHANGED vars
    BY <2>6 DEF vars, FreePages, ListClosed, Held, Pool!poolVars
  <2> QED
    BY <2>2, <2>3, <2>4, <2>5, <2>6 DEF Next
<1> QED
  BY <1>1, <1>3, Invariant, PTL DEF Spec, PoolSpec, Pool!PoolSpec
=============================================================================
