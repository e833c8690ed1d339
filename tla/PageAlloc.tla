------------------------------ MODULE PageAlloc ------------------------------
(***************************************************************************)
(* The physical page allocator of kernel/page.c: page_pool, the free list  *)
(* threaded through it, alloc_page and release_page, for callers that give *)
(* back what they hold and for callers that give back what they do not.    *)
(*                                                                         *)
(* A PageInfo pointer is the index of the page it points to; its `frame'   *)
(* field never changes after init_page, so it is an operator.  The ghost   *)
(* variable owners counts the callers that were given a page and have not  *)
(* given it back: the code keeps no such record, and the properties        *)
(* compare what it does keep with it.                                      *)
(***************************************************************************)
EXTENDS Integers

CONSTANTS NPages,   \* PHY_SIZE / PG_SIZE
          RefMod,   \* ref_count is an unsigned integer modulo RefMod
          MaxSkew,  \* bound on the misuse of one frame, see Skew
          NULL      \* the null PageInfo pointer

ASSUME PageAssumption == /\ NPages \in Nat /\ NPages > 1
                         /\ RefMod \in Nat /\ RefMod > 2
                         /\ MaxSkew \in 0..(RefMod - 2)
                         /\ NULL \notin Int

Pages == 0..(NPages - 1)
Reasons == {"none", "nofree", "inuse", "limit"}

VARIABLES nr_kernel_page,  \* pages of the image: roundup(end) / PG_SIZE
          ref_count,       \* page_pool[i].ref_count
          next,            \* page_pool[i].next
          free_page_list,  \* head of the list of free pages
          panic,           \* why the kernel spins in PANIC, or "none"
          owners           \* ghost: how many callers hold page i

vars == <<nr_kernel_page, ref_count, next, free_page_list, panic, owners>>

(* Mutant: the numbering starts one entry too late.                        *)
FrameOfLate(i) == IF i <= nr_kernel_page THEN 0 ELSE i

(* page_pool[i].frame: the entries of the kernel image keep the 0 of the   *)
(* memset, the loop numbers the others.                                    *)
FrameOf(i) == IF i < nr_kernel_page THEN 0 ELSE i

-----------------------------------------------------------------------------
(* Mutant: the image's end is rounded down, not up.                        *)
InitRoundsDown ==
    /\ nr_kernel_page \in 1..(NPages - 1)
    /\ ref_count = [i \in Pages |-> 0]
    /\ next = [i \in Pages |-> IF i \in (nr_kernel_page - 1)..(NPages - 2)
                               THEN i + 1 ELSE NULL]
    /\ free_page_list = nr_kernel_page - 1
    /\ panic = "none"
    /\ owners = [i \in Pages |-> 0]

(* init_page up to the construction of the list                            *)
Init == /\ nr_kernel_page \in 1..(NPages - 1)
        /\ ref_count = [i \in Pages |-> 0]
        /\ next = [i \in Pages |-> IF i \in nr_kernel_page..(NPages - 2)
                                   THEN i + 1 ELSE NULL]
        /\ free_page_list = nr_kernel_page
        /\ panic = "none"
        /\ owners = [i \in Pages |-> 0]

(* alloc_page takes the head of the list off, clears its link ...          *)
Unlink == /\ panic = "none"
          /\ free_page_list # NULL
          /\ free_page_list' = next[free_page_list]
          /\ next' = [next EXCEPT ![free_page_list] = NULL]
          /\ UNCHANGED nr_kernel_page

(* ... counts the reference and returns the frame number to the caller.    *)
AllocPage == /\ Unlink
             /\ ref_count[free_page_list] = 0
             /\ ref_count' = [ref_count EXCEPT ![free_page_list] = 1]
             /\ owners' = [owners EXCEPT ![FrameOf(free_page_list)] = @ + 1]
             /\ UNCHANGED panic

(* The TEST comes after the list has changed.                              *)
AllocInUse == /\ Unlink
              /\ ref_count[free_page_list] # 0
              /\ panic' = "inuse"
              /\ UNCHANGED <<ref_count, owners>>

(* Mutant: the list is taken for empty when it has one page left.          *)
AllocNoFreeEarly ==
    /\ panic = "none"
    /\ free_page_list # NULL
    /\ next[free_page_list] = NULL
    /\ panic' = "nofree"
    /\ UNCHANGED <<nr_kernel_page, ref_count, next, free_page_list, owners>>

AllocNoFree ==
    /\ panic = "none"
    /\ free_page_list = NULL
    /\ panic' = "nofree"
    /\ UNCHANGED <<nr_kernel_page, ref_count, next, free_page_list, owners>>

(* Mutant: the page is pushed on the list, its count is left as it was.    *)
DropKeepsCount(frame) == /\ next' = [next EXCEPT ![frame] = free_page_list]
                         /\ free_page_list' = frame
                         /\ UNCHANGED ref_count

(* What release_page does to the pool.  When the count reaches zero the    *)
(* code writes page->next = free_page_list and then free_page_list =       *)
(* page->next, so that the head keeps the value it had.                    *)
Drop(frame) ==
    LET count == (ref_count[frame] + RefMod - 1) % RefMod
    IN  /\ ref_count' = [ref_count EXCEPT ![frame] = count]
        /\ next' = IF count = 0
                   THEN [next EXCEPT ![frame] = free_page_list] ELSE next
        /\ free_page_list' = IF count = 0 THEN next'[frame]
                                          ELSE free_page_list

(* A caller gives back a frame that it holds.                              *)
ReleasePage(frame) == /\ panic = "none"
                      /\ owners[frame] > 0
                      /\ Drop(frame)
                      /\ owners' = [owners EXCEPT ![frame] = @ - 1]
                      /\ UNCHANGED <<nr_kernel_page, panic>>

(* How far the count of a frame has been brought below the number of its   *)
(* holders.  MaxSkew bounds it: the 2^32 misuses that bring a count all    *)
(* the way round to zero are left out.                                     *)
Skew(p) == (owners[p] + RefMod - ref_count[p]) % RefMod

(* A caller gives back a frame that it does not hold (a frame of another   *)
(* caller, a frame released before, a frame of the image): the count goes  *)
(* down whoever holds the frame.                                           *)
StrayRelease(frame) == /\ panic = "none"
                       /\ Skew(frame) < MaxSkew
                       /\ Drop(frame)
                       /\ UNCHANGED <<nr_kernel_page, panic, owners>>

(* TEST(frame < PHY_SIZE / PG_SIZE) fails before anything is changed.      *)
ReleaseBeyond ==
    /\ panic = "none"
    /\ MaxSkew > 0
    /\ panic' = "limit"
    /\ UNCHANGED <<nr_kernel_page, ref_count, next, free_page_list, owners>>

Next == \/ AllocPage
        \/ AllocInUse
        \/ AllocNoFree
        \/ \E frame \in Pages : ReleasePage(frame) \/ StrayRelease(frame)
        \/ ReleaseBeyond

Spec == Init /\ [][Next]_vars

-----------------------------------------------------------------------------
(* The pages alloc_page can still reach: the smallest set that holds the   *)
(* head and, with a page, the page its link names.                         *)
ListClosed(S) == /\ free_page_list # NULL => free_page_list \in S
                 /\ \A p \in S : next[p] # NULL => next[p] \in S

FreePages == {p \in Pages : \A S \in SUBSET Pages : ListClosed(S) => p \in S}
Held == {p \in Pages : owners[p] > 0}
ImagePages == 0..(nr_kernel_page - 1)

(* Every variable of the allocator (page_pool, free_page_list) keeps the   *)
(* type its C declaration gives it.                                        *)
TypeOK == /\ nr_kernel_page \in 1..(NPages - 1)
          /\ ref_count \in [Pages -> 0..(RefMod - 1)]
          /\ next \in [Pages -> Pages \cup {NULL}]
          /\ free_page_list \in Pages \cup {NULL}
          /\ panic \in Reasons
          /\ owners \in [Pages -> Nat]

(* Two callers of alloc_page never hold the same frame, and none is given  *)
(* a frame of the kernel image, whatever is released by whom.              *)
FramesExclusive == \A p \in Pages : /\ owners[p] <= 1
                                    /\ p \in ImagePages => owners[p] = 0

(* The list leads to no page of the kernel image and to none that somebody *)
(* holds: releasing another caller's frame does not link it.               *)
FreeListSound == FreePages \cap (ImagePages \cup Held) = {}

(* A PANIC of alloc_page is never the allocator's own fault: "No free      *)
(* page!" is said when nothing is linked, and the in-use TEST fires only   *)
(* when some frame was released more often than it was granted.            *)
PanicJustified == /\ panic = "nofree" => FreePages = {}
                  /\ panic = "inuse" => \E p \in Pages : Skew(p) > 0

(* While nobody misuses the allocator, the counts it keeps are the numbers *)
(* of holders.                                                             *)
RefCountsOwners == \A p \in Pages : ref_count[p] = owners[p]

(* release_page (its comment says it releases the page) puts a frame that  *)
(* no caller holds any more back on the list of free pages.                *)
ReleasedIsFree ==
    [][\A p \in Pages : owners[p] = 1 /\ owners'[p] = 0 => p \in FreePages']_vars

(* alloc_page and release_page implement the abstract pool of frames.      *)
Pool == INSTANCE FramePool WITH Frame <- Pages,
                                avail <- FreePages,
                                held <- Held,
                                halted <- (panic # "none")
PoolSpec == Pool!PoolSpec
=============================================================================
