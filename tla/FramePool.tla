------------------------------ MODULE FramePool ------------------------------
(***************************************************************************)
(* What the physical page allocator of kernel/page.c promises its callers, *)
(* without its lists and counts: a frame that is handed out leaves the     *)
(* pool and is handed to nobody else while it is held, a frame that is     *)
(* given back may become available again (or never), and the machine may   *)
(* halt.                                                                   *)
(*                                                                         *)
(* alloc_page    Grant(f), or Halt                                         *)
(* release_page  Return(f), or Halt                                        *)
(***************************************************************************)
CONSTANT Frame          \* all page frames

VARIABLES avail,        \* frames that a request may be given
          held,         \* frames some caller owns
          halted        \* the machine spins in PANIC

poolVars == <<avail, held, halted>>

PoolInit == /\ avail \in SUBSET Frame
            /\ held = {}
            /\ halted = FALSE

Grant(f) == /\ ~halted
            /\ f \in avail
            /\ avail' = avail \ {f}
            /\ held' = held \cup {f}
            /\ UNCHANGED halted

Return(f) == /\ ~halted
             /\ f \in held
             /\ held' = held \ {f}
             /\ avail' \in {avail, avail \cup {f}}
             /\ UNCHANGED halted

Halt == /\ ~halted
        /\ halted' = TRUE
        /\ avail' \in SUBSET avail
        /\ UNCHANGED held

PoolNext == \/ \E f \in Frame : Grant(f) \/ Return(f)
            \/ Halt

PoolSpec == PoolInit /\ [][PoolNext]_poolVars
=============================================================================
