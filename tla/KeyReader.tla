------------------------------ MODULE KeyReader ------------------------------
(***************************************************************************)
(* What get_key of kernel/keyboard.c promises the game: each return value  *)
(* is the key of one stroke, a stroke is reported after it has ended,      *)
(* never twice, and strokes are reported in the order in which they began. *)
(* Strokes may go unreported.                                              *)
(***************************************************************************)
EXTENDS Naturals, Sequences

CONSTANT Key

VARIABLES begun,     \* keys of the strokes so far, in order
          ended,     \* strokes whose key has been let go
          reported   \* strokes get_key has returned, in order: [s, key]

readerVars == <<begun, ended, reported>>

LastReported == IF reported = <<>> THEN 0 ELSE reported[Len(reported)].s

ReaderInit == begun = <<>> /\ ended = {} /\ reported = <<>>

Begin(k) == /\ begun' = Append(begun, k)
            /\ UNCHANGED <<ended, reported>>

End(s) == /\ ended' = ended \cup {s}
          /\ UNCHANGED <<begun, reported>>

Report(s) == /\ s > LastReported
             /\ s \in ended
             /\ reported' = Append(reported, [s |-> s, key |-> begun[s]])
             /\ UNCHANGED <<begun, ended>>

ReaderNext == \/ \E k \in Key : Begin(k)
              \/ \E s \in 1..Len(begun) : End(s) \/ Report(s)

ReaderSpec == ReaderInit /\ [][ReaderNext]_readerVars
=============================================================================
