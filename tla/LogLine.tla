------------------------------ MODULE LogLine -------------------------------
(* What the kernel log promises: the terminal shows every character of a   *)
(* log line once, in order, unspoilt, and in the end all of them.          *)
EXTENDS Naturals, Sequences

VARIABLES text,   \* what serial_printf was asked to write
          shown   \* what the terminal has received

LineInit == shown = <<>>

Show == /\ Len(shown) < Len(text)
        /\ shown' = Append(shown, text[Len(shown) + 1])
        /\ UNCHANGED text

LineSpec == LineInit /\ [][Show]_<<text, shown>> /\ WF_<<text, shown>>(Show)
=============================================================================
