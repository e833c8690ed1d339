----------------------------- MODULE MCMachine ------------------------------
(* An instance of Machine: a TSS that lies across a 64 KB boundary.        *)
EXTENDS Machine

MCTssBase == <<16, 65500>>
=============================================================================
