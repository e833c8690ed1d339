---------------------------- MODULE MCBootLoader ----------------------------
(* Instances of BootLoader: segments that begin and end anywhere in a      *)
(* sector, at two places of the file.                                      *)
EXTENDS BootLoader

MCSegments ==
    {[pa |-> a, memsz |-> m, offset |-> 4 * o + (a % 4)] :
       a \in 12..17, m \in {0, 1, 4, 7}, o \in {2, 3}}
=============================================================================
