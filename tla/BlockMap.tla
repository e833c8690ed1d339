------------------------------ MODULE BlockMap ------------------------------
(***************************************************************************)
(* What the bitmap of lib/fs.c promises format: a set of blocks in use,    *)
(* from whose complement fs_alloc_blk takes the first, and returns         *)
(* 0xffffffff (ALL1) when there is none.                                   *)
(***************************************************************************)
EXTENDS Integers

CONSTANTS NBlocks,  \* sizeof(struct bitmap) * 8
          ALL1      \* 0xffffffff, the number of no block

ASSUME BlockAssumption == /\ NBlocks \in Nat \ {0}
                          /\ ALL1 \notin 0..(NBlocks - 1)

VARIABLES used,    \* blocks whose bit is set
          result   \* the last return value of fs_alloc_blk

mapVars == <<used, result>>

Blocks == 0..(NBlocks - 1)

FirstFree(u) == CHOOSE b \in Blocks \ u : \A c \in Blocks \ u : b <= c

MapInit == used = {} /\ result = ALL1

Take == /\ Blocks \ used # {}
        /\ result' = FirstFree(used)
        /\ used' = used \cup {result'}

Full == /\ Blocks \subseteq used
        /\ result' = ALL1
        /\ UNCHANGED used

Alloc == Take \/ Full

Mark(b) == used' = used \cup {b} /\ UNCHANGED result

Clear(b) == used' = used \ {b} /\ UNCHANGED result

MapNext == \/ Alloc
           \/ \E b \in Blocks : Mark(b) \/ Clear(b)

MapSpec == MapInit /\ [][MapNext]_mapVars
=============================================================================
