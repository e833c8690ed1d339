------------------------------- MODULE MemOps -------------------------------
(***************************************************************************)
(* memset and memmove of lib/string.c (memcpy calls memmove): the x86      *)
(* string instructions with a repeat count, one step per repetition, by    *)
(* words if everything is aligned and by bytes if not.                     *)
(*                                                                         *)
(* A byte of memory holds the address whose content it has, or Filler.     *)
(***************************************************************************)
EXTENDS Integers

CONSTANTS Top,    \* memory is 0..Top
          Word    \* bytes of a word: 4

ASSUME MemAssumption == Top \in Nat /\ Word \in Nat \ {0}

Filler == -1
Memory == 0..Top

VARIABLES bytes,          \* memory
          call,           \* the call: [op, dst, src, n]
          edi, esi, ecx,  \* registers
          unit,           \* bytes of a repetition: 1 or Word
          df,             \* direction flag: descending addresses
          memPc           \* "start", "enter", "rep", "done"

moving == <<bytes, call, edi, esi, ecx, unit, df, memPc>>

Aligned(c) == /\ c.dst % Word = 0
              /\ c.op = "memmove" => c.src % Word = 0
              /\ c.n % Word = 0

(* Mutant: the ranges are taken to overlap only from the source's start.   *)
BackwardNever(c) == c.op = "memmove" /\ c.src < c.dst /\ c.src + c.n < c.dst

Backward(c) == c.op = "memmove" /\ c.src < c.dst /\ c.src + c.n > c.dst

Calls == {c \in [op : {"memset", "memmove"}, dst : Memory, src : Memory, n : 0..(Top + 1)] :
             c.dst + c.n <= Top + 1 /\ c.src + c.n <= Top + 1}

MemInit == /\ bytes = [a \in Memory |-> a]
           /\ call = [op |-> "memset", dst |-> 0, src |-> 0, n |-> 0]
           /\ edi = 0 /\ esi = 0 /\ ecx = 0 /\ unit = 1
           /\ df = FALSE
           /\ memPc = "start"

MemCall == /\ memPc = "start"
           /\ call' \in Calls
           /\ memPc' = "enter"
           /\ UNCHANGED <<bytes, edi, esi, ecx, unit, df>>

(* The C code up to the repeated instruction                               *)
Enter == LET size == IF Aligned(call) THEN Word ELSE 1
             last == IF Backward(call) THEN call.n - size ELSE 0
         IN  /\ memPc = "enter"
             /\ unit' = size
             /\ edi' = call.dst + last
             /\ esi' = call.src + last
             /\ ecx' = call.n \div size
             /\ df' = Backward(call)
             /\ memPc' = "rep"
             /\ UNCHANGED <<bytes, call>>

Content(a) == IF call.op = "memset" THEN Filler ELSE bytes[esi + a - edi]

(* stos or movs                                                            *)
Repetition == /\ memPc = "rep"
              /\ ecx > 0
              /\ bytes' = [a \in Memory |-> IF a \in edi..(edi + unit - 1) THEN Content(a)
                                                                          ELSE bytes[a]]
              /\ edi' = IF df THEN edi - unit ELSE edi + unit
              /\ esi' = IF df THEN esi - unit ELSE esi + unit
              /\ ecx' = ecx - 1
              /\ UNCHANGED <<call, unit, df, memPc>>

(* cld, and the return                                                     *)
Leave == /\ memPc = "rep"
         /\ ecx = 0
         /\ df' = FALSE
         /\ memPc' = "done"
         /\ UNCHANGED <<bytes, call, edi, esi, ecx, unit>>

MemNext == MemCall \/ Enter \/ Repetition \/ Leave

MemSpec == MemInit /\ [][MemNext]_moving

-----------------------------------------------------------------------------
(* When memmove returns, the destination holds what the source held at the *)
(* call, however the two overlap and whether it moved words or bytes;      *)
(* memset has filled n bytes; no other byte has changed, then or on the    *)
(* way; and the direction flag is clear, as compiled code expects it.      *)
MoveExact ==
    LET range == call.dst..(call.dst + call.n - 1)
    IN  /\ \A a \in Memory \ range : bytes[a] = a
        /\ memPc = "done" =>
             /\ \A a \in range : bytes[a] = IF call.op = "memset" THEN Filler
                                            ELSE call.src + a - call.dst
             /\ ~df
=============================================================================
