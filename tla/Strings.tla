------------------------------ MODULE Strings -------------------------------
(***************************************************************************)
(* The string routines of lib/string.c: loops that walk one or two         *)
(* pointers through memory, an action for each.  A memory is the sequence  *)
(* of its bytes, a pointer the index of one, 0 none.                       *)
(***************************************************************************)
EXTENDS Integers, Sequences

CONSTANTS Memories, \* memories that the routines are called on
          Dst, Src, \* the addresses that they are given
          Counts,   \* values of size and n
          Chars     \* values of c, bytes without sign

Value == 0..255   \* of a byte

(* The string at a has its NUL at e.                                       *)
Ends(m, a, e) == /\ e \in a..Len(m)
                 /\ m[e] = 0
                 /\ \A x \in a..(e - 1) : m[x] # 0

(* What the callers guarantee: both strings end, and the destination has   *)
(* room for what is asked for, apart from the string that is read.         *)
ASSUME StringAssumption ==
    /\ {Dst, Src} \subseteq Nat \ {0} /\ Counts \subseteq Nat /\ Chars \subseteq Value
    /\ \A m \in Memories :
          /\ m \in Seq(Value)
          /\ \E d, e \in DOMAIN m :
                /\ Ends(m, Dst, d) /\ Ends(m, Src, e)
                /\ \A k \in Counts \cup {d - Dst + e - Src + 1} :
                      /\ Dst + k <= Len(m) + 1
                      /\ Dst + k <= Src \/ e < Dst
          /\ \A k \in Counts : Src + k <= Len(m) + 1

VARIABLES memory,  \* memory
          before,  \* memory at the call
          asked,   \* the routine, its size or n, and its c
          dst, src, size,  \* the routine's pointers and what is left of its size
          tail,    \* strcat has found the end of dst
          answer   \* its return value, NoAnswer before

stringVars == <<memory, before, asked, dst, src, size, tail, answer>>

NoAnswer == -256   \* less than any difference of two bytes

Routines == {"strcpy", "strcat", "strncpy", "strlcpy", "strlen", "strnlen", "strcmp",
             "strncmp", "strfind", "strchr", "memcmp", "memfind"}

StringInit == /\ memory \in Memories
              /\ before = memory
              /\ asked \in [fn : Routines, n : Counts, c : Chars]
              /\ dst = Dst /\ src = Src
              /\ size = asked.n
              /\ tail = FALSE
              /\ answer = NoAnswer

-----------------------------------------------------------------------------
(* Once more round the loop: by how much the pointers and size change      *)
Turn(d, s, k) == /\ dst' = dst + d /\ src' = src + s /\ size' = size - k
                 /\ UNCHANGED <<tail, answer>>

Answer(r) == answer' = r /\ UNCHANGED <<dst, src, size, tail>>

Store(byte) == memory' = [memory EXCEPT ![dst] = byte]

(* n counts the steps of s.                                                *)
strlen == /\ asked.fn = "strlen"
          /\ IF memory[src] # 0 THEN Turn(0, 1, 0) ELSE Answer(src - Src)
          /\ UNCHANGED memory

strnlen == /\ asked.fn = "strnlen"
           /\ IF size > 0 /\ memory[src] # 0 THEN Turn(0, 1, 1) ELSE Answer(src - Src)
           /\ UNCHANGED memory

Copy == /\ Store(memory[src])
        /\ IF memory[src] # 0 THEN Turn(1, 1, 0) ELSE Answer(Dst)

strcpy == asked.fn = "strcpy" /\ Copy

strcat == /\ asked.fn = "strcat"
          /\ \/ ~tail /\ memory[dst] # 0 /\ Turn(1, 0, 0) /\ UNCHANGED memory
             \/ /\ ~tail /\ memory[dst] = 0 /\ tail' = TRUE
                /\ UNCHANGED <<memory, dst, src, size, answer>>
             \/ tail /\ Copy

(* src stays on its NUL, which pads dst.                                   *)
strncpy == /\ asked.fn = "strncpy"
           /\ \/ /\ size > 0
                 /\ Store(memory[src])
                 /\ Turn(1, IF memory[src] = 0 THEN 0 ELSE 1, 1)
              \/ size = 0 /\ Answer(Dst) /\ UNCHANGED memory

(* Mutant: size does not count the NUL.                                    *)
StrlcpyOneMore == /\ asked.fn = "strlcpy"
                  /\ \/ size = 0 /\ Answer(IF asked.n = 0 THEN 0 ELSE dst - Dst)
                        /\ IF asked.n = 0 THEN UNCHANGED memory ELSE Store(0)
                     \/ size > 0 /\ memory[src] # 0 /\ Store(memory[src]) /\ Turn(1, 1, 1)
                     \/ size > 0 /\ memory[src] = 0 /\ Store(0) /\ Answer(dst - Dst)

strlcpy == /\ asked.fn = "strlcpy"
           /\ \/ size = 0 /\ Answer(0) /\ UNCHANGED memory
              \/ size > 1 /\ memory[src] # 0 /\ Store(memory[src]) /\ Turn(1, 1, 1)
              \/ /\ size > 0
                 /\ size = 1 \/ memory[src] = 0
                 /\ Store(0)
                 /\ Answer(dst - Dst)

strcmp == /\ asked.fn = "strcmp"
          /\ IF memory[dst] # 0 /\ memory[dst] = memory[src] THEN Turn(1, 1, 0)
             ELSE Answer(memory[dst] - memory[src])
          /\ UNCHANGED memory

strncmp == /\ asked.fn = "strncmp"
           /\ IF size > 0 /\ memory[dst] # 0 /\ memory[dst] = memory[src] THEN Turn(1, 1, 1)
              ELSE Answer(IF size = 0 THEN 0 ELSE memory[dst] - memory[src])
           /\ UNCHANGED memory

strfind == /\ asked.fn = "strfind"
           /\ IF memory[src] \notin {0, asked.c} THEN Turn(0, 1, 0) ELSE Answer(src)
           /\ UNCHANGED memory

(* A null pointer when the end is reached first, so for c = 0, too.        *)
strchr == /\ asked.fn = "strchr"
          /\ IF memory[src] \notin {0, asked.c} THEN Turn(0, 1, 0)
             ELSE Answer(IF memory[src] = 0 THEN 0 ELSE src)
          /\ UNCHANGED memory

memcmp == /\ asked.fn = "memcmp"
          /\ IF size > 0 /\ memory[dst] = memory[src] THEN Turn(1, 1, 1)
             ELSE Answer(IF size = 0 THEN 0 ELSE memory[dst] - memory[src])
          /\ UNCHANGED memory

memfind == /\ asked.fn = "memfind"
           /\ IF size > 0 /\ memory[src] # asked.c THEN Turn(0, 1, 1) ELSE Answer(src)
           /\ UNCHANGED memory

StringNext ==
    /\ answer = NoAnswer
    /\ \/ strlen \/ strnlen \/ strcpy \/ strcat \/ strncpy \/ strlcpy
       \/ strcmp \/ strncmp \/ strfind \/ strchr \/ memcmp \/ memfind
    /\ UNCHANGED <<before, asked>>

StringSpec == StringInit /\ [][StringNext]_stringVars

-----------------------------------------------------------------------------
(* The routines once more, in terms of the strings that are in memory      *)

End(a) == CHOOSE e \in DOMAIN before : Ends(before, a, e)
StringAt(a) == SubSeq(before, a, End(a) - 1)

Start(s, k) == SubSeq(s, 1, IF k < Len(s) THEN k ELSE Len(s))
Zeros(k) == [i \in 1..k |-> 0]

(* What a call must leave from Dst on                                      *)
Wanted(s, t, n) == CASE asked.fn = "strcpy"  -> t \o <<0>>
                     [] asked.fn = "strcat"  -> s \o t \o <<0>>
                     [] asked.fn = "strncpy" -> Start(t \o Zeros(n), n)
                     [] asked.fn = "strlcpy" -> IF n = 0 THEN <<>> ELSE Start(t, n - 1) \o <<0>>
                     [] OTHER -> <<>>

(* The sign r of a comparison, by bytes without sign and then by length    *)
Ordered(s, t, r) ==
    \/ s = t /\ r = 0
    \/ \E i \in 1..(Len(s) + 1) :
          /\ SubSeq(s, 1, i - 1) = SubSeq(t, 1, i - 1)
          /\ \/ i > Len(s) /\ i <= Len(t) /\ r < 0
             \/ i <= Len(s) /\ i > Len(t) /\ r > 0
             \/ i <= Len(s) /\ i <= Len(t) /\ s[i] < t[i] /\ r < 0
             \/ i <= Len(s) /\ i <= Len(t) /\ s[i] > t[i] /\ r > 0

(* r is the address of the first c of the bytes u at Src, else the one     *)
(* given.                                                                  *)
Found(u, c, else, r) == IF \E i \in DOMAIN u : u[i] = c
                        THEN r = Src - 1 + (CHOOSE i \in DOMAIN u :
                                              u[i] = c /\ \A j \in 1..(i - 1) : u[j] # c)
                        ELSE r = else

(* The memory m and the answer r are what was asked for.                   *)
MemoryWanted(m) ==
    LET wanted == Wanted(StringAt(Dst), StringAt(Src), asked.n)
    IN  m = [a \in DOMAIN before |->
               IF a \in Dst..(Dst + Len(wanted) - 1) THEN wanted[a - Dst + 1] ELSE before[a]]

AnswerWanted(r) ==
    LET s == StringAt(Dst)
        t == StringAt(Src)
        n == asked.n
        c == asked.c
    IN  CASE asked.fn \in {"strcpy", "strcat", "strncpy"} -> r = Dst
          [] asked.fn = "strlcpy" -> r = IF n = 0 THEN 0 ELSE Len(Start(t, n - 1))
          [] asked.fn = "strlen"  -> r = Len(t)
          [] asked.fn = "strnlen" -> r = Len(Start(t, n))
          [] asked.fn = "strcmp"  -> Ordered(s, t, r)
          [] asked.fn = "strncmp" -> Ordered(Start(s, n), Start(t, n), r)
          [] asked.fn = "memcmp"  -> Ordered(SubSeq(before, Dst, Dst + n - 1),
                                             SubSeq(before, Src, Src + n - 1), r)
          [] asked.fn = "strfind" -> Found(t, c, Src + Len(t), r)
          [] asked.fn = "strchr"  -> Found(t, c, 0, r)
          [] asked.fn = "memfind" -> Found(SubSeq(before, Src, Src + n - 1), c, Src + n, r)

(* Every routine of lib/string.c that walks a string does what its strings *)
(* say, for empty strings, counts of 0 and counts that cut a string short  *)
(* or reach behind its NUL, and no byte outside of the result is written:  *)
(* strncpy pads exactly to size, strlcpy always ends with a NUL within     *)
(* size, comparisons do not take a byte above 127 for a negative one.      *)
StringsAsPromised == answer # NoAnswer => MemoryWanted(memory) /\ AnswerWanted(answer)
=============================================================================
