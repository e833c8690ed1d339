--------------------------- MODULE KeyboardProofs ---------------------------
(***************************************************************************)
(* get_key reads whole codes and implements its contract, for any number   *)
(* of keys and strokes and every kind of keyboard that Keyboard considers. *)
(*                                                                         *)
(* The proofs look at the bytes in the order in which get_key can still    *)
(* see them: the one that the port shows, the controller's buffer, the     *)
(* wire.  That stream only grows at its end and shrinks at its beginning,  *)
(* so that an order among its bytes is kept: makes come in the order of    *)
(* their strokes (only the key that went down last repeats), and so do all *)
(* bytes of one key, and no make follows the break of its stroke.          *)
(***************************************************************************)
EXTENDS Keyboard, SequenceTheorems, TLAPS

(* The stream: the byte on the port, then those to come.                   *)
View(l, f, w, i) == IF i = 0 THEN l
                    ELSE IF i <= Len(f) THEN f[i]
                    ELSE w[i - Len(f)]
Size == Len(fifo) + Len(wire)
At(i) == View(last, fifo, wire, i)

Codes == {k.c : k \in Keys} \cup {"none"}
Bytes == [t : {"E0", "make", "break", "ack"}, c : Codes, s : Nat]
Count == Len(strokes)

Places == /\ mode \in Modes
          /\ fifo \in Seq(Bytes) /\ wire \in Seq(Bytes) /\ last \in Bytes
          /\ held \in [Keys -> Nat]
          /\ strokes \in Seq(mode.keys)
          /\ released \subseteq 1..Count
          /\ pc \in {"idle", "press", "press2", "wait", "wait2"}
          /\ ~mode.bytewise => wire = <<>>

(* A stroke that has not ended holds its key, and is the key's last one.   *)
Holding ==
    /\ \A k \in Keys : held[k] # 0 => /\ held[k] \in 1..Count
                                      /\ strokes[held[k]] = k
                                      /\ held[k] \notin released
    /\ \A s \in 1..Count :
          /\ s \notin released => held[strokes[s]] = s
          /\ held[strokes[s]] # 0 => s <= held[strokes[s]]

IsCode(b) == b.t \in {"make", "break"}

(* Every byte comes from a stroke (but for the BIOS's ack).                *)
Known == \A i \in 0..Size :
            \/ i = 0 /\ At(i).t = "ack"
            \/ /\ At(i).t # "ack"
               /\ At(i).s \in 1..Count
               /\ At(i).c = strokes[At(i).s].c
               /\ At(i).t = "E0" => strokes[At(i).s].ext
               /\ At(i).t = "break" => At(i).s \in released

(* What is true of a byte a that comes before a byte b                     *)
Before(a, b) ==
    /\ a.t = "make" /\ b.t = "make" => a.s <= b.s
    /\ IsCode(a) /\ IsCode(b) /\ strokes[a.s] = strokes[b.s] => a.s <= b.s
    /\ a.t = "break" /\ b.t = "make" => a.s # b.s
InOrder == \A i, j \in 0..Size : i < j => Before(At(i), At(j))

(* Where no code is torn                                                   *)
Orderly == mode.bytewise => \A k \in mode.keys : ~k.ext

(* A prefix is followed by its code, a prefixed code by nothing but its    *)
(* prefix preceded, and get_key knows that it has read a prefix.           *)
Paired ==
    /\ \A i \in 0..Size : At(i).t = "E0" => /\ i < Size
                                            /\ IsCode(At(i + 1))
                                            /\ At(i + 1).s = At(i).s
    /\ \A i \in 1..Size : IsCode(At(i)) /\ strokes[At(i).s].ext => At(i - 1).t = "E0"
    /\ last.t = "E0" <=> pc \in {"press2", "wait2"}

(* Where a code tells its key                                              *)
Distinct == \A j, k \in mode.keys : j.c = k.c => j = k

LastReported == Reader!LastReported

(* get_key before it has a press code: what it may still see is new.       *)
Seeking ==
    pc \in {"idle", "press", "press2"} =>
       /\ last.t # "make"
       /\ \A i \in 0..Size : At(i).t = "make" => At(i).s > LastReported

(* get_key with a press code: what it may still see is no older.           *)
Waiting ==
    pc \in {"wait", "wait2"} =>
       /\ scancode.s \in 1..Count
       /\ scancode.s > LastReported
       /\ strokes[scancode.s] = [ext |-> scancode.ext, c |-> scancode.c]
       /\ \A i \in 0..Size :
             /\ At(i).t = "make" => At(i).s >= scancode.s
             /\ IsCode(At(i)) /\ strokes[At(i).s] = strokes[scancode.s]
                   => At(i).s >= scancode.s

Reported == /\ returned \in Seq([s : 1..Count, key : mode.keys])
            /\ WaitsForRelease

KeyIInv == /\ Places /\ Holding /\ Known /\ InOrder
           /\ Orderly => Paired
           /\ Orderly /\ Distinct => Seeking /\ Waiting /\ Reported

-----------------------------------------------------------------------------
(* Streams                                                                 *)
LEMMA ViewTyped ==
  ASSUME NEW S, NEW l \in S, NEW f \in Seq(S), NEW w \in Seq(S)
  PROVE  /\ Len(f) + Len(w) \in Nat
         /\ \A i \in 0..(Len(f) + Len(w)) : View(l, f, w, i) \in S
<1>1. Len(f) \in Nat /\ Len(w) \in Nat
  BY LenProperties
<1>2. ASSUME NEW i \in 0..(Len(f) + Len(w)) PROVE View(l, f, w, i) \in S
  <2>1. CASE i = 0
    BY <2>1 DEF View
  <2>2. CASE i # 0 /\ i <= Len(f)
    <3>1. i \in 1..Len(f)
      BY <1>1, <2>2, SMT
    <3>2. f[i] \in S
      BY <3>1, ElementOfSeq
    <3> QED
      BY <2>2, <3>2 DEF View
  <2>3. CASE i # 0 /\ ~(i <= Len(f))
    <3>1. i - Len(f) \in 1..Len(w)
      BY <1>1, <2>3, SMT
    <3>2. w[i - Len(f)] \in S
      BY <3>1, ElementOfSeq
    <3> QED
      BY <2>3, <3>2 DEF View
  <2> QED
    BY <2>1, <2>2, <2>3
<1> QED
  BY <1>1, <1>2

(* A byte is taken from the buffer.                                        *)
LEMMA ViewTaken ==
  ASSUME NEW S, NEW l \in S, NEW f \in Seq(S), NEW w \in Seq(S), f # <<>>
  PROVE  /\ Len(f) + Len(w) > 0 /\ Len(Tail(f)) + Len(w) = Len(f) + Len(w) - 1
         /\ Head(f) = View(l, f, w, 1)
         /\ \A i \in 0..(Len(f) + Len(w) - 1) :
               View(Head(f), Tail(f), w, i) = View(l, f, w, i + 1)
<1>1. Len(f) \in Nat \ {0} /\ Len(w) \in Nat
  BY LenProperties, EmptySeq
<1>2. /\ Len(Tail(f)) = Len(f) - 1
      /\ \A i \in 1..Len(Tail(f)) : Tail(f)[i] = f[i + 1]
  BY HeadTailProperties
<1>3. Head(f) = f[1]
  OBVIOUS
<1>4. Head(f) = View(l, f, w, 1)
  BY <1>1, <1>3, SMT DEF View
<1>5. ASSUME NEW i \in 0..(Len(f) + Len(w) - 1)
      PROVE  View(Head(f), Tail(f), w, i) = View(l, f, w, i + 1)
  <2>1. CASE i = 0
    BY <1>4, <2>1 DEF View
  <2>2. CASE i # 0 /\ i <= Len(f) - 1
    <3>1. i \in 1..Len(Tail(f)) /\ i <= Len(Tail(f)) /\ i + 1 <= Len(f) /\ i + 1 # 0
      BY <1>1, <1>2, <2>2, SMT
    <3>2. View(Head(f), Tail(f), w, i) = Tail(f)[i]
      BY <2>2, <3>1 DEF View
    <3>3. View(l, f, w, i + 1) = f[i + 1]
      BY <3>1 DEF View
    <3> QED
      BY <1>2, <3>1, <3>2, <3>3
  <2>3. CASE i # 0 /\ ~(i <= Len(f) - 1)
    <3>1. /\ ~(i <= Len(Tail(f))) /\ ~(i + 1 <= Len(f)) /\ i + 1 # 0
          /\ i - Len(Tail(f)) = i + 1 - Len(f)
      BY <1>1, <1>2, <2>3, SMT
    <3>2. View(Head(f), Tail(f), w, i) = w[i - Len(Tail(f))]
      BY <2>3, <3>1 DEF View
    <3>3. View(l, f, w, i + 1) = w[i + 1 - Len(f)]
      BY <3>1 DEF View
    <3> QED
      BY <3>1, <3>2, <3>3
  <2> QED
    BY <2>1, <2>2, <2>3
<1> QED
  BY <1>1, <1>2, <1>4, <1>5, SMT

(* A byte goes from the wire to the buffer.                                *)
LEMMA ViewDelivered ==
  ASSUME NEW S, NEW l \in S, NEW f \in Seq(S), NEW w \in Seq(S), w # <<>>
  PROVE  /\ Append(f, Head(w)) \in Seq(S) /\ Tail(w) \in Seq(S)
         /\ Len(Append(f, Head(w))) + Len(Tail(w)) = Len(f) + Len(w)
         /\ \A i \in 0..(Len(f) + Len(w)) :
               View(l, Append(f, Head(w)), Tail(w), i) = View(l, f, w, i)
<1> DEFINE g == Append(f, Head(w))
<1>1. Len(f) \in Nat /\ Len(w) \in Nat \ {0}
  BY LenProperties, EmptySeq
<1>2. /\ Head(w) \in S /\ Tail(w) \in Seq(S) /\ Len(Tail(w)) = Len(w) - 1
      /\ \A i \in 1..Len(Tail(w)) : Tail(w)[i] = w[i + 1]
  BY HeadTailProperties
<1>3. /\ g \in Seq(S) /\ Len(g) = Len(f) + 1
      /\ \A i \in 1..Len(f) : g[i] = f[i]
      /\ g[Len(f) + 1] = Head(w)
  BY <1>2, AppendProperties
<1>4. Head(w) = w[1]
  OBVIOUS
<1>5. ASSUME NEW i \in 0..(Len(f) + Len(w))
      PROVE  View(l, g, Tail(w), i) = View(l, f, w, i)
  <2> HIDE DEF g
  <2>1. CASE i = 0
    BY <2>1 DEF View
  <2>2. CASE i # 0 /\ i <= Len(f)
    <3>1. i \in 1..Len(f) /\ i <= Len(g)
      BY <1>1, <1>3, <2>2, SMT
    <3> QED
      BY <1>3, <2>2, <3>1 DEF View
  <2>3. CASE i = Len(f) + 1
    <3>1. i # 0 /\ ~(i <= Len(f)) /\ i <= Len(g) /\ i - Len(f) = 1
      BY <1>1, <1>3, <2>3, SMT
    <3>2. View(l, g, Tail(w), i) = Head(w)
      BY <1>3, <2>3, <3>1 DEF View
    <3>3. View(l, f, w, i) = w[1]
      BY <3>1 DEF View
    <3> QED
      BY <1>4, <3>2, <3>3
  <2>4. CASE i > Len(f) + 1
    <3>1. /\ i # 0 /\ ~(i <= Len(f)) /\ ~(i <= Len(g))
          /\ i - Len(g) \in 1..Len(Tail(w)) /\ (i - Len(g)) + 1 = i - Len(f)
      BY <1>1, <1>2, <1>3, <2>4, SMT
    <3>2. View(l, g, Tail(w), i) = Tail(w)[i - Len(g)]
      BY <3>1 DEF View
    <3>3. View(l, f, w, i) = w[i - Len(f)]
      BY <3>1 DEF View
    <3> QED
      BY <1>2, <3>1, <3>2, <3>3
  <2> QED
    BY <1>1, <2>1, <2>2, <2>3, <2>4, SMT
<1>6. Len(g) + Len(Tail(w)) = Len(f) + Len(w)
  BY <1>1, <1>2, <1>3, SMT
<1> QED
  BY <1>2, <1>3, <1>5, <1>6

(* Bytes are added, to the buffer when the wire is not used, ...           *)
LEMMA ViewBuffered ==
  ASSUME NEW S, NEW l \in S, NEW f \in Seq(S), NEW c \in Seq(S)
  PROVE  /\ f \o c \in Seq(S)
         /\ Len(f \o c) + Len(<<>>) = Len(f) + Len(<<>>) + Len(c)
         /\ \A i \in 0..(Len(f) + Len(<<>>) + Len(c)) :
               View(l, f \o c, <<>>, i) = IF i <= Len(f) + Len(<<>>)
                                          THEN View(l, f, <<>>, i)
                                          ELSE c[i - (Len(f) + Len(<<>>))]
<1> DEFINE g == f \o c
<1>1. Len(f) \in Nat /\ Len(c) \in Nat /\ Len(<<>>) = 0
  BY LenProperties, EmptySeq
<1>2. /\ g \in Seq(S) /\ Len(g) = Len(f) + Len(c)
      /\ \A i \in 1..(Len(f) + Len(c)) :
            g[i] = IF i <= Len(f) THEN f[i] ELSE c[i - Len(f)]
  BY ConcatProperties
<1> HIDE DEF g
<1>3. ASSUME NEW i \in 0..(Len(f) + Len(c))
      PROVE  View(l, g, <<>>, i) = IF i <= Len(f) THEN View(l, f, <<>>, i)
                                   ELSE c[i - Len(f)]
  <2>1. CASE i = 0
    BY <1>1, <2>1, SMT DEF View
  <2>2. CASE i # 0
    <3>1. i \in 1..(Len(f) + Len(c)) /\ i <= Len(g)
      BY <1>1, <1>2, <2>2, SMT
    <3>2. View(l, g, <<>>, i) = g[i]
      BY <2>2, <3>1 DEF View
    <3>3. i <= Len(f) => View(l, f, <<>>, i) = f[i]
      BY <2>2 DEF View
    <3> QED
      BY <1>2, <3>1, <3>2, <3>3
  <2> QED
    BY <2>1, <2>2
<1>4. Len(f) + Len(<<>>) = Len(f) /\ Len(g) + Len(<<>>) = Len(g)
  BY <1>1, <1>2, SMT
<1> QED
  BY <1>2, <1>3, <1>4 DEF g

(* ... and to the wire otherwise.                                          *)
LEMMA ViewWired ==
  ASSUME NEW S, NEW l \in S, NEW f \in Seq(S), NEW w \in Seq(S), NEW c \in Seq(S)
  PROVE  /\ w \o c \in Seq(S)
         /\ Len(f) + Len(w \o c) = Len(f) + Len(w) + Len(c)
         /\ \A i \in 0..(Len(f) + Len(w) + Len(c)) :
               View(l, f, w \o c, i) = IF i <= Len(f) + Len(w)
                                       THEN View(l, f, w, i)
                                       ELSE c[i - (Len(f) + Len(w))]
<1> DEFINE v == w \o c
<1>1. Len(f) \in Nat /\ Len(w) \in Nat /\ Len(c) \in Nat
  BY LenProperties
<1>2. /\ v \in Seq(S) /\ Len(v) = Len(w) + Len(c)
      /\ \A i \in 1..(Len(w) + Len(c)) :
            v[i] = IF i <= Len(w) THEN w[i] ELSE c[i - Len(w)]
  BY ConcatProperties
<1> HIDE DEF v
<1>3. ASSUME NEW i \in 0..(Len(f) + Len(w) + Len(c))
      PROVE  View(l, f, v, i) = IF i <= Len(f) + Len(w) THEN View(l, f, w, i)
                                ELSE c[i - (Len(f) + Len(w))]
  <2>1. CASE i <= Len(f)
    <3>1. i <= Len(f) + Len(w)
      BY <1>1, <2>1, SMT
    <3> QED
      BY <2>1, <3>1 DEF View
  <2>2. CASE ~(i <= Len(f))
    <3>1. /\ i # 0 /\ i - Len(f) \in 1..(Len(w) + Len(c))
          /\ (i - Len(f) <= Len(w) <=> i <= Len(f) + Len(w))
          /\ (i - Len(f)) - Len(w) = i - (Len(f) + Len(w))
      BY <1>1, <2>2, SMT
    <3>2. View(l, f, v, i) = v[i - Len(f)] /\ View(l, f, w, i) = w[i - Len(f)]
      BY <2>2, <3>1 DEF View
    <3> QED
      BY <1>2, <3>1, <3>2
  <2> QED
    BY <2>1, <2>2
<1>4. Len(f) + Len(v) = Len(f) + Len(w) + Len(c)
  BY <1>1, <1>2, SMT
<1> QED
  BY <1>2, <1>3, <1>4 DEF v

-----------------------------------------------------------------------------
(* What the proofs use of the places                                       *)
LEMMA Sizes ==
  ASSUME Places
  PROVE  /\ Count \in Nat /\ DOMAIN strokes = 1..Count
         /\ Size \in Nat
         /\ \A i \in 0..Size : At(i) \in Bytes
         /\ mode.keys \subseteq Keys
         /\ \A s \in 1..Count : strokes[s] \in mode.keys
         /\ mode.bytewise \in BOOLEAN /\ mode.cap \in Nat
<1>1. /\ fifo \in Seq(Bytes) /\ wire \in Seq(Bytes) /\ last \in Bytes
      /\ strokes \in Seq(mode.keys) /\ mode \in Modes
  BY DEF Places
<1>2. Count \in Nat /\ DOMAIN strokes = 1..Count
      /\ \A s \in 1..Count : strokes[s] \in mode.keys
  BY <1>1, LenProperties, ElementOfSeq DEF Count
<1>3. Size \in Nat /\ \A i \in 0..Size : At(i) \in Bytes
  BY <1>1, ViewTyped DEF Size, At
<1>4. mode.keys \subseteq Keys
  BY <1>1 DEF Keys
<1>5. mode.bytewise \in BOOLEAN /\ mode.cap \in Nat
  BY <1>1, KeyAssumption
<1> QED
  BY <1>2, <1>3, <1>4, <1>5

(* Keys are what the assumption says.                                      *)
LEMMA KeyRecord ==
  ASSUME Places, NEW k \in mode.keys
  PROVE  k = [ext |-> k.ext, c |-> k.c] /\ k.ext \in BOOLEAN /\ k.c \in Codes
<1>1. mode \in Modes /\ k \in Keys
  BY Sizes DEF Places
<1> QED
  BY <1>1, KeyAssumption DEF Codes

-----------------------------------------------------------------------------
(* Strokes: what the keyboard sends                                        *)
Code(t, k, s) == Prefix(k, s) \o <<Byte(t, k.c, s)>>

LEMMA CodeBytes ==
  ASSUME Places, NEW k \in mode.keys, NEW s \in Nat, NEW t \in {"make", "break"}
  PROVE  /\ Code(t, k, s) \in Seq(Bytes)
         /\ ~k.ext => /\ Len(Code(t, k, s)) = 1
                      /\ Code(t, k, s)[1] = Byte(t, k.c, s)
         /\ k.ext => /\ Len(Code(t, k, s)) = 2
                     /\ Code(t, k, s)[1] = Byte("E0", k.c, s)
                     /\ Code(t, k, s)[2] = Byte(t, k.c, s)
<1> DEFINE b == Byte(t, k.c, s)
           e == Byte("E0", k.c, s)
<1>1. k.ext \in BOOLEAN /\ k.c \in Codes
  BY KeyRecord
<1>2. b \in Bytes /\ e \in Bytes
  BY <1>1 DEF Byte, Bytes
<1> HIDE DEF b, e
<1>3. /\ <<b>> \in Seq(Bytes) /\ Len(<<b>>) = 1 /\ <<b>>[1] = b
      /\ <<e>> \in Seq(Bytes) /\ Len(<<e>>) = 1 /\ <<e>>[1] = e
  BY <1>2
<1>4. CASE ~k.ext
  <2>1. Code(t, k, s) = <<>> \o <<b>>
    BY <1>4 DEF Code, Prefix, b
  <2>2. Code(t, k, s) = <<b>>
    BY <1>3, <2>1, ConcatEmptySeq
  <2> QED
    BY <1>3, <1>4, <2>2 DEF b
<1>5. CASE k.ext
  <2>1. Code(t, k, s) = <<e>> \o <<b>>
    BY <1>5 DEF Code, Prefix, b, e
  <2>2. /\ <<e>> \o <<b>> \in Seq(Bytes)
        /\ Len(<<e>> \o <<b>>) = Len(<<e>>) + Len(<<b>>)
        /\ \A i \in 1..(Len(<<e>>) + Len(<<b>>)) : (<<e>> \o <<b>>)[i] =
              IF i <= Len(<<e>>) THEN <<e>>[i] ELSE <<b>>[i - Len(<<e>>)]
    BY <1>3, ConcatProperties
  <2>3. Len(Code(t, k, s)) = 2 /\ Code(t, k, s) \in Seq(Bytes)
    BY <1>3, <2>1, <2>2, SMT
  <2>4. Code(t, k, s)[1] = <<e>>[1]
    BY <1>3, <2>1, <2>2, SMT
  <2>5. Code(t, k, s)[2] = <<b>>[1]
    BY <1>3, <2>1, <2>2, SMT
  <2> QED
    BY <1>3, <1>5, <2>3, <2>4, <2>5 DEF b, e
<1> QED
  BY <1>4, <1>5

(* A byte of the stream after a code of stroke s of key k was sent, if the *)
(* stream had n bytes to come before                                       *)
New(i, n, t, k, s) ==
    \/ /\ i <= n
       /\ At(i)' = At(i)
    \/ /\ i > n
       /\ At(i)' = Byte("E0", k.c, s)
       /\ k.ext /\ i < Size' /\ At(i + 1)' = Byte(t, k.c, s)
    \/ /\ i > n
       /\ At(i)' = Byte(t, k.c, s)
       /\ k.ext => i - 1 > n /\ At(i - 1)' = Byte("E0", k.c, s)

LEMMA Sent ==
  ASSUME Places, NEW k \in mode.keys, NEW s \in Nat, NEW t \in {"make", "break"},
         Send(Code(t, k, s)), NEW n, n = Size
  PROVE  /\ UNCHANGED <<mode, last>>
         /\ fifo' \in Seq(Bytes) /\ wire' \in Seq(Bytes)
         /\ ~mode.bytewise => wire' = <<>>
         /\ Size' \in Nat /\ n \in Nat /\ n <= Size'
         /\ \A i \in 0..Size' : New(i, n, t, k, s)
<1> DEFINE c == Code(t, k, s)
<1>1. /\ fifo \in Seq(Bytes) /\ wire \in Seq(Bytes) /\ last \in Bytes
      /\ ~mode.bytewise => wire = <<>>
  BY DEF Places
<1>2. Size \in Nat /\ k.ext \in BOOLEAN /\ mode.bytewise \in BOOLEAN
  BY Sizes, KeyRecord
<1>3. /\ c \in Seq(Bytes)
      /\ ~k.ext => Len(c) = 1 /\ c[1] = Byte(t, k.c, s)
      /\ k.ext => Len(c) = 2 /\ c[1] = Byte("E0", k.c, s) /\ c[2] = Byte(t, k.c, s)
  BY CodeBytes
<1>4. UNCHANGED <<mode, last>>
  BY Zenon DEF Send
<1>5. /\ fifo' \in Seq(Bytes) /\ wire' \in Seq(Bytes)
      /\ ~mode.bytewise => wire' = <<>>
      /\ \/ fifo' = fifo /\ wire' = wire
         \/ /\ Size' = n + Len(c)
            /\ \A i \in 0..Size' : At(i)' = IF i <= n THEN At(i) ELSE c[i - n]
  <2> HIDE DEF c
  <2>1. CASE mode.bytewise
    <3>1. wire' = wire \o c /\ fifo' = fifo
      BY <2>1 DEF Send, c
    <3>2. /\ wire \o c \in Seq(Bytes)
          /\ Len(fifo) + Len(wire \o c) = Len(fifo) + Len(wire) + Len(c)
          /\ \A i \in 0..(Len(fifo) + Len(wire) + Len(c)) :
                View(last, fifo, wire \o c, i) =
                   IF i <= Len(fifo) + Len(wire) THEN View(last, fifo, wire, i)
                   ELSE c[i - (Len(fifo) + Len(wire))]
      BY <1>1, <1>3, ViewWired
    <3>3. n = Len(fifo) + Len(wire)
      BY DEF Size
    <3>4. Size' = n + Len(c)
      BY <3>1, <3>2, <3>3 DEF Size
    <3>5. \A i : At(i)' = View(last, fifo, wire \o c, i) /\ At(i) = View(last, fifo, wire, i)
      BY <1>4, <3>1 DEF At
    <3>6. \A i \in 0..Size' : At(i)' = IF i <= n THEN At(i) ELSE c[i - n]
      BY <3>2, <3>3, <3>4, <3>5
    <3> QED
      BY <1>1, <2>1, <3>1, <3>2, <3>4, <3>6
  <2>2. CASE ~mode.bytewise /\ fifo' = fifo
    <3>1. wire' = wire
      BY <2>2 DEF Send
    <3> QED
      BY <1>1, <2>2, <3>1
  <2>3. CASE ~mode.bytewise /\ fifo' # fifo
    <3>1. wire' = wire /\ fifo' = fifo \o c
      BY <2>3 DEF Send, c
    <3>2. wire = <<>>
      BY <1>1, <2>3
    <3>3. /\ fifo \o c \in Seq(Bytes)
          /\ Len(fifo \o c) + Len(<<>>) = Len(fifo) + Len(<<>>) + Len(c)
          /\ \A i \in 0..(Len(fifo) + Len(<<>>) + Len(c)) :
                View(last, fifo \o c, <<>>, i) =
                   IF i <= Len(fifo) + Len(<<>>) THEN View(last, fifo, <<>>, i)
                   ELSE c[i - (Len(fifo) + Len(<<>>))]
      BY <1>1, <1>3, ViewBuffered
    <3>4. n = Len(fifo) + Len(<<>>)
      BY <3>2 DEF Size
    <3>5. Size' = n + Len(c)
      BY <3>1, <3>2, <3>3, <3>4 DEF Size
    <3>6. \A i : At(i)' = View(last, fifo \o c, <<>>, i) /\ At(i) = View(last, fifo, <<>>, i)
      BY <1>4, <3>1, <3>2 DEF At
    <3>7. \A i \in 0..Size' : At(i)' = IF i <= n THEN At(i) ELSE c[i - n]
      BY <3>3, <3>4, <3>5, <3>6
    <3> QED
      BY <1>1, <3>1, <3>2, <3>3, <3>5, <3>7
  <2> QED
    BY <2>1, <2>2, <2>3
<1>6. CASE fifo' = fifo /\ wire' = wire
  <2>1. Size' = n /\ \A i : At(i)' = At(i)
    BY <1>4, <1>6 DEF Size, At
  <2>2. \A i \in 0..Size' : i <= n
    BY <1>2, <2>1, SMT
  <2> QED
    BY <1>2, <1>4, <1>5, <2>1, <2>2, SMT DEF New
<1>7. CASE /\ Size' = n + Len(c)
           /\ \A i \in 0..Size' : At(i)' = IF i <= n THEN At(i) ELSE c[i - n]
  <2> HIDE DEF c
  <2>1. n \in Nat
    BY <1>2
  <2>2. CASE ~k.ext
    <3>1. Size' = n + 1
      BY <1>3, <1>7, <2>2
    <3>2. ASSUME NEW i \in 0..Size' PROVE New(i, n, t, k, s)
      <4>1. i <= n \/ (i > n /\ ~(i <= n) /\ i - n = 1)
        BY <2>1, <3>1, SMT
      <4> QED
        BY <1>3, <1>7, <2>2, <4>1 DEF New
    <3> QED
      BY <1>4, <1>5, <2>1, <3>1, <3>2, SMT
  <2>3. CASE k.ext
    <3>1. Size' = n + 2
      BY <1>3, <1>7, <2>3
    <3>2. ASSUME NEW i \in 0..Size' PROVE New(i, n, t, k, s)
      <4>1. CASE i <= n
        BY <1>7, <4>1 DEF New
      <4>2. CASE i = n + 1
        <5>1. /\ i > n /\ ~(i <= n) /\ i - n = 1 /\ i < Size'
              /\ i + 1 \in 0..Size' /\ ~(i + 1 <= n) /\ i + 1 - n = 2
          BY <2>1, <3>1, <4>2, SMT
        <5>2. At(i)' = c[1]
          BY <1>7, <5>1
        <5>3. At(i + 1)' = c[2]
          <6> PICK j \in 0..Size' : j = i + 1 /\ ~(j <= n) /\ j - n = 2
            BY <2>1, <3>1, <4>2, <5>1, SMT
          <6>1. At(j)' = c[2]
            BY <1>7
          <6> QED
            BY <6>1
        <5> QED
          BY <1>3, <2>3, <5>1, <5>2, <5>3 DEF New
      <4>3. CASE i = n + 2
        <5>1. /\ i > n /\ ~(i <= n) /\ i - n = 2
              /\ i - 1 \in 0..Size' /\ ~(i - 1 <= n) /\ i - 1 - n = 1 /\ i - 1 > n
          BY <2>1, <3>1, <4>3, SMT
        <5>2. At(i)' = c[2]
          BY <1>7, <5>1
        <5>3. At(i - 1)' = c[1]
          BY <1>7, <5>1
        <5> QED
          BY <1>3, <2>3, <5>1, <5>2, <5>3 DEF New
      <4> QED
        BY <2>1, <3>1, <4>1, <4>2, <4>3, SMT
    <3> QED
      BY <1>4, <1>5, <2>1, <3>1, <3>2, SMT
  <2> QED
    BY <1>2, <2>2, <2>3
<1> QED
  BY <1>5, <1>6, <1>7

(* What is known of a byte that belongs to a code                          *)
LEMMA CodeKnown ==
  ASSUME Places, Known, NEW i \in 0..Size, IsCode(At(i))
  PROVE  /\ At(i).s \in 1..Count /\ At(i).c = strokes[At(i).s].c
         /\ strokes[At(i).s] \in mode.keys
         /\ At(i).t = "break" => At(i).s \in released
<1>1. At(i).t # "ack"
  BY DEF IsCode
<1> QED
  BY <1>1, Sizes DEF Known

(* A code that is sent keeps the order, if its stroke is no older than     *)
(* those of the same key and, for a make, than any that has sent a make.   *)
LEMMA StreamGrows ==
  ASSUME Places, Known, InOrder, Orderly => Paired,
         NEW k \in mode.keys, NEW s \in Nat, NEW t \in {"make", "break"},
         Send(Code(t, k, s)), NEW n, n = Size,
         UNCHANGED pc, Count' \in Nat, Count' >= Count, s \in 1..Count',
         \A i \in 1..Count : strokes'[i] = strokes[i], strokes'[s] = k,
         released \subseteq released', t = "break" => s \in released',
         \A i \in 0..n : IsCode(At(i)) /\ strokes[At(i).s] = k => At(i).s <= s,
         t = "make" => \A i \in 0..n : /\ At(i).t = "make" => At(i).s <= s
                                       /\ At(i).t = "break" => At(i).s # s
  PROVE  Known' /\ InOrder' /\ (Orderly => Paired)'
<1>1. /\ UNCHANGED <<mode, last>> /\ Size' \in Nat /\ n \in Nat /\ n <= Size'
      /\ \A i \in 0..Size' : New(i, n, t, k, s)
  BY Sent
<1>2. Count \in Nat /\ \A i \in 0..n : At(i) \in Bytes
  BY Sizes
<1>3. Byte("E0", k.c, s).t = "E0" /\ Byte("E0", k.c, s).s = s /\ Byte("E0", k.c, s).c = k.c
      /\ Byte(t, k.c, s).t = t /\ Byte(t, k.c, s).s = s /\ Byte(t, k.c, s).c = k.c
  BY DEF Byte
<1>4. ASSUME NEW i \in 0..Size', i <= n
      PROVE  /\ i \in 0..n /\ i \in 0..Size
             /\ IsCode(At(i)) => /\ At(i).s \in 1..Count
                                 /\ strokes'[At(i).s] = strokes[At(i).s]
  <2>1. i \in 0..n
    BY <1>1, <1>4, SMT
  <2>2. i \in 0..Size
    BY <2>1
  <2> QED
    BY <2>1, <2>2, CodeKnown
<1>5. Known'
  <2> SUFFICES ASSUME NEW i \in 0..Size'
               PROVE  \/ i = 0 /\ At(i)'.t = "ack"
                      \/ /\ At(i)'.t # "ack"
                         /\ At(i)'.s \in 1..Count'
                         /\ At(i)'.c = strokes'[At(i)'.s].c
                         /\ At(i)'.t = "E0" => strokes'[At(i)'.s].ext
                         /\ At(i)'.t = "break" => At(i)'.s \in released'
    BY DEF Known
  <2>1. CASE i <= n /\ At(i)' = At(i)
    <3>1. i \in 0..Size
      BY <1>4, <2>1
    <3>2. CASE i = 0 /\ At(i).t = "ack"
      BY <2>1, <3>2
    <3>3. CASE At(i).t # "ack"
      <4>1. /\ At(i).s \in 1..Count /\ At(i).c = strokes[At(i).s].c
            /\ At(i).t = "E0" => strokes[At(i).s].ext
            /\ At(i).t = "break" => At(i).s \in released
        BY <3>1, <3>3 DEF Known
      <4>2. At(i).s \in 1..Count' /\ strokes'[At(i).s] = strokes[At(i).s]
        BY <1>2, <4>1, SMT
      <4> QED
        BY <2>1, <3>3, <4>1, <4>2
    <3> QED
      BY <3>1, <3>2, <3>3 DEF Known
  <2>2. CASE At(i)' = Byte("E0", k.c, s) /\ k.ext
    BY <1>3, <2>2
  <2>3. CASE At(i)' = Byte(t, k.c, s)
    BY <1>3, <2>3
  <2> QED
    BY <1>1, <2>1, <2>2, <2>3 DEF New
<1>6. InOrder'
  <2> SUFFICES ASSUME NEW i \in 0..Size', NEW j \in 0..Size', i < j
               PROVE  Before(At(i), At(j))'
    BY DEF InOrder
  <2>1. CASE j <= n /\ At(j)' = At(j)
    <3>1. i <= n /\ At(i)' = At(i)
      BY <1>1, <2>1, SMT DEF New
    <3>2. Before(At(i), At(j))
      BY <1>4, <2>1, <3>1 DEF InOrder
    <3>3. IsCode(At(i)) /\ IsCode(At(j)) =>
            (strokes'[At(i).s] = strokes'[At(j).s] <=> strokes[At(i).s] = strokes[At(j).s])
      BY <1>4, <2>1, <3>1
    <3> QED
      BY <2>1, <3>1, <3>2, <3>3 DEF Before, IsCode
  <2>2. CASE At(j)' = Byte("E0", k.c, s)
    BY <1>3, <2>2 DEF Before, IsCode
  <2>3. CASE At(j)' = Byte(t, k.c, s)
    <3>1. CASE i <= n /\ At(i)' = At(i)
      <4>1. i \in 0..n
        BY <1>4, <3>1
      <4>2. /\ t = "make" => /\ At(i).t = "make" => At(i).s <= s
                             /\ At(i).t = "break" => At(i).s # s
            /\ IsCode(At(i)) /\ strokes[At(i).s] = k => At(i).s <= s
        BY <4>1
      <4>3. IsCode(At(i)) => strokes'[At(i).s] = strokes[At(i).s]
        BY <1>4, <3>1
      <4> QED
        BY <1>3, <2>3, <3>1, <4>2, <4>3 DEF Before, IsCode
    <3>2. CASE At(i)' = Byte("E0", k.c, s)
      BY <1>3, <2>3, <3>2 DEF Before, IsCode
    <3>3. CASE At(i)' = Byte(t, k.c, s)
      BY <1>3, <2>3, <3>3, SMT DEF Before, IsCode
    <3> QED
      BY <1>1, <3>1, <3>2, <3>3 DEF New
  <2> QED
    BY <1>1, <2>1, <2>2, <2>3 DEF New
<1>7. ASSUME Orderly PROVE Paired'
  <2>0. Paired
    BY <1>7
  <2>1. ASSUME NEW i \in 0..Size', At(i)'.t = "E0"
        PROVE  i < Size' /\ IsCode(At(i + 1))' /\ At(i + 1)'.s = At(i)'.s
    <3>1. CASE i <= n /\ At(i)' = At(i)
      <4>1. i \in 0..Size
        BY <1>4, <3>1
      <4>2. i < Size /\ IsCode(At(i + 1)) /\ At(i + 1).s = At(i).s
        BY <2>0, <2>1, <3>1, <4>1 DEF Paired
      <4>3. PICK j \in 0..Size' : j = i + 1 /\ j <= n
        BY <1>1, <4>2, SMT
      <4>4. At(j)' = At(j)
        BY <1>1, <4>3, SMT DEF New
      <4>5. IsCode(At(j))' /\ At(j)'.s = At(i)'.s
        BY <3>1, <4>2, <4>3, <4>4 DEF IsCode
      <4> QED
        BY <1>1, <4>2, <4>3, <4>5, SMT
    <3>2. CASE At(i)' = Byte("E0", k.c, s) /\ i < Size' /\ At(i + 1)' = Byte(t, k.c, s)
      BY <1>3, <3>2 DEF IsCode
    <3>3. CASE At(i)' = Byte(t, k.c, s)
      BY <1>3, <2>1, <3>3
    <3> QED
      BY <1>1, <3>1, <3>2, <3>3 DEF New
  <2>2. ASSUME NEW i \in 1..Size', IsCode(At(i))', strokes'[At(i)'.s].ext
        PROVE  At(i - 1)'.t = "E0"
    <3>0. i \in 0..Size'
      BY SMT
    <3>1. CASE i <= n /\ At(i)' = At(i)
      <4>1. i \in 1..Size
        BY <1>1, <3>1, SMT
      <4>2. IsCode(At(i))
        BY <2>2, <3>1 DEF IsCode
      <4>3. strokes[At(i).s].ext
        BY <1>4, <2>2, <3>0, <3>1, <4>2
      <4>4. At(i - 1).t = "E0"
        BY <2>0, <4>1, <4>2, <4>3 DEF Paired
      <4>5. PICK j \in 0..Size' : j = i - 1 /\ j <= n
        BY <1>1, <3>1, <4>1, SMT
      <4>6. At(j)' = At(j)
        BY <1>1, <4>5, SMT DEF New
      <4> QED
        BY <4>4, <4>5, <4>6
    <3>2. CASE At(i)' = Byte("E0", k.c, s)
      BY <1>3, <2>2, <3>2 DEF IsCode
    <3>3. CASE At(i)' = Byte(t, k.c, s) /\ (k.ext => At(i - 1)' = Byte("E0", k.c, s))
      BY <1>3, <2>2, <3>3
    <3> QED
      BY <1>1, <3>0, <3>1, <3>2, <3>3 DEF New
  <2>3. last'.t = "E0" <=> pc' \in {"press2", "wait2"}
    BY <1>1, <2>0 DEF Paired
  <2> QED
    BY <2>1, <2>2, <2>3 DEF Paired
<1>8. Orderly' <=> Orderly
  BY <1>1 DEF Orderly
<1> QED
  BY <1>5, <1>6, <1>7, <1>8

(* The last stroke that was reported has ended.                            *)
LEMMA LastEnded ==
  ASSUME Places, Reported
  PROVE  /\ LastReported \in Nat /\ LastReported <= Count
         /\ LastReported # 0 => LastReported \in released
<1>1. Count \in Nat
  BY Sizes
<1>2. returned \in Seq([s : 1..Count, key : mode.keys])
  BY DEF Reported
<1>3. CASE returned = <<>>
  BY <1>1, <1>3, SMT DEF LastReported, Reader!LastReported
<1>4. CASE returned # <<>>
  <2>1. Len(returned) \in 1..Len(returned) /\ Len(returned) \in DOMAIN returned
    BY <1>2, <1>4, EmptySeq, LenProperties, SMT
  <2>2. returned[Len(returned)] \in [s : 1..Count, key : mode.keys]
    BY <1>2, <2>1, ElementOfSeq
  <2>3. returned[Len(returned)].s \in released
    BY <2>1 DEF Reported, WaitsForRelease
  <2>4. LastReported = returned[Len(returned)].s
    BY <1>4 DEF LastReported, Reader!LastReported
  <2> QED
    BY <1>1, <2>2, <2>3, <2>4, SMT
<1> QED
  BY <1>3, <1>4

(* A code that is sent is no surprise to get_key.                          *)
LEMMA ContractGrows ==
  ASSUME Places, Known, Seeking, Waiting, Reported,
         NEW k \in mode.keys, NEW s \in Nat, NEW t \in {"make", "break"},
         Send(Code(t, k, s)), NEW n, n = Size,
         UNCHANGED reader, Count' \in Nat, Count' >= Count, s \in 1..Count',
         \A i \in 1..Count : strokes'[i] = strokes[i], strokes'[s] = k,
         released \subseteq released',
         \A r \in 1..Count : strokes[r] = k => r <= s,
         t = "make" => s >= Count /\ s \notin released
  PROVE  Seeking' /\ Waiting' /\ Reported'
<1>0. UNCHANGED <<pc, scancode, returned>>
  BY DEF reader
<1>1. /\ UNCHANGED <<mode, last>> /\ Size' \in Nat /\ n \in Nat /\ n <= Size'
      /\ \A i \in 0..Size' : New(i, n, t, k, s)
  BY Sent
<1>2. Count \in Nat /\ \A i \in 0..n : At(i) \in Bytes
  BY Sizes
<1>3. ASSUME NEW i \in 0..Size'
      PROVE  \/ i \in 0..Size /\ At(i)' = At(i)
             \/ At(i)'.t = "E0"
             \/ At(i)'.t = t /\ At(i)'.s = s
  <2>1. i <= n => i \in 0..Size
    BY <1>1, SMT
  <2> QED
    BY <1>1, <2>1 DEF New, Byte
<1>4. UNCHANGED LastReported
  BY <1>0 DEF LastReported, Reader!LastReported
<1>5. LastReported \in Nat /\ LastReported <= Count
      /\ (LastReported # 0 => LastReported \in released)
  BY LastEnded
<1>6. t = "make" => s > LastReported
  BY <1>2, <1>5, SMT
<1>7. Seeking'
  <2> SUFFICES ASSUME pc \in {"idle", "press", "press2"}
               PROVE  /\ last'.t # "make"
                      /\ \A i \in 0..Size' : At(i)'.t = "make" => At(i)'.s > LastReported
    BY <1>0, <1>4 DEF Seeking
  <2>1. ASSUME NEW i \in 0..Size', At(i)'.t = "make" PROVE At(i)'.s > LastReported
    BY <1>3, <1>6, <2>1 DEF Seeking
  <2> QED
    BY <1>1, <2>1 DEF Seeking
<1>8. Waiting'
  <2> SUFFICES ASSUME pc \in {"wait", "wait2"}
               PROVE  /\ scancode.s \in 1..Count'
                      /\ scancode.s > LastReported
                      /\ strokes'[scancode.s] = [ext |-> scancode.ext, c |-> scancode.c]
                      /\ \A i \in 0..Size' :
                            /\ At(i)'.t = "make" => At(i)'.s >= scancode.s
                            /\ IsCode(At(i))' /\ strokes'[At(i)'.s] = strokes'[scancode.s]
                                  => At(i)'.s >= scancode.s
    BY <1>0, <1>4 DEF Waiting
  <2>1. /\ scancode.s \in 1..Count /\ scancode.s > LastReported
        /\ strokes[scancode.s] = [ext |-> scancode.ext, c |-> scancode.c]
        /\ \A i \in 0..Size :
              /\ At(i).t = "make" => At(i).s >= scancode.s
              /\ IsCode(At(i)) /\ strokes[At(i).s] = strokes[scancode.s]
                    => At(i).s >= scancode.s
    BY DEF Waiting
  <2>2. scancode.s \in 1..Count' /\ scancode.s <= Count
    BY <1>2, <2>1, SMT
  <2>3. strokes'[scancode.s] = strokes[scancode.s]
    BY <2>1
  <2>4. ASSUME NEW i \in 0..Size'
        PROVE  /\ At(i)'.t = "make" => At(i)'.s >= scancode.s
               /\ IsCode(At(i))' /\ strokes'[At(i)'.s] = strokes'[scancode.s]
                     => At(i)'.s >= scancode.s
    <3>1. CASE i \in 0..Size /\ At(i)' = At(i)
      <4>1. IsCode(At(i)) => strokes'[At(i).s] = strokes[At(i).s]
        BY <3>1, CodeKnown
      <4> QED
        BY <2>1, <2>3, <3>1, <4>1 DEF IsCode
    <3>2. CASE At(i)'.t = "E0"
      BY <3>2 DEF IsCode
    <3>3. CASE At(i)'.t = t /\ At(i)'.s = s
      <4>1. t = "make" => s >= scancode.s
        BY <1>2, <2>2, SMT
      <4>2. strokes'[s] = strokes'[scancode.s] => s >= scancode.s
        BY <2>1, <2>2, <2>3, SMT
      <4> QED
        BY <3>3, <4>1, <4>2
    <3> QED
      BY <1>3, <3>1, <3>2, <3>3
  <2> QED
    BY <2>1, <2>2, <2>3, <2>4
<1>9. Reported'
  <2>1. [s : 1..Count, key : mode.keys] \subseteq [s : 1..Count', key : mode.keys]
    <3>1. 1..Count \subseteq 1..Count'
      BY <1>2, SMT
    <3> QED
      BY <3>1
  <2>2. returned' \in Seq([s : 1..Count', key : mode.keys])
    <3>1. returned \in Seq([s : 1..Count, key : mode.keys])
      BY DEF Reported
    <3> QED
      BY <1>0, <2>1, <3>1, SeqMonotonic
  <2>3. WaitsForRelease'
    BY <1>0 DEF Reported, WaitsForRelease
  <2> QED
    BY <1>1, <2>2, <2>3 DEF Reported
<1> QED
  BY <1>7, <1>8, <1>9

(* The typist's and the keyboard's steps: they send a code of a stroke of  *)
(* key k that is the last one of its key.                                  *)
LEMMA TypistStep ==
  ASSUME KeyIInv,
         NEW k \in mode.keys, NEW s \in Nat, NEW t \in {"make", "break"},
         Send(Code(t, k, s)),
         UNCHANGED reader, Count' \in Nat, Count' >= Count, s \in 1..Count',
         \A i \in 1..Count : strokes'[i] = strokes[i], strokes'[s] = k,
         released \subseteq released', t = "break" => s \in released',
         \A r \in 1..Count : strokes[r] = k => r <= s,
         t = "make" => s >= Count /\ s \notin released
  PROVE  /\ Known' /\ InOrder' /\ (Orderly => Paired)'
         /\ (Orderly /\ Distinct => Seeking /\ Waiting /\ Reported)'
         /\ fifo' \in Seq(Bytes) /\ wire' \in Seq(Bytes)
         /\ UNCHANGED <<mode, last, pc>>
         /\ ~mode.bytewise => wire' = <<>>
<1> USE DEF KeyIInv
<1> PICK n \in Nat : n = Size
  BY Sizes
<1>1. UNCHANGED <<pc, scancode, returned>>
  BY DEF reader
<1>2. /\ UNCHANGED <<mode, last>>
      /\ fifo' \in Seq(Bytes) /\ wire' \in Seq(Bytes)
      /\ ~mode.bytewise => wire' = <<>>
  BY Sent
<1>3. Count \in Nat
  BY Sizes
<1>4. \A i \in 0..n : IsCode(At(i)) /\ strokes[At(i).s] = k => At(i).s <= s
  BY CodeKnown
<1>5. t = "make" => \A i \in 0..n : /\ At(i).t = "make" => At(i).s <= s
                                    /\ At(i).t = "break" => At(i).s # s
  <2> SUFFICES ASSUME t = "make", NEW i \in 0..n
               PROVE  /\ At(i).t = "make" => At(i).s <= s
                      /\ At(i).t = "break" => At(i).s # s
    OBVIOUS
  <2>1. s >= Count /\ s \notin released
    OBVIOUS
  <2>2. ASSUME At(i).t = "make" PROVE At(i).s <= s
    <3>1. At(i).s \in 1..Count
      BY <2>2, CodeKnown DEF IsCode
    <3> QED
      BY <1>3, <2>1, <3>1, SMT
  <2>3. ASSUME At(i).t = "break" PROVE At(i).s # s
    BY <2>1, <2>3, CodeKnown DEF IsCode
  <2> QED
    BY <2>2, <2>3
<1>6. Known' /\ InOrder' /\ (Orderly => Paired)'
  BY <1>1, <1>4, <1>5, StreamGrows
<1>7. (Orderly' <=> Orderly) /\ (Distinct' <=> Distinct)
  BY <1>2 DEF Orderly, Distinct
<1>8. (Orderly /\ Distinct => Seeking /\ Waiting /\ Reported)'
  <2> SUFFICES ASSUME Orderly, Distinct PROVE Seeking' /\ Waiting' /\ Reported'
    BY <1>7
  <2> QED
    BY ContractGrows
<1> QED
  BY <1>1, <1>2, <1>6, <1>8

-----------------------------------------------------------------------------
(* The steps of the typist, the keyboard and the controller                *)
LEMMA PressStep ==
  ASSUME KeyIInv, NEW k \in Keys, Press(k)
  PROVE  KeyIInv'
<1> USE DEF KeyIInv
<1> PICK s \in Nat : s = Count + 1
  BY Sizes
<1>0. Count \in Nat /\ mode.keys \subseteq Keys /\ released \subseteq 1..Count
      /\ \A r \in 1..Count : strokes[r] \in mode.keys
  BY Sizes DEF Places
<1>1. /\ k \in mode.keys /\ held[k] = 0
      /\ Send(Code("make", k, s))
      /\ held' = [held EXCEPT ![k] = s]
      /\ strokes' = Append(strokes, k)
      /\ UNCHANGED <<released, reader>>
  BY DEF Press, Make, Code, Count
<1>2. held \in [Keys -> Nat] /\ strokes \in Seq(mode.keys)
  BY DEF Places
<1>3. /\ strokes' \in Seq(mode.keys) /\ Count' = Count + 1
      /\ \A i \in 1..Count : strokes'[i] = strokes[i]
      /\ strokes'[Count + 1] = k
  <2>1. /\ Append(strokes, k) \in Seq(mode.keys)
        /\ Len(Append(strokes, k)) = Len(strokes) + 1
        /\ \A i \in 1..Len(strokes) : Append(strokes, k)[i] = strokes[i]
        /\ Append(strokes, k)[Len(strokes) + 1] = k
    BY <1>1, <1>2, AppendProperties
  <2> QED
    BY <1>1, <2>1 DEF Count
<1>4. Count' \in Nat /\ Count' >= Count /\ s \in 1..Count' /\ strokes'[s] = k
      /\ s >= Count /\ s \notin released /\ s # 0
  BY <1>0, <1>3, SMT
<1>5. \A r \in 1..Count : strokes[r] = k => r <= s
  BY <1>0, SMT
<1> HIDE DEF KeyIInv
<1>6. /\ Known' /\ InOrder' /\ (Orderly => Paired)'
      /\ (Orderly /\ Distinct => Seeking /\ Waiting /\ Reported)'
      /\ fifo' \in Seq(Bytes) /\ wire' \in Seq(Bytes)
      /\ UNCHANGED <<mode, last, pc>>
      /\ ~mode.bytewise => wire' = <<>>
  <2>1. UNCHANGED reader /\ released \subseteq released' /\ k \in mode.keys
    BY <1>1, Zenon
  <2>2. Send(Code("make", k, s)) /\ "make" \in {"make", "break"} /\ "make" # "break"
    BY <1>1
  <2> QED
    BY <1>3, <1>4, <1>5, <2>1, <2>2, Zenon, TypistStep
<1> USE DEF KeyIInv
<1>7. Places'
  <2>1. held' \in [Keys -> Nat]
    BY <1>1, <1>2
  <2>2. released' \subseteq 1..Count'
    BY <1>0, <1>1, <1>3, SMT
  <2> QED
    BY <1>3, <1>6, <2>1, <2>2 DEF Places
<1>8. /\ held'[k] = s
      /\ \A j \in Keys : j # k => held'[j] = held[j]
  BY <1>1, <1>2
<1>9. Holding'
  <2>1. ASSUME NEW j \in Keys, held'[j] # 0
        PROVE  held'[j] \in 1..Count' /\ strokes'[held'[j]] = j /\ held'[j] \notin released'
    <3>0. released' = released
      BY <1>1
    <3>1. CASE j = k
      <4>1. held'[j] = s
        BY <1>8, <3>1
      <4> QED
        BY <1>4, <3>0, <3>1, <4>1, Zenon
    <3>2. CASE j # k
      <4>1. held'[j] = held[j]
        BY <1>8, <3>2
      <4>2. held[j] \in 1..Count /\ strokes[held[j]] = j /\ held[j] \notin released
        BY <2>1, <4>1 DEF Holding
      <4>3. held[j] \in 1..Count'
        BY <1>0, <1>3, <4>2, SMT
      <4>4. strokes'[held[j]] = j
        BY <1>3, <4>2
      <4> QED
        BY <3>0, <4>1, <4>2, <4>3, <4>4, Zenon
    <3> QED
      BY <3>1, <3>2
  <2>2. ASSUME NEW r \in 1..Count'
        PROVE  /\ r \notin released' => held'[strokes'[r]] = r
               /\ held'[strokes'[r]] # 0 => r <= held'[strokes'[r]]
    <3>1. CASE r = s
      BY <1>4, <1>8, <3>1, SMT
    <3>2. CASE r # s
      <4>1. r \in 1..Count /\ r # 0 /\ r <= s
        BY <1>0, <1>3, <3>2, SMT
      <4>2. strokes'[r] = strokes[r] /\ strokes[r] \in Keys
        BY <1>0, <1>3, <4>1
      <4>3. CASE strokes[r] = k
        <5>1. r \in released
          BY <1>1, <4>1, <4>3 DEF Holding
        <5> QED
          BY <1>1, <1>8, <4>1, <4>2, <4>3, <5>1
      <4>4. CASE strokes[r] # k
        BY <1>1, <1>8, <4>1, <4>2, <4>4 DEF Holding
      <4> QED
        BY <4>3, <4>4
    <3> QED
      BY <3>1, <3>2
  <2> QED
    BY <2>1, <2>2 DEF Holding
<1> QED
  BY <1>6, <1>7, <1>9

LEMMA RepeatStep ==
  ASSUME KeyIInv, NEW k \in Keys, Repeat(k)
  PROVE  KeyIInv'
<1> USE DEF KeyIInv
<1>1. /\ held[k] # 0 /\ held[k] = Count
      /\ Send(Code("make", k, held[k]))
      /\ UNCHANGED <<held, strokes, released, overlap, reader>>
  BY DEF Repeat, Make, Code, Count, typist
<1>2. /\ held[k] \in 1..Count /\ strokes[held[k]] = k /\ held[k] \notin released
  BY <1>1 DEF Holding
<1> PICK s \in Nat : s = held[k]
  BY <1>2, Sizes
<1>3. k \in mode.keys /\ Count \in Nat
  BY <1>2, Sizes
<1>4. UNCHANGED Count
  BY <1>1 DEF Count
<1>5. \A r \in 1..Count : strokes[r] = k => r <= s
  BY <1>1, <1>3, SMT
<1>6. Count' >= Count /\ s >= Count
  BY <1>1, <1>3, <1>4, SMT
<1> HIDE DEF KeyIInv
<1>7. /\ Known' /\ InOrder' /\ (Orderly => Paired)'
      /\ (Orderly /\ Distinct => Seeking /\ Waiting /\ Reported)'
      /\ fifo' \in Seq(Bytes) /\ wire' \in Seq(Bytes)
      /\ UNCHANGED <<mode, last, pc>>
      /\ ~mode.bytewise => wire' = <<>>
  BY <1>1, <1>2, <1>3, <1>4, <1>5, <1>6, TypistStep
<1> USE DEF KeyIInv
<1>8. Places'
  BY <1>1, <1>4, <1>7 DEF Places
<1>9. Holding'
  BY <1>1, <1>4 DEF Holding
<1> QED
  BY <1>7, <1>8, <1>9

LEMMA ReleaseStep ==
  ASSUME KeyIInv, NEW k \in Keys, Release(k)
  PROVE  KeyIInv'
<1> USE DEF KeyIInv
<1>1. /\ held[k] # 0
      /\ Send(Code("break", k, held[k]))
      /\ held' = [held EXCEPT ![k] = 0]
      /\ released' = released \cup {held[k]}
      /\ UNCHANGED <<strokes, overlap, reader>>
  BY DEF Release, Break, Code
<1>2. /\ held[k] \in 1..Count /\ strokes[held[k]] = k /\ held[k] \notin released
  BY <1>1 DEF Holding
<1> PICK s \in Nat : s = held[k]
  BY <1>2, Sizes
<1>3. k \in mode.keys /\ Count \in Nat /\ mode.keys \subseteq Keys
      /\ \A r \in 1..Count : strokes[r] \in mode.keys
  BY <1>2, Sizes
<1>4. UNCHANGED Count /\ Count >= Count
  BY <1>1, <1>3, SMT DEF Count
<1>5. \A r \in 1..Count : strokes[r] = k => r <= s
  BY <1>1 DEF Holding
<1>6. released \subseteq released' /\ s \in released'
  BY <1>1
<1> HIDE DEF KeyIInv
<1>7. /\ Known' /\ InOrder' /\ (Orderly => Paired)'
      /\ (Orderly /\ Distinct => Seeking /\ Waiting /\ Reported)'
      /\ fifo' \in Seq(Bytes) /\ wire' \in Seq(Bytes)
      /\ UNCHANGED <<mode, last, pc>>
      /\ ~mode.bytewise => wire' = <<>>
  BY <1>1, <1>2, <1>3, <1>4, <1>5, <1>6, TypistStep
<1> USE DEF KeyIInv
<1>8. Places'
  <2>1. held' \in [Keys -> Nat]
    BY <1>1 DEF Places
  <2>2. released' \subseteq 1..Count'
    BY <1>1, <1>2, <1>4 DEF Places
  <2> QED
    BY <1>1, <1>4, <1>7, <2>1, <2>2 DEF Places
<1>9. held'[k] = 0 /\ \A j \in Keys : j # k => held'[j] = held[j]
  BY <1>1 DEF Places
<1>10. Holding'
  <2>1. ASSUME NEW j \in Keys, held'[j] # 0
        PROVE  held'[j] \in 1..Count' /\ strokes'[held'[j]] = j /\ held'[j] \notin released'
    <3>1. j # k /\ held'[j] = held[j]
      BY <1>9, <2>1
    <3>2. held[j] \in 1..Count /\ strokes[held[j]] = j /\ held[j] \notin released
      BY <2>1, <3>1 DEF Holding
    <3>3. held[j] # held[k]
      BY <1>2, <3>1, <3>2
    <3> QED
      BY <1>1, <1>4, <3>1, <3>2, <3>3
  <2>2. ASSUME NEW r \in 1..Count'
        PROVE  /\ r \notin released' => held'[strokes'[r]] = r
               /\ held'[strokes'[r]] # 0 => r <= held'[strokes'[r]]
    <3>1. r \in 1..Count /\ strokes'[r] = strokes[r] /\ strokes[r] \in Keys
      BY <1>1, <1>3, <1>4
    <3>2. CASE strokes[r] = k
      <4>1. r \notin released => r = held[k]
        BY <3>1, <3>2 DEF Holding
      <4> QED
        BY <1>1, <1>9, <3>1, <3>2, <4>1
    <3>3. CASE strokes[r] # k
      BY <1>1, <1>9, <3>1, <3>3 DEF Holding
    <3> QED
      BY <3>2, <3>3
  <2> QED
    BY <2>1, <2>2 DEF Holding
<1> QED
  BY <1>7, <1>8, <1>10

(* A step that leaves the stream as get_key sees it                        *)
LEMMA SameStream ==
  ASSUME KeyIInv, Size' = Size, \A i \in 0..Size : At(i)' = At(i), last' = last,
         UNCHANGED <<mode, typist, reader>>,
         fifo' \in Seq(Bytes), wire' \in Seq(Bytes), ~mode.bytewise => wire' = <<>>
  PROVE  KeyIInv'
<1> USE DEF KeyIInv
<1>1. UNCHANGED <<mode, held, strokes, released, pc, scancode, returned, Count>>
  BY DEF typist, reader, Count
<1>2. Places'
  BY <1>1 DEF Places
<1>3. Holding'
  BY <1>1 DEF Holding
<1>4. Known'
  BY <1>1 DEF Known
<1>5. InOrder'
  <2> SUFFICES ASSUME NEW i \in 0..Size, NEW j \in 0..Size, i < j
               PROVE  Before(At(i), At(j))'
    BY DEF InOrder
  <2>1. Before(At(i), At(j)) /\ At(i)' = At(i) /\ At(j)' = At(j)
    BY DEF InOrder
  <2> QED
    BY <1>1, <2>1 DEF Before, IsCode
<1>6. (Orderly => Paired)'
  <2> SUFFICES ASSUME Orderly PROVE Paired'
    BY <1>1 DEF Orderly
  <2>1. ASSUME NEW i \in 0..Size', At(i)'.t = "E0"
        PROVE  i < Size' /\ IsCode(At(i + 1))' /\ At(i + 1)'.s = At(i)'.s
    <3>1. i < Size /\ IsCode(At(i + 1)) /\ At(i + 1).s = At(i).s /\ At(i)' = At(i)
      BY <2>1 DEF Paired
    <3>2. PICK j \in 0..Size : j = i + 1
      BY <3>1, Sizes, SMT
    <3>3. At(j)' = At(j)
      OBVIOUS
    <3> QED
      BY <3>1, <3>2, <3>3 DEF IsCode
  <2>2. ASSUME NEW i \in 1..Size', IsCode(At(i))', strokes'[At(i)'.s].ext
        PROVE  At(i - 1)'.t = "E0"
    <3>1. PICK j \in 0..Size : j = i - 1 /\ i \in 0..Size
      BY Sizes, SMT
    <3>2. At(j)' = At(j) /\ At(i)' = At(i)
      BY <3>1
    <3>3. At(i - 1).t = "E0"
      BY <1>1, <2>2, <3>2 DEF Paired, IsCode
    <3> QED
      BY <3>1, <3>2, <3>3
  <2>3. last'.t = "E0" <=> pc' \in {"press2", "wait2"}
    BY <1>1 DEF Paired
  <2> QED
    BY <2>1, <2>2, <2>3 DEF Paired
<1>7. (Orderly /\ Distinct => Seeking /\ Waiting /\ Reported)'
  <2> SUFFICES ASSUME Orderly, Distinct PROVE Seeking' /\ Waiting' /\ Reported'
    BY <1>1 DEF Orderly, Distinct
  <2>1. UNCHANGED LastReported
    BY <1>1 DEF LastReported, Reader!LastReported
  <2>2. Seeking'
    BY <1>1, <2>1 DEF Seeking
  <2>3. Waiting'
    BY <1>1, <2>1 DEF Waiting, IsCode
  <2>4. Reported'
    BY <1>1 DEF Reported, WaitsForRelease
  <2> QED
    BY <2>2, <2>3, <2>4
<1> QED
  BY <1>2, <1>3, <1>4, <1>5, <1>6, <1>7

LEMMA DeliverStep ==
  ASSUME KeyIInv, Deliver
  PROVE  KeyIInv'
<1> USE DEF KeyIInv
<1>1. /\ wire # <<>> /\ fifo' = Append(fifo, Head(wire)) /\ wire' = Tail(wire)
      /\ UNCHANGED <<mode, last, typist, reader>>
  BY DEF Deliver
<1>2. fifo \in Seq(Bytes) /\ wire \in Seq(Bytes) /\ last \in Bytes /\ mode.bytewise
  BY <1>1, Sizes DEF Places
<1>3. /\ Append(fifo, Head(wire)) \in Seq(Bytes) /\ Tail(wire) \in Seq(Bytes)
      /\ Len(Append(fifo, Head(wire))) + Len(Tail(wire)) = Len(fifo) + Len(wire)
      /\ \A i \in 0..(Len(fifo) + Len(wire)) :
            View(last, Append(fifo, Head(wire)), Tail(wire), i) = View(last, fifo, wire, i)
  BY <1>1, <1>2, ViewDelivered
<1>4. Size' = Size
  BY <1>1, <1>3 DEF Size
<1>5. \A i \in 0..Size : At(i)' = At(i)
  BY <1>1, <1>3 DEF Size, At
<1> QED
  BY <1>1, <1>2, <1>3, <1>4, <1>5, SameStream

-----------------------------------------------------------------------------
(* The steps of get_key                                                    *)

(* inb takes the next byte (d = 1), or takes the last one again (d = 0).   *)
LEMMA Taken ==
  ASSUME Places, ReadPort
  PROVE  \E d \in {0, 1} :
            /\ d = 0 <=> fifo = <<>>
            /\ d <= Size /\ Size' = Size - d
            /\ Inb = At(d) /\ last' = At(d)
            /\ \A i \in 0..(Size - d) : At(i)' = At(i + d)
            /\ fifo' \in Seq(Bytes) /\ UNCHANGED <<mode, wire, held, strokes, released>>
            /\ last' \in Bytes
<1>1. /\ fifo \in Seq(Bytes) /\ wire \in Seq(Bytes) /\ last \in Bytes
      /\ Size \in Nat
  BY Sizes DEF Places
<1>2. /\ last' = Inb /\ fifo' = (IF fifo = <<>> THEN fifo ELSE Tail(fifo))
      /\ UNCHANGED <<mode, wire, held, strokes, released>>
  BY DEF ReadPort, typist
<1>3. CASE fifo = <<>>
  <2>1. Inb = last /\ last' = last /\ fifo' = fifo /\ wire' = wire
    BY <1>2, <1>3 DEF Inb
  <2>2. Size' = Size - 0 /\ 0 <= Size
    BY <1>1, <2>1, SMT DEF Size
  <2>3. At(0) = last
    BY DEF At, View
  <2>4. ASSUME NEW i \in 0..(Size - 0) PROVE At(i)' = At(i + 0)
    <3>1. i + 0 = i
      BY <1>1, SMT
    <3>2. At(i)' = At(i)
      BY <2>1 DEF At
    <3> QED
      BY <3>1, <3>2
  <2> WITNESS 0 \in {0, 1}
  <2> QED
    BY <1>1, <1>2, <1>3, <2>1, <2>2, <2>3, <2>4
<1>4. CASE fifo # <<>>
  <2>1. /\ Size > 0 /\ Len(Tail(fifo)) + Len(wire) = Size - 1
        /\ Head(fifo) = At(1)
        /\ \A i \in 0..(Size - 1) : View(Head(fifo), Tail(fifo), wire, i) = At(i + 1)
    BY <1>1, <1>4, ViewTaken DEF Size, At
  <2>2. Inb = At(1) /\ last' = At(1) /\ fifo' = Tail(fifo) /\ wire' = wire
    BY <1>2, <1>4, <2>1 DEF Inb
  <2>3. Size' = Size - 1 /\ 1 <= Size
    BY <1>1, <2>1, <2>2, SMT DEF Size
  <2>4. \A i \in 0..(Size - 1) : At(i)' = At(i + 1)
    BY <2>1, <2>2 DEF At
  <2>5. fifo' \in Seq(Bytes) /\ last' \in Bytes
    BY <1>1, <1>4, <2>1, <2>2, HeadTailProperties
  <2> WITNESS 1 \in {0, 1}
  <2> QED
    BY <1>2, <1>4, <2>2, <2>3, <2>4, <2>5
<1> QED
  BY <1>3, <1>4

(* What a read keeps, whatever get_key does with the byte                  *)
LEMMA ReadKeeps ==
  ASSUME KeyIInv, ReadPort, pc' \in {"idle", "press", "press2", "wait", "wait2"}
  PROVE  Places' /\ Holding' /\ Known' /\ InOrder'
<1> USE DEF KeyIInv
<1>1. PICK d \in {0, 1} :
            /\ d = 0 <=> fifo = <<>>
            /\ d <= Size /\ Size' = Size - d
            /\ Inb = At(d) /\ last' = At(d)
            /\ \A i \in 0..(Size - d) : At(i)' = At(i + d)
            /\ fifo' \in Seq(Bytes) /\ UNCHANGED <<mode, wire, held, strokes, released>>
            /\ last' \in Bytes
  BY Taken
<1>2. Size \in Nat /\ UNCHANGED Count
  BY <1>1, Sizes DEF Count
<1>3. Places'
  BY <1>1, <1>2 DEF Places
<1>4. Holding'
  BY <1>1, <1>2 DEF Holding
<1>5. ASSUME NEW i \in 0..Size'
      PROVE  \E j \in 0..Size : j = i + d /\ At(i)' = At(j) /\ (j = 0 => i = 0)
  <2>1. i \in 0..(Size - d) /\ i + d \in 0..Size /\ (i + d = 0 => i = 0)
    BY <1>1, <1>2, SMT
  <2>2. At(i)' = At(i + d)
    BY <1>1, <2>1
  <2> HIDE DEF KeyIInv
  <2> QED
    BY <2>1, <2>2
<1>6. Known'
  <2> SUFFICES ASSUME NEW i \in 0..Size'
               PROVE  \/ i = 0 /\ At(i)'.t = "ack"
                      \/ /\ At(i)'.t # "ack"
                         /\ At(i)'.s \in 1..Count
                         /\ At(i)'.c = strokes[At(i)'.s].c
                         /\ At(i)'.t = "E0" => strokes[At(i)'.s].ext
                         /\ At(i)'.t = "break" => At(i)'.s \in released
    BY <1>1, <1>2 DEF Known
  <2>1. PICK j \in 0..Size : At(i)' = At(j) /\ (j = 0 => i = 0)
    BY <1>5
  <2> QED
    BY <2>1 DEF Known
<1>7. InOrder'
  <2> SUFFICES ASSUME NEW i \in 0..Size', NEW j \in 0..Size', i < j
               PROVE  Before(At(i), At(j))'
    BY DEF InOrder
  <2>1. PICK p \in 0..Size : p = i + d /\ At(i)' = At(p)
    BY <1>5
  <2>2. PICK q \in 0..Size : q = j + d /\ At(j)' = At(q)
    BY <1>5
  <2>3. p < q
    BY <1>2, <2>1, <2>2, SMT
  <2>4. Before(At(p), At(q))
    BY <2>3 DEF InOrder
  <2> QED
    BY <1>1, <2>1, <2>2, <2>4 DEF Before, IsCode
<1> QED
  BY <1>3, <1>4, <1>6, <1>7

(* Where no code is torn, the second inb gets the second byte, and the     *)
(* first one no second byte.                                               *)
LEMMA WholeCode ==
  ASSUME KeyIInv, Orderly
  PROVE  /\ pc \in {"press2", "wait2"} =>
               /\ last.t = "E0" /\ fifo # <<>> /\ 1 \in 0..Size
               /\ IsCode(At(1)) /\ At(1).s = last.s
               /\ strokes[At(1).s].ext
         /\ pc \notin {"press2", "wait2"} =>
               /\ last.t # "E0"
               /\ 1 \in 0..Size /\ IsCode(At(1)) => ~strokes[At(1).s].ext
<1> USE DEF KeyIInv
<1>1. Paired /\ Size \in Nat /\ At(0) = last
  BY Sizes DEF At, View
<1>2. ASSUME pc \in {"press2", "wait2"}
      PROVE  /\ last.t = "E0" /\ fifo # <<>> /\ 1 \in 0..Size
             /\ IsCode(At(1)) /\ At(1).s = last.s
             /\ strokes[At(1).s].ext
  <2>1. last.t = "E0" /\ 0 \in 0..Size
    BY <1>1, <1>2, SMT DEF Paired
  <2>2. 0 < Size /\ IsCode(At(0 + 1)) /\ At(0 + 1).s = At(0).s
    BY <1>1, <2>1 DEF Paired
  <2>3. IsCode(At(1)) /\ At(1).s = last.s /\ 1 \in 0..Size
    BY <1>1, <2>2, SMT
  <2>4. last.s \in 1..Count /\ strokes[last.s].ext
    BY <1>1, <2>1 DEF Known
  <2>5. fifo # <<>>
    <3> SUFFICES ASSUME fifo = <<>> PROVE FALSE
      OBVIOUS
    <3>1. wire # <<>>
      <4>1. Len(<<>>) = 0
        BY EmptySeq
      <4> QED
        BY <2>2, <4>1, SMT DEF Size
    <3>2. mode.bytewise
      BY <3>1 DEF Places
    <3>3. strokes[last.s] \in mode.keys
      BY <2>4, Sizes
    <3> QED
      BY <2>4, <3>2, <3>3 DEF Orderly
  <2> QED
    BY <2>1, <2>3, <2>4, <2>5
<1>3. ASSUME pc \notin {"press2", "wait2"}
      PROVE  /\ last.t # "E0"
             /\ 1 \in 0..Size /\ IsCode(At(1)) => ~strokes[At(1).s].ext
  <2>1. last.t # "E0"
    BY <1>1, <1>3 DEF Paired
  <2>2. ASSUME 1 \in 0..Size, IsCode(At(1)), strokes[At(1).s].ext PROVE FALSE
    <3>1. 1 \in 1..Size /\ 1 - 1 = 0
      BY <1>1, <2>2, SMT
    <3>2. At(1 - 1).t = "E0"
      BY <1>1, <2>2, <3>1 DEF Paired
    <3>3. At(0).t = "E0"
      BY <3>1, <3>2
    <3> QED
      BY <1>1, <2>1, <3>3
  <2> QED
    BY <2>1, <2>2
<1> QED
  BY <1>2, <1>3

LEMMA ReadPaired ==
  ASSUME KeyIInv, Orderly, ReadPort, pc # "idle",
         pc' \in {"press2", "wait2"} <=> pc \in {"press", "wait"} /\ Inb.t = "E0",
         pc \in {"press", "press2", "wait", "wait2"}
  PROVE  Paired'
<1> USE DEF KeyIInv
<1>1. PICK d \in {0, 1} :
            /\ d = 0 <=> fifo = <<>>
            /\ d <= Size /\ Size' = Size - d
            /\ Inb = At(d) /\ last' = At(d)
            /\ \A i \in 0..(Size - d) : At(i)' = At(i + d)
            /\ fifo' \in Seq(Bytes) /\ UNCHANGED <<mode, wire, held, strokes, released>>
            /\ last' \in Bytes
  BY Taken
<1>2. Size \in Nat /\ Paired /\ At(0) = last
  BY Sizes DEF At, View
<1>3. ASSUME NEW i \in 0..Size'
      PROVE  i + d \in 0..Size /\ At(i)' = At(i + d)
  <2>1. i \in 0..(Size - d) /\ i + d \in 0..Size
    BY <1>1, <1>2, SMT
  <2> QED
    BY <1>1, <2>1
<1>4. ASSUME NEW i \in 0..Size', At(i)'.t = "E0"
      PROVE  i < Size' /\ IsCode(At(i + 1))' /\ At(i + 1)'.s = At(i)'.s
  <2> PICK p \in 0..Size : p = i + d /\ At(i)' = At(p)
    BY <1>3
  <2>1. p < Size /\ IsCode(At(p + 1)) /\ At(p + 1).s = At(p).s
    BY <1>2, <1>4 DEF Paired
  <2>2. i < Size'
    BY <1>1, <1>2, <2>1, SMT
  <2> PICK j \in 0..Size' : j = i + 1
    BY <1>1, <1>2, <2>2, SMT
  <2>3. j + d = p + 1
    BY <1>1, <1>2, SMT
  <2>4. At(j)' = At(p + 1)
    BY <1>3, <2>3
  <2> QED
    BY <2>1, <2>2, <2>4 DEF IsCode
<1>5. ASSUME NEW i \in 1..Size', IsCode(At(i))', strokes'[At(i)'.s].ext
      PROVE  At(i - 1)'.t = "E0"
  <2>1. i \in 0..Size' /\ i - 1 \in 0..Size'
    BY <1>1, <1>2, SMT
  <2> PICK p \in 0..Size : p = i + d /\ At(i)' = At(p)
    BY <1>3, <2>1
  <2>2. p \in 1..Size
    BY <1>1, <1>2, SMT
  <2>3. At(p - 1).t = "E0"
    BY <1>1, <1>2, <1>5, <2>2 DEF Paired, IsCode
  <2> PICK j \in 0..Size' : j = i - 1
    BY <2>1
  <2>4. j + d = p - 1
    BY <1>1, <1>2, SMT
  <2>5. At(j)' = At(p - 1)
    BY <1>3, <2>4
  <2> QED
    BY <2>3, <2>5
<1>6. last'.t = "E0" <=> pc' \in {"press2", "wait2"}
  <2>1. CASE pc \in {"press", "wait"}
    BY <1>1, <2>1
  <2>2. CASE pc \in {"press2", "wait2"}
    <3>1. fifo # <<>> /\ IsCode(At(1))
      BY <2>2, WholeCode
    <3>2. last' = At(1)
      BY <1>1, <3>1
    <3> QED
      BY <2>2, <3>1, <3>2 DEF IsCode
  <2> QED
    BY <2>1, <2>2
<1> QED
  BY <1>4, <1>5, <1>6 DEF Paired

(* What get_key may still see after a read, while it goes on as before     *)
LEMMA GoesOn ==
  ASSUME KeyIInv, Seeking, Waiting, Reported, ReadPort, UNCHANGED <<scancode, returned>>,
         \/ pc \in {"press", "press2"} /\ pc' \in {"press", "press2"} /\ Inb.t # "make"
         \/ pc \in {"wait", "wait2"} /\ pc' \in {"wait", "wait2"}
  PROVE  Seeking' /\ Waiting' /\ Reported'
<1>1. PICK d \in {0, 1} :
            /\ d = 0 <=> fifo = <<>>
            /\ d <= Size /\ Size' = Size - d
            /\ Inb = At(d) /\ last' = At(d)
            /\ \A i \in 0..(Size - d) : At(i)' = At(i + d)
            /\ fifo' \in Seq(Bytes) /\ UNCHANGED <<mode, wire, held, strokes, released>>
            /\ last' \in Bytes
  BY Taken DEF KeyIInv
<1>2. Size \in Nat /\ UNCHANGED <<Count, LastReported>>
  BY <1>1, Sizes DEF Count, LastReported, Reader!LastReported, KeyIInv
<1>3. ASSUME NEW i \in 0..Size' PROVE \E j \in 0..Size : At(i)' = At(j)
  <2>1. i \in 0..(Size - d) /\ i + d \in 0..Size
    BY <1>1, <1>2, SMT
  <2> QED
    BY <1>1, <2>1
<1>4. Reported'
  BY <1>1, <1>2 DEF Reported, WaitsForRelease
<1>5. CASE pc \in {"press", "press2"} /\ pc' \in {"press", "press2"} /\ Inb.t # "make"
  <2>1. ASSUME NEW i \in 0..Size', At(i)'.t = "make" PROVE At(i)'.s > LastReported
    BY <1>3, <1>5, <2>1 DEF Seeking
  <2>2. Seeking'
    BY <1>1, <1>2, <1>5, <2>1 DEF Seeking
  <2>3. Waiting'
    BY <1>5 DEF Waiting
  <2> QED
    BY <1>4, <2>2, <2>3
<1>6. CASE pc \in {"wait", "wait2"} /\ pc' \in {"wait", "wait2"}
  <2>1. Seeking'
    BY <1>6 DEF Seeking
  <2>2. ASSUME NEW i \in 0..Size'
        PROVE  /\ At(i)'.t = "make" => At(i)'.s >= scancode.s
               /\ IsCode(At(i))' /\ strokes[At(i)'.s] = strokes[scancode.s]
                     => At(i)'.s >= scancode.s
    <3> PICK j \in 0..Size : At(i)' = At(j)
      BY <1>3
    <3>1. IsCode(At(i))' <=> IsCode(At(j))
      BY DEF IsCode
    <3> QED
      BY <1>6, <3>1 DEF Waiting
  <2>3. Waiting'
    BY <1>1, <1>2, <1>6, <2>2 DEF Waiting
  <2> QED
    BY <1>4, <2>1, <2>3
<1> QED
  BY <1>5, <1>6

(* A press code that get_key keeps is of a stroke that it has not reported *)
(* and that no byte to come is older than.                                 *)
LEMMA PressTaken ==
  ASSUME KeyIInv, Orderly, Seeking, Waiting, Reported, ReadPort,
         Inb.t = "make", NEW e \in BOOLEAN,
         \/ pc = "press" /\ e = FALSE
         \/ pc = "press2" /\ e = TRUE,
         pc' = "wait", scancode' = [ext |-> e, c |-> Inb.c, s |-> Inb.s],
         UNCHANGED returned
  PROVE  Seeking' /\ Waiting' /\ Reported'
<1>0. Places /\ Known /\ InOrder /\ Count \in Nat /\ Size \in Nat /\ At(0) = last
  BY Sizes DEF KeyIInv, At, View
<1>1. PICK d \in {0, 1} :
            /\ d = 0 <=> fifo = <<>>
            /\ d <= Size /\ Size' = Size - d
            /\ Inb = At(d) /\ last' = At(d)
            /\ \A i \in 0..(Size - d) : At(i)' = At(i + d)
            /\ fifo' \in Seq(Bytes) /\ UNCHANGED <<mode, wire, held, strokes, released>>
            /\ last' \in Bytes
  BY <1>0, Taken
<1>2. UNCHANGED <<Count, LastReported>>
  BY <1>1 DEF Count, LastReported, Reader!LastReported
<1>3. Reported'
  BY <1>1, <1>2 DEF Reported, WaitsForRelease
<1>4. Seeking'
  BY DEF Seeking
<1>5. d = 1
  BY <1>0, <1>1 DEF Seeking
<1>6. 1 \in 0..Size /\ Inb = At(1)
  BY <1>0, <1>1, <1>5, SMT
<1> DEFINE b == At(1)
<1>7. /\ b.s \in 1..Count /\ b.c = strokes[b.s].c /\ strokes[b.s] \in mode.keys
      /\ b.s > LastReported
  BY <1>0, <1>6, CodeKnown DEF Seeking, IsCode
<1>8. strokes[b.s] = [ext |-> strokes[b.s].ext, c |-> b.c] /\ strokes[b.s].ext \in BOOLEAN
  BY <1>0, <1>7, KeyRecord
<1>9. strokes[b.s].ext = e
  <2>1. IsCode(b)
    BY <1>6 DEF IsCode
  <2>2. CASE pc = "press" /\ e = FALSE
    <3>1. ~strokes[b.s].ext
      BY <1>6, <2>1, <2>2, WholeCode
    <3> QED
      BY <1>8, <2>2, <3>1, Zenon
  <2>3. CASE pc = "press2" /\ e = TRUE
    <3>1. strokes[b.s].ext
      BY <1>6, <2>1, <2>3, WholeCode
    <3> QED
      BY <1>8, <2>3, <3>1, Zenon
  <2> QED
    BY <2>2, <2>3
<1>10. scancode'.s = b.s /\ scancode'.c = b.c /\ scancode'.ext = e
  BY <1>6
<1>11. ASSUME NEW i \in 0..Size'
       PROVE  /\ At(i)'.t = "make" => At(i)'.s >= b.s
              /\ IsCode(At(i))' /\ strokes[At(i)'.s] = strokes[b.s] => At(i)'.s >= b.s
  <2>1. PICK j \in 0..Size : j >= 1 /\ At(i)' = At(j)
    <3>1. i \in 0..(Size - 1) /\ i + 1 \in 0..Size /\ i + 1 >= 1
      BY <1>0, <1>1, <1>5, SMT
    <3> QED
      BY <1>1, <1>5, <3>1
  <2>2. CASE j = 1
    BY <1>0, <1>7, <2>1, <2>2, SMT
  <2>3. CASE j # 1
    <3>1. 1 < j
      BY <2>1, <2>3, SMT
    <3>2. Before(b, At(j))
      BY <1>0, <1>6, <3>1 DEF InOrder
    <3>3. IsCode(At(i))' <=> IsCode(At(j))
      BY <2>1 DEF IsCode
    <3>4. b.t = "make"
      BY <1>6
    <3>5. IsCode(b)
      BY <3>4 DEF IsCode
    <3>6. IsCode(At(j)) => At(j).s \in 1..Count
      BY <1>0, CodeKnown
    <3>7. At(j).t = "make" => At(j).s >= b.s
      <4>1. At(j).t = "make" => IsCode(At(j)) /\ b.s <= At(j).s
        BY <3>2, <3>4 DEF Before, IsCode
      <4> QED
        BY <1>0, <1>7, <3>6, <4>1, SMT
    <3>8. IsCode(At(j)) /\ strokes[At(j).s] = strokes[b.s] => At(j).s >= b.s
      <4>1. IsCode(At(j)) /\ strokes[At(j).s] = strokes[b.s] => b.s <= At(j).s
        BY <3>2, <3>5 DEF Before
      <4> QED
        BY <1>0, <1>7, <3>6, <4>1, SMT
    <3> QED
      BY <2>1, <3>3, <3>7, <3>8
  <2> QED
    BY <2>2, <2>3
<1>12. strokes'[scancode'.s] = [ext |-> scancode'.ext, c |-> scancode'.c]
  BY <1>1, <1>8, <1>9, <1>10
<1> HIDE DEF b
<1>13. Waiting'
  BY <1>1, <1>2, <1>7, <1>10, <1>11, <1>12 DEF Waiting
<1> QED
  BY <1>3, <1>4, <1>13

(* The release of the key of the press code ends a stroke that is no older *)
(* than the press code's, so that one has ended, too, and it is new.       *)
LEMMA ReleaseTaken ==
  ASSUME KeyIInv, Distinct, Seeking, Waiting, Reported, ReadPort,
         pc \in {"wait", "wait2"}, Inb.t = "break", Inb.c = scancode.c,
         pc' = "idle", UNCHANGED scancode,
         returned' = Append(returned, [s |-> scancode.s,
                                       key |-> [ext |-> scancode.ext, c |-> scancode.c]])
  PROVE  /\ scancode.s \in released /\ scancode.s \in 1..Count
         /\ scancode.s > LastReported
         /\ strokes[scancode.s] = [ext |-> scancode.ext, c |-> scancode.c]
         /\ Seeking' /\ Waiting' /\ Reported'
<1>0. Places /\ Holding /\ Known /\ InOrder /\ Count \in Nat /\ Size \in Nat /\ At(0) = last
  BY Sizes DEF KeyIInv, At, View
<1>1. PICK d \in {0, 1} :
            /\ d = 0 <=> fifo = <<>>
            /\ d <= Size /\ Size' = Size - d
            /\ Inb = At(d) /\ last' = At(d)
            /\ \A i \in 0..(Size - d) : At(i)' = At(i + d)
            /\ fifo' \in Seq(Bytes) /\ UNCHANGED <<mode, wire, held, strokes, released>>
            /\ last' \in Bytes
  BY <1>0, Taken
<1>2. d \in 0..Size /\ UNCHANGED Count
  BY <1>0, <1>1, SMT DEF Count
<1> PICK p : p = scancode.s
  OBVIOUS
<1>3. /\ p \in 1..Count /\ p > LastReported
      /\ strokes[p] = [ext |-> scancode.ext, c |-> scancode.c]
      /\ \A i \in 0..Size :
            /\ At(i).t = "make" => At(i).s >= p
            /\ IsCode(At(i)) /\ strokes[At(i).s] = strokes[p] => At(i).s >= p
  BY DEF Waiting
<1> DEFINE b == At(d)
<1>4. /\ b.t = "break" /\ b.c = scancode.c /\ IsCode(b)
      /\ b.s \in 1..Count /\ b.c = strokes[b.s].c /\ strokes[b.s] \in mode.keys
      /\ b.s \in released
  <2>1. b.t = "break" /\ b.c = scancode.c /\ IsCode(b)
    BY <1>1 DEF IsCode
  <2> QED
    BY <1>0, <1>2, <2>1, CodeKnown
<1>5. strokes[p] \in mode.keys /\ strokes[p].c = scancode.c
  <2>1. strokes[p] \in mode.keys
    BY <1>0, <1>3, Sizes
  <2> QED
    BY <1>3, <2>1
<1>6. strokes[b.s] = strokes[p]
  BY <1>4, <1>5 DEF Distinct
<1>7. b.s >= p
  BY <1>2, <1>3, <1>4, <1>6
<1>8. p \in released
  <2> SUFFICES ASSUME p \notin released PROVE FALSE
    OBVIOUS
  <2>1. held[strokes[p]] = p
    BY <1>0, <1>3 DEF Holding
  <2>2. p # 0
    BY <1>0, <1>3, SMT
  <2>3. b.s <= p
    BY <1>0, <1>4, <1>6, <2>1, <2>2 DEF Holding
  <2>4. b.s = p
    BY <1>0, <1>3, <1>4, <1>7, <2>3, SMT
  <2> QED
    BY <1>4, <2>4
<1> DEFINE r == [s |-> p, key |-> [ext |-> scancode.ext, c |-> scancode.c]]
<1>9. r \in [s : 1..Count, key : mode.keys]
  BY <1>3, <1>5
<1> DEFINE T == [s : 1..Count, key : mode.keys]
<1>10. returned \in Seq(T) /\ \A i \in DOMAIN returned : returned[i].s \in released
  BY DEF Reported, WaitsForRelease
<1>11. /\ returned' = Append(returned, r) /\ r.s = p /\ r \in T
  BY <1>9
<1> HIDE DEF T, r, b
<1>12. /\ returned' \in Seq(T)
       /\ Len(returned') = Len(returned) + 1
       /\ \A i \in 1..Len(returned) : returned'[i] = returned[i]
       /\ returned'[Len(returned) + 1] = r
       /\ Len(returned) \in Nat
       /\ DOMAIN returned' = 1..Len(returned') /\ DOMAIN returned = 1..Len(returned)
  <2>1. returned \in Seq(T) /\ Append(returned, r) \in Seq(T)
    BY <1>10, <1>11, AppendProperties
  <2>2. Len(returned) \in Nat /\ DOMAIN returned = 1..Len(returned)
        /\ DOMAIN Append(returned, r) = 1..Len(Append(returned, r))
    BY <2>1, LenProperties
  <2> QED
    BY <1>10, <1>11, <2>1, <2>2, AppendProperties
<1>13. Reported'
  <2>1. ASSUME NEW i \in DOMAIN returned' PROVE returned'[i].s \in released
    <3>1. i \in 1..Len(returned) \/ i = Len(returned) + 1
      BY <1>12, SMT
    <3>2. ASSUME i \in 1..Len(returned) PROVE returned'[i].s \in released
      <4>1. returned'[i] = returned[i] /\ i \in DOMAIN returned
        BY <1>12, <3>2
      <4> QED
        BY <1>10, <4>1
    <3>3. ASSUME i = Len(returned) + 1 PROVE returned'[i].s \in released
      BY <1>8, <1>11, <1>12, <3>3
    <3> QED
      BY <3>1, <3>2, <3>3
  <2>2. returned' \in Seq([s : 1..Count', key : mode'.keys])
    BY <1>1, <1>2, <1>12 DEF T
  <2> QED
    BY <1>1, <2>1, <2>2 DEF Reported, WaitsForRelease
<1>14. LastReported' = p
  <2>1. returned' # <<>>
    <3>1. Len(returned') # 0
      BY <1>12, SMT
    <3> QED
      BY <3>1, EmptySeq
  <2>2. returned'[Len(returned')].s = p
    BY <1>11, <1>12
  <2> QED
    BY <2>1, <2>2 DEF LastReported, Reader!LastReported
<1>15. ASSUME NEW i \in 0..Size', At(i)'.t = "make" PROVE At(i)'.s > p
  <2>1. PICK j \in 0..Size : j >= d /\ At(i)' = At(j)
    <3>1. i \in 0..(Size - d) /\ i + d \in 0..Size /\ i + d >= d
      BY <1>0, <1>1, SMT
    <3> QED
      BY <1>1, <3>1
  <2>2. j # d
    BY <1>4, <1>15, <2>1 DEF b
  <2>3. d < j
    BY <2>1, <2>2, SMT
  <2>4. Before(b, At(j))
    BY <1>0, <1>2, <2>3 DEF InOrder, b
  <2>5. At(j).t = "make" /\ IsCode(At(j)) /\ At(j).s >= p /\ b.s # At(j).s
    BY <1>3, <1>4, <1>15, <2>1, <2>4 DEF Before, IsCode
  <2>6. At(j).s \in 1..Count
    BY <1>0, <2>5, CodeKnown
  <2>7. At(j).s # p
    <3> SUFFICES ASSUME At(j).s = p PROVE FALSE
      OBVIOUS
    <3>1. b.s <= At(j).s
      BY <1>4, <1>6, <2>4, <2>5 DEF Before
    <3>2. b.s = p
      BY <1>0, <1>3, <1>4, <1>7, <3>1, SMT
    <3> QED
      BY <2>5, <3>2
  <2> QED
    BY <1>0, <1>3, <2>1, <2>5, <2>6, <2>7, SMT
<1>16. Seeking'
  <2>1. last'.t # "make"
    BY <1>1, <1>4 DEF b
  <2> QED
    BY <1>14, <1>15, <2>1 DEF Seeking
<1>17. Waiting'
  BY DEF Waiting
<1> QED
  BY <1>3, <1>8, <1>13, <1>16, <1>17

(* A step of get_key that reads                                            *)
LEMMA ReadStep ==
  ASSUME KeyIInv, ReadPort, pc \in {"press", "press2", "wait", "wait2"},
         pc' \in {"idle", "press", "press2", "wait", "wait2"},
         pc' \in {"press2", "wait2"} <=> pc \in {"press", "wait"} /\ Inb.t = "E0",
         Orderly /\ Distinct => Seeking' /\ Waiting' /\ Reported'
  PROVE  KeyIInv'
<1>1. Places' /\ Holding' /\ Known' /\ InOrder'
  BY ReadKeeps
<1>2. UNCHANGED mode
  BY DEF ReadPort
<1>3. (Orderly => Paired)'
  <2> SUFFICES ASSUME Orderly PROVE Paired'
    BY <1>2 DEF Orderly
  <2> QED
    BY ReadPaired
<1>4. (Orderly /\ Distinct => Seeking /\ Waiting /\ Reported)'
  BY <1>2 DEF Orderly, Distinct
<1> QED
  BY <1>1, <1>3, <1>4 DEF KeyIInv

LEMMA ReadPressStep ==
  ASSUME KeyIInv, ReadPress
  PROVE  KeyIInv'
<1>1. pc = "press" /\ ReadPort /\ UNCHANGED returned
  BY DEF ReadPress, TakePress
<1>2. CASE Inb.t = "make"
  <2>1. pc' = "wait" /\ scancode' = [ext |-> FALSE, c |-> Inb.c, s |-> Inb.s]
    BY <1>2 DEF ReadPress, TakePress
  <2>2. Orderly /\ Distinct => Seeking' /\ Waiting' /\ Reported'
    BY <1>1, <1>2, <2>1, PressTaken DEF KeyIInv
  <2> QED
    BY <1>1, <1>2, <2>1, <2>2, ReadStep
<1>3. CASE Inb.t # "make"
  <2>1. /\ pc' \in {"press", "press2"} /\ UNCHANGED scancode
        /\ pc' = "press2" <=> Inb.t = "E0"
    BY <1>3 DEF ReadPress, TakePress
  <2>2. Orderly /\ Distinct => Seeking' /\ Waiting' /\ Reported'
    BY <1>1, <1>3, <2>1, GoesOn DEF KeyIInv
  <2> QED
    BY <1>1, <2>1, <2>2, ReadStep
<1> QED
  BY <1>2, <1>3

LEMMA ReadPressSecondStep ==
  ASSUME KeyIInv, ReadPressSecond
  PROVE  KeyIInv'
<1>1. pc = "press2" /\ ReadPort /\ UNCHANGED returned
  BY DEF ReadPressSecond, TakePress
<1>2. CASE Inb.t = "make"
  <2>1. pc' = "wait" /\ scancode' = [ext |-> TRUE, c |-> Inb.c, s |-> Inb.s]
    BY <1>2 DEF ReadPressSecond, TakePress
  <2>2. Orderly /\ Distinct => Seeking' /\ Waiting' /\ Reported'
    BY <1>1, <1>2, <2>1, PressTaken DEF KeyIInv
  <2> QED
    BY <1>1, <2>1, <2>2, ReadStep
<1>3. CASE Inb.t # "make"
  <2>1. pc' = "press" /\ UNCHANGED scancode
    BY <1>3 DEF ReadPressSecond, TakePress
  <2>2. Orderly /\ Distinct => Seeking' /\ Waiting' /\ Reported'
    BY <1>1, <1>3, <2>1, GoesOn DEF KeyIInv
  <2> QED
    BY <1>1, <2>1, <2>2, ReadStep
<1> QED
  BY <1>2, <1>3

(* What the second loop does with a code, complete or not                  *)
LEMMA ReleaseLoop ==
  ASSUME KeyIInv, ReadRelease \/ ReadReleaseSecond
  PROVE  /\ ReadPort /\ pc \in {"wait", "wait2"} /\ UNCHANGED scancode
         /\ pc' \in {"wait2"} <=> pc = "wait" /\ Inb.t = "E0"
         /\ \/ pc' \in {"wait", "wait2"} /\ UNCHANGED returned
            \/ /\ Inb.t = "break" /\ Inb.c = scancode.c /\ pc' = "idle"
               /\ returned' = Append(returned,
                     [s |-> scancode.s,
                      key |-> [ext |-> scancode.ext, c |-> scancode.c]])
<1>1. CASE ReadRelease
  <2>1. CASE Inb.t = "E0"
    BY <1>1, <2>1 DEF ReadRelease
  <2>2. CASE Inb.t # "E0"
    BY <1>1, <2>2 DEF ReadRelease, TakeRelease
  <2> QED
    BY <2>1, <2>2
<1>2. CASE ReadReleaseSecond
  BY <1>2 DEF ReadReleaseSecond, TakeRelease
<1> QED
  BY <1>1, <1>2

LEMMA ReadReleaseStep ==
  ASSUME KeyIInv, ReadRelease \/ ReadReleaseSecond
  PROVE  KeyIInv'
<1>1. /\ ReadPort /\ pc \in {"wait", "wait2"} /\ UNCHANGED scancode
      /\ pc' \in {"wait2"} <=> pc = "wait" /\ Inb.t = "E0"
  BY ReleaseLoop
<1>2. CASE pc' \in {"wait", "wait2"} /\ UNCHANGED returned
  <2>1. Orderly /\ Distinct => Seeking' /\ Waiting' /\ Reported'
    BY <1>1, <1>2, GoesOn DEF KeyIInv
  <2> QED
    BY <1>1, <1>2, <2>1, ReadStep
<1>3. CASE /\ Inb.t = "break" /\ Inb.c = scancode.c /\ pc' = "idle"
           /\ returned' = Append(returned,
                 [s |-> scancode.s,
                  key |-> [ext |-> scancode.ext, c |-> scancode.c]])
  <2>1. Orderly /\ Distinct => Seeking' /\ Waiting' /\ Reported'
    BY <1>1, <1>3, ReleaseTaken DEF KeyIInv
  <2> QED
    BY <1>1, <1>3, <2>1, ReadStep
<1> QED
  BY <1>2, <1>3, ReleaseLoop

(* update_game_state calls get_key: the port still shows the last code.    *)
LEMMA CallStep ==
  ASSUME KeyIInv, Call
  PROVE  KeyIInv'
<1> USE DEF KeyIInv
<1>1. /\ pc = "idle" /\ pc' = "press"
      /\ UNCHANGED <<mode, fifo, last, wire, held, strokes, released, overlap,
                     scancode, returned>>
  BY DEF Call, device, typist
<1>2. UNCHANGED <<Size, Count, LastReported>> /\ \A i \in 0..Size : At(i)' = At(i)
  BY <1>1 DEF Size, Count, LastReported, Reader!LastReported, At
<1>3. Places'
  BY <1>1 DEF Places, Count
<1>4. Holding'
  BY <1>1 DEF Holding, Count
<1>5. Known'
  BY <1>1, <1>2 DEF Known
<1>6. InOrder'
  BY <1>1 DEF InOrder, Before, IsCode, Size, At
<1>7. (Orderly => Paired)'
  BY <1>1 DEF Orderly, Paired, IsCode, Size, At
<1>8. (Orderly /\ Distinct => Seeking /\ Waiting /\ Reported)'
  <2> SUFFICES ASSUME Orderly, Distinct PROVE Seeking' /\ Waiting' /\ Reported'
    BY <1>1 DEF Orderly, Distinct
  <2>1. Seeking'
    BY <1>1, <1>2 DEF Seeking
  <2>2. Waiting'
    BY <1>1 DEF Waiting
  <2>3. Reported'
    BY <1>1, <1>2 DEF Reported, WaitsForRelease
  <2> QED
    BY <2>1, <2>2, <2>3
<1> QED
  BY <1>3, <1>4, <1>5, <1>6, <1>7, <1>8

LEMMA KeyInit ==
  ASSUME Init
  PROVE  KeyIInv
<1>1. /\ mode \in Modes /\ fifo = <<>> /\ wire = <<>>
      /\ last = Byte("ack", "none", 0) /\ held = [k \in Keys |-> 0]
      /\ strokes = <<>> /\ released = {} /\ pc = "idle" /\ returned = <<>>
  BY DEF Init
<1>2. /\ last \in Bytes /\ last.t = "ack"
  BY <1>1 DEF Byte, Bytes, Codes
<1>3. Len(<<>>) = 0 /\ <<>> \in Seq(Bytes) /\ <<>> \in Seq(mode.keys)
      /\ <<>> \in Seq([s : 1..Count, key : mode.keys])
  BY EmptySeq
<1>4. Count = 0 /\ Size = 0 /\ At(0) = last /\ LastReported = 0
  BY <1>1, <1>3, SMT DEF Count, Size, At, View, LastReported, Reader!LastReported
<1>5. \A i \in 0..Size : i = 0
  BY <1>4, SMT
<1>6. \A i \in 1..Size : FALSE
  BY <1>4, SMT
<1>7. \A i \in 1..Count : FALSE
  BY <1>4, SMT
<1>8. Places
  BY <1>1, <1>2, <1>3 DEF Places
<1>9. Holding
  BY <1>1, <1>7 DEF Holding
<1>10. Known
  BY <1>2, <1>4, <1>5 DEF Known
<1>11. InOrder
  BY <1>4, SMT DEF InOrder
<1>12. Paired
  BY <1>1, <1>2, <1>4, <1>5, <1>6 DEF Paired
<1>13. Seeking /\ Waiting
  BY <1>1, <1>2, <1>4, <1>5 DEF Seeking, Waiting
<1>14. Reported
  BY <1>1, <1>3 DEF Reported, WaitsForRelease
<1> QED
  BY <1>8, <1>9, <1>10, <1>11, <1>12, <1>13, <1>14 DEF KeyIInv

LEMMA KeyNext ==
  ASSUME KeyIInv, [Next]_vars
  PROVE  KeyIInv'
<1>1. CASE Deliver
  BY <1>1, DeliverStep
<1>2. ASSUME NEW k \in Keys, Press(k) PROVE KeyIInv'
  BY <1>2, PressStep
<1>3. ASSUME NEW k \in Keys, Repeat(k) PROVE KeyIInv'
  BY <1>3, RepeatStep
<1>4. ASSUME NEW k \in Keys, Release(k) PROVE KeyIInv'
  BY <1>4, ReleaseStep
<1>5. CASE GetKey
  BY <1>5, CallStep, ReadPressStep, ReadPressSecondStep, ReadReleaseStep DEF GetKey
<1>6. CASE UNCHANGED vars
  <2>1. UNCHANGED <<mode, fifo, last, wire, typist, reader>>
    BY <1>6 DEF vars, device
  <2>2. Size' = Size /\ \A i \in 0..Size : At(i)' = At(i)
    BY <2>1 DEF Size, At
  <2>3. fifo' \in Seq(Bytes) /\ wire' \in Seq(Bytes) /\ (~mode.bytewise => wire' = <<>>)
    BY <2>1 DEF KeyIInv, Places
  <2> QED
    BY <2>1, <2>2, <2>3, SameStream
<1> QED
  BY <1>1, <1>2, <1>3, <1>4, <1>5, <1>6 DEF Next

-----------------------------------------------------------------------------
(* What holds of get_key, its keyboard and its typist throughout, for any  *)
(* keyboards, any keys and any number of strokes: the byte on the port and *)
(* those to come are codes of strokes in order, a prefix is followed by    *)
(* its code, and get_key waits for the end of a stroke it has not          *)
(* returned.                                                               *)
THEOREM KeyInvariant == Spec => []KeyIInv
<1>1. Init => KeyIInv
  BY KeyInit
<1>2. KeyIInv /\ [Next]_vars => KeyIInv'
  BY KeyNext
<1> QED
  BY <1>1, <1>2, PTL DEF Spec

(* keyboard.c:13-26: get_key's second inb never reads a stale byte,  *)
(* and its first never the second byte of a prefixed code, with a keyboard *)
(* that puts whole codes into the buffer.                                  *)
THEOREM WholeCodes == Spec => []ReadsWholeCodes
<1>1. ASSUME KeyIInv PROVE ReadsWholeCodes
  <2> SUFFICES ASSUME ~mode.bytewise PROVE ReadsWholeCodes
    BY DEF ReadsWholeCodes
  <2>1. Orderly /\ wire = <<>>
    BY <1>1 DEF Orderly, KeyIInv, Places
  <2>2. fifo \in Seq(Bytes) /\ Known /\ Paired /\ Size \in Nat /\ last \in Bytes
    BY <1>1, <2>1, Sizes DEF KeyIInv, Places
  <2>3. fifo # <<>> => 1 \in 0..Size /\ Head(fifo) = At(1)
    <3> SUFFICES ASSUME fifo # <<>> PROVE 1 \in 0..Size /\ Head(fifo) = At(1)
      OBVIOUS
    <3>1. wire \in Seq(Bytes)
      BY <2>1, EmptySeq
    <3>2. Len(fifo) + Len(wire) > 0 /\ Head(fifo) = View(last, fifo, wire, 1)
      BY <2>2, <3>1, ViewTaken
    <3> QED
      BY <2>2, <3>2, SMT DEF Size, At
  <2>4. ASSUME pc \in {"press2", "wait2"}
        PROVE  /\ last.t = "E0" /\ fifo # <<>>
               /\ Head(fifo).t \in {"make", "break"} /\ Head(fifo).s = last.s
    <3>1. last.t = "E0" /\ fifo # <<>> /\ IsCode(At(1)) /\ At(1).s = last.s
      BY <1>1, <2>1, <2>4, WholeCode
    <3> QED
      BY <2>3, <3>1 DEF IsCode
  <2>5. ASSUME pc \in {"press", "wait", "idle"}, fifo # <<>>
        PROVE  Head(fifo).t = "E0" <=> strokes[Head(fifo).s].ext
    <3>1. 1 \in 0..Size /\ Head(fifo) = At(1) /\ At(1) \in Bytes
      BY <1>1, <2>3, <2>5, Sizes DEF KeyIInv
    <3>2. At(1).t # "ack" /\ (At(1).t = "E0" => strokes[At(1).s].ext)
      BY <2>2, <3>1 DEF Known
    <3>3. IsCode(At(1)) => ~strokes[At(1).s].ext
      BY <1>1, <2>1, <2>5, <3>1, WholeCode
    <3>4. At(1).t \in {"E0", "make", "break", "ack"}
      BY <3>1 DEF Bytes
    <3>5. At(1).t = "E0" <=> ~IsCode(At(1))
      BY <3>2, <3>4 DEF IsCode
    <3>6. At(1).t = "E0" <=> strokes[At(1).s].ext
      BY <3>2, <3>3, <3>5, Zenon
    <3> QED
      BY <3>1, <3>6
  <2> QED
    BY <2>4, <2>5 DEF ReadsWholeCodes
<1> QED
  BY <1>1, KeyInvariant, PTL

-----------------------------------------------------------------------------
(* The keyboards of which the contract is true: among the keys in use, a   *)
(* code belongs to one key (an arrow key and a digit of the pad share      *)
(* theirs), and no prefixed code is torn.  A player who uses the arrows    *)
(* and the space bar on a keyboard that delivers whole codes has one.      *)
Unambiguous ==
    \A m \in Modes : /\ \A j, k \in m.keys : j.c = k.c => j = k
                     /\ m.bytewise => \A k \in m.keys : ~k.ext

LEMMA Tells ==
  ASSUME Unambiguous, KeyIInv
  PROVE  Seeking /\ Waiting /\ Reported
<1>1. mode \in Modes
  BY DEF KeyIInv, Places
<1> QED
  BY <1>1 DEF Unambiguous, KeyIInv, Orderly, Distinct

(* keyboard.c:20-26: get_key returns no press code before that key is up.  *)
(* The condition is needed: the run keyboard_alias shows a key that is     *)
(* returned while it is down, when another one has the same code.          *)
THEOREM Waits == Unambiguous => (Spec => []WaitsForRelease)
<1> SUFFICES ASSUME Unambiguous PROVE Spec => []WaitsForRelease
  OBVIOUS
<1>1. KeyIInv => WaitsForRelease
  BY Tells DEF Reported
<1> QED
  BY <1>1, KeyInvariant, PTL

(* Every step of the keyboard, the typist and get_key is a step of the     *)
(* contract, or none.                                                      *)
LEMMA ReaderStep ==
  ASSUME Unambiguous, KeyIInv, [Next]_vars
  PROVE  [Reader!ReaderNext]_Reader!readerVars
<1> USE DEF Reader!readerVars
<1>0. Count \in Nat /\ Len(strokes) = Count
  BY Sizes DEF KeyIInv, Count
<1>1. CASE Deliver
  BY <1>1 DEF Deliver, typist, reader
<1>2. ASSUME NEW k \in Keys, Press(k) PROVE Reader!ReaderNext
  <2>1. Reader!Begin(k)
    BY <1>2 DEF Press, Reader!Begin, reader
  <2> QED
    BY <2>1 DEF Reader!ReaderNext
<1>3. ASSUME NEW k \in Keys, Repeat(k) PROVE UNCHANGED Reader!readerVars
  BY <1>3 DEF Repeat, typist, reader
<1>4. ASSUME NEW k \in Keys, Release(k) PROVE Reader!ReaderNext
  <2>1. held[k] # 0
    BY <1>4 DEF Release
  <2>2. held[k] \in 1..Len(strokes)
    BY <1>0, <2>1 DEF KeyIInv, Holding
  <2>3. Reader!End(held[k])
    BY <1>4 DEF Release, Reader!End, reader
  <2> QED
    BY <2>2, <2>3 DEF Reader!ReaderNext
<1>5. CASE Call
  BY <1>5 DEF Call, typist
<1>6. CASE ReadPress
  BY <1>6 DEF ReadPress, ReadPort, TakePress, typist
<1>7. CASE ReadPressSecond
  BY <1>7 DEF ReadPressSecond, ReadPort, TakePress, typist
<1>8. CASE ReadRelease \/ ReadReleaseSecond
  <2>1. /\ ReadPort /\ pc \in {"wait", "wait2"} /\ UNCHANGED scancode
        /\ UNCHANGED <<strokes, released>>
    BY <1>8, ReleaseLoop DEF ReadPort, typist
  <2>2. CASE UNCHANGED returned
    BY <2>1, <2>2
  <2>3. CASE /\ Inb.t = "break" /\ Inb.c = scancode.c /\ pc' = "idle"
             /\ returned' = Append(returned,
                   [s |-> scancode.s,
                    key |-> [ext |-> scancode.ext, c |-> scancode.c]])
    <3>1. /\ scancode.s \in released /\ scancode.s \in 1..Count
          /\ scancode.s > LastReported
          /\ strokes[scancode.s] = [ext |-> scancode.ext, c |-> scancode.c]
      <4>1. Distinct
        BY DEF Unambiguous, Distinct, KeyIInv, Places
      <4> QED
        BY <2>1, <2>3, <4>1, Tells, ReleaseTaken
    <3>2. Reader!Report(scancode.s)
      BY <2>1, <2>3, <3>1 DEF Reader!Report, LastReported
    <3> QED
      BY <1>0, <3>1, <3>2 DEF Reader!ReaderNext
  <2> QED
    BY <1>8, <2>2, <2>3, ReleaseLoop
<1>9. CASE UNCHANGED vars
  BY <1>9 DEF vars, typist, reader
<1> QED
  BY <1>1, <1>2, <1>3, <1>4, <1>5, <1>6, <1>7, <1>8, <1>9 DEF Next, GetKey

(* keyboard.c:8-29: get_key implements its contract.  Each return value is *)
(* the key of a stroke that has ended, none is of a stroke that was        *)
(* reported before, and they come in the order in which the strokes began, *)
(* however the typist, the keyboard and the loops interleave and whichever *)
(* codes the buffer loses.                                                 *)
THEOREM Implements == Unambiguous => (Spec => ReaderSpec)
<1> SUFFICES ASSUME Unambiguous PROVE Spec => ReaderSpec
  OBVIOUS
<1>1. Init => Reader!ReaderInit
  BY DEF Init, Reader!ReaderInit
<1>2. KeyIInv /\ [Next]_vars => [Reader!ReaderNext]_Reader!readerVars
  BY ReaderStep
<1> QED
  BY <1>1, <1>2, KeyInvariant, PTL DEF Spec, ReaderSpec, Reader!ReaderSpec
=============================================================================
