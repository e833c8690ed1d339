--------------------------- MODULE LibraryProofs ----------------------------
(***************************************************************************)
(* memset and memmove are exact for every memory, word size, pair of       *)
(* ranges and length.  The drawing functions implement a canvas, for every *)
(* resolution, padding of the rows and size of the buffer that holds them. *)
(* The terminal shows the log's lines, whatever they are and however deep  *)
(* the FIFO is.  The string routines leave and answer what their strings   *)
(* say, for every memory, addresses, counts and c.  vsnprintf keeps to its *)
(* buffer and its format, for every format, arguments and buffer size.     *)
(*                                                                         *)
(* The inductive invariant of the string instructions says which part of   *)
(* the destination has been written, from below or from above, and that    *)
(* the rest of memory is as it was; the direction that memmove chooses     *)
(* keeps what is still to be read out of the written part.                 *)
(*                                                                         *)
(* The bytes of a pixel are inside the buffer (PixelInside), and those of  *)
(* two pixels are apart (PixelsApart): in the same row because a pixel has *)
(* three bytes, in different rows because a row has pitch bytes.           *)
(*                                                                         *)
(* That of the serial port says what init_serial_com has set, what waits   *)
(* in the transmitter, and that the terminal shows what was written less   *)
(* what waits; a full FIFO never meets a write, as the code waits first.   *)
(*                                                                         *)
(* That of the string routines says how far the pointers have come, which  *)
(* bytes have been placed (Changed), compared (Together) or passed over    *)
(* (Missed), and that size has counted the steps.                          *)
(*                                                                         *)
(* That of vsnprintf says that the buffer holds what was put as far as it  *)
(* fits, and that within an escape the escape's '%' has been read.         *)
(***************************************************************************)
EXTENDS MemOps, FrameBuffer, Serial, Strings, PrintFmt, WellFoundedInduction, TLAPS

-----------------------------------------------------------------------------
(* memset and memmove                                                      *)

(* The part of the destination that has been written                       *)
Moving == memPc \in {"rep", "done"}
Written == {a \in Memory :
               /\ Moving
               /\ IF Backward(call) THEN edi + unit <= a /\ a < call.dst + call.n
                                    ELSE call.dst <= a /\ a < edi}

Copied == \A a \in Memory :
             bytes[a] = IF a \notin Written THEN a
                        ELSE IF call.op = "memset" THEN Filler
                        ELSE call.src + a - call.dst

InRegisters ==
    /\ {edi, esi} \subseteq Int /\ ecx \in Nat /\ unit \in Nat \ {0}
    /\ Moving =>
         /\ esi - edi = call.src - call.dst
         /\ IF Backward(call)
            THEN edi + unit - ecx * unit = call.dst /\ edi + unit <= call.dst + call.n
            ELSE edi + ecx * unit = call.dst + call.n /\ edi >= call.dst

IInv == /\ bytes \in [Memory -> Int]
        /\ call \in Calls
        /\ memPc \in {"start", "enter", "rep", "done"}
        /\ df \in BOOLEAN
        /\ df <=> memPc = "rep" /\ Backward(call)
        /\ memPc = "done" => ecx = 0
        /\ InRegisters
        /\ Copied

-----------------------------------------------------------------------------
(* What is left after one repetition                                       *)
LEMMA OneLess ==
  ASSUME NEW c \in Nat, c > 0, NEW u \in Nat \ {0}
  PROVE  (c - 1) * u = c * u - u /\ c * u >= u
<1>1. (c - 1) * u = c * u - u
  BY SMT
<1>2. (c - 1) * u >= 0
  BY SMT
<1>3. c * u \in Int
  BY SMT
<1> QED
  BY <1>1, <1>2, <1>3

(* The repetitions cover the range.                                        *)
LEMMA Whole ==
  ASSUME NEW n \in Nat, NEW u \in Nat \ {0}, n % u = 0
  PROVE  (n \div u) * u = n /\ n \div u \in Nat
BY SMT

(* The fields of a call                                                    *)
LEMMA CallFields ==
  ASSUME NEW c \in Calls
  PROVE  /\ c.op \in {"memset", "memmove"}
         /\ c.dst \in Nat /\ c.src \in Nat /\ c.n \in Nat
         /\ c.dst + c.n <= Top + 1 /\ c.src + c.n <= Top + 1
BY MemAssumption DEF Calls, Memory

(* Before the call                                                         *)
LEMMA InitIInv == MemInit => IInv
<1> SUFFICES ASSUME MemInit PROVE IInv
  OBVIOUS
<1>1. /\ bytes = [a \in Memory |-> a]
      /\ call = [op |-> "memset", dst |-> 0, src |-> 0, n |-> 0]
      /\ edi = 0 /\ esi = 0 /\ ecx = 0 /\ unit = 1
      /\ df = FALSE /\ memPc = "start"
  BY DEF MemInit
<1>2. ~Moving /\ Written = {}
  BY <1>1 DEF Moving, Written
<1>3. bytes \in [Memory -> Int] /\ Copied
  BY <1>1, <1>2, MemAssumption DEF Copied, Memory
<1>4. call \in Calls
  BY <1>1, MemAssumption DEF Calls, Memory
<1>5. InRegisters
  BY <1>1, <1>2 DEF InRegisters
<1> QED
  BY <1>1, <1>3, <1>4, <1>5 DEF IInv

(* The registers are set up for a whole number of repetitions.             *)
LEMMA EnterIInv == IInv /\ Enter => IInv'
<1> SUFFICES ASSUME IInv, Enter PROVE IInv'
  OBVIOUS
<1> DEFINE width == IF Aligned(call) THEN Word ELSE 1
           last == IF Backward(call) THEN call.n - width ELSE 0
<1>1. /\ memPc = "enter" /\ memPc' = "rep"
      /\ unit' = width
      /\ edi' = call.dst + last
      /\ esi' = call.src + last
      /\ ecx' = call.n \div width
      /\ df' = Backward(call)
      /\ UNCHANGED <<bytes, call>>
  BY DEF Enter
<1>2. /\ call \in Calls
      /\ call.dst \in Nat /\ call.src \in Nat /\ call.n \in Nat
  BY CallFields DEF IInv
<1>3. width \in Nat \ {0} /\ call.n % width = 0
  BY <1>2, MemAssumption DEF Aligned
<1>4. (call.n \div width) * width = call.n /\ call.n \div width \in Nat
  BY <1>2, <1>3, Whole
<1> HIDE DEF width
<1>5. Backward(call)' = Backward(call)
  BY <1>1 DEF Backward
<1>6. InRegisters'
  BY <1>1, <1>2, <1>3, <1>4, <1>5 DEF InRegisters, Moving
<1>7. Written = {} /\ Written' = {}
  <2>1. Written = {}
    BY <1>1 DEF Moving, Written
  <2>2. CASE Backward(call)
    <3>1. edi' + unit' = call.dst + call.n
      BY <1>1, <1>2, <1>3, <2>2
    <3>2. \A a \in Memory : ~(edi' + unit' <= a /\ a < call.dst + call.n)
      BY <1>2, <3>1, MemAssumption DEF Memory
    <3> QED
      BY <1>1, <1>5, <2>1, <2>2, <3>2 DEF Written
  <2>3. CASE ~Backward(call)
    <3>1. edi' = call.dst
      BY <1>1, <1>2, <2>3
    <3>2. \A a \in Memory : ~(call.dst <= a /\ a < edi')
      BY <1>2, <3>1, MemAssumption DEF Memory
    <3> QED
      BY <1>1, <1>5, <2>1, <2>3, <3>2 DEF Written
  <2> QED
    BY <2>1, <2>2, <2>3
<1>8. Copied'
  BY <1>1, <1>7 DEF IInv, Copied
<1>9. df' \in BOOLEAN /\ (df' <=> Backward(call)')
  BY <1>1, <1>5, Zenon DEF Backward
<1> QED
  BY <1>1, <1>6, <1>8, <1>9 DEF IInv

(* One repetition reads unwritten bytes only.                              *)
LEMMA RepetitionIInv == IInv /\ Repetition => IInv'
<1> SUFFICES ASSUME IInv, Repetition PROVE IInv'
  OBVIOUS
<1> DEFINE left == ecx * unit
           s == call.src
           d == call.dst
           n == call.n
<1>1. /\ memPc = "rep" /\ ecx > 0
      /\ bytes' = [a \in Memory |-> IF a \in edi..(edi + unit - 1) THEN Content(a)
                                                                   ELSE bytes[a]]
      /\ edi' = IF df THEN edi - unit ELSE edi + unit
      /\ esi' = IF df THEN esi - unit ELSE esi + unit
      /\ ecx' = ecx - 1
      /\ UNCHANGED <<call, unit, df, memPc>>
  BY DEF Repetition
<1>2. /\ edi \in Int /\ esi \in Int /\ ecx \in Nat /\ unit \in Nat \ {0}
      /\ esi - edi = s - d
      /\ df <=> Backward(call)
  BY <1>1 DEF IInv, InRegisters, Moving
<1>3. /\ s \in Nat /\ d \in Nat /\ n \in Nat
      /\ d + n <= Top + 1 /\ s + n <= Top + 1
  BY CallFields DEF IInv
<1>4. /\ left \in Int /\ left >= unit
      /\ ecx' * unit' = left - unit
  BY <1>1, <1>2, OneLess, SMT
<1>5. IF df THEN edi + unit - left = d /\ edi + unit <= d + n
            ELSE edi + left = d + n /\ edi >= d
  BY <1>1, <1>2 DEF IInv, InRegisters, Moving
<1>6. Backward(call)' = Backward(call)
  BY <1>1 DEF Backward
<1>7. InRegisters'
  <2>1. /\ edi' \in Int /\ esi' \in Int /\ ecx' \in Nat
        /\ esi' - edi' = s - d
    BY <1>1, <1>2, <1>3
  <2>2. CASE df
    <3>1. edi' + unit - (left - unit) = d /\ edi' + unit <= d + n
      <4> HIDE DEF left, s, d, n
      <4> QED
        BY <1>1, <1>2, <1>3, <1>4, <1>5, <2>2
    <3> QED
      BY <1>1, <1>2, <1>4, <1>6, <2>1, <2>2, <3>1 DEF InRegisters, Moving
  <2>3. CASE ~df
    <3>1. edi' + (left - unit) = d + n /\ edi' >= d
      <4> HIDE DEF left, s, d, n
      <4> QED
        BY <1>1, <1>2, <1>3, <1>4, <1>5, <2>3
    <3> QED
      BY <1>1, <1>2, <1>4, <1>6, <2>1, <2>3, <3>1 DEF InRegisters, Moving
  <2> QED
    BY <2>2, <2>3, <1>2
<1> HIDE DEF left
<1>8. edi >= d /\ edi + unit <= d + n
  BY <1>2, <1>3, <1>4, <1>5
<1>9. \A a \in Memory : a \in Written' <=> a \in Written \/ a \in edi..(edi + unit - 1)
  <2>1. CASE df
    BY <1>1, <1>2, <1>3, <1>6, <1>8, <2>1, MemAssumption DEF Moving, Written, Memory
  <2>2. CASE ~df
    BY <1>1, <1>2, <1>3, <1>6, <1>8, <2>2, MemAssumption DEF Moving, Written, Memory
  <2> QED
    BY <2>1, <2>2
<1>10. ASSUME NEW a \in Memory, a \in edi..(edi + unit - 1), call.op = "memmove"
       PROVE  bytes[esi + a - edi] = s + a - d
  <2>1. esi + a - edi = s + a - d /\ s + a - d \in Memory
    <3>1. a \in Int /\ d <= a /\ a < d + n
      BY <1>2, <1>3, <1>8, <1>10, MemAssumption DEF Memory
    <3> HIDE DEF s, d, n
    <3> QED
      BY <1>2, <1>3, <3>1, MemAssumption DEF Memory
  <2>2. s + a - d \notin Written
    <3>1. CASE df
      <4>1. s < d
        BY <1>2, <3>1 DEF Backward
      <4> QED
        BY <1>1, <1>2, <1>3, <1>10, <2>1, <3>1, <4>1 DEF Moving, Written, Memory
    <3>2. CASE ~df
      <4>1. s >= d \/ s + n <= d
        <5>1. ~(call.op = "memmove" /\ s < d /\ s + n > d)
          BY <1>2, <3>2 DEF Backward
        <5> QED
          BY <1>3, <1>10, <5>1
      <4> QED
        BY <1>1, <1>2, <1>3, <1>8, <1>10, <2>1, <3>2, <4>1 DEF Moving, Written, Memory
    <3> QED
      BY <3>1, <3>2
  <2> QED
    BY <2>1, <2>2 DEF IInv, Copied
<1>11. ASSUME NEW a \in Memory
       PROVE  /\ bytes'[a] \in Int
              /\ bytes'[a] = IF a \notin Written' THEN a
                             ELSE IF call.op = "memset" THEN Filler ELSE s + a - d
  <2>1. CASE a \in edi..(edi + unit - 1)
    <3>1. bytes'[a] = Content(a) /\ a \in Written'
      BY <1>1, <1>9, <2>1
    <3> QED
      BY <1>3, <1>10, <2>1, <3>1, CallFields, MemAssumption
         DEF Content, IInv, Filler, Memory
  <2>2. CASE a \notin edi..(edi + unit - 1)
    <3>1. bytes'[a] = bytes[a] /\ (a \in Written' <=> a \in Written)
      BY <1>1, <1>9, <2>2
    <3> QED
      BY <3>1 DEF IInv, Copied
  <2> QED
    BY <2>1, <2>2
<1>12. Copied' /\ bytes' \in [Memory -> Int]
  BY <1>1, <1>11 DEF Copied
<1> QED
  BY <1>1, <1>6, <1>7, <1>12 DEF IInv

(* Every step keeps the invariant.                                         *)
LEMMA NextIInv == IInv /\ [MemNext]_moving => IInv'
<1> SUFFICES ASSUME IInv, [MemNext]_moving PROVE IInv'
  OBVIOUS
<1>1. CASE MemCall
  <2>1. /\ memPc = "start" /\ memPc' = "enter" /\ call' \in Calls
        /\ UNCHANGED <<bytes, edi, esi, ecx, unit, df>>
    BY <1>1 DEF MemCall
  <2>2. Written = {} /\ Written' = {}
    BY <2>1 DEF Moving, Written
  <2> QED
    BY <2>1, <2>2 DEF IInv, InRegisters, Moving, Copied
<1>2. CASE Enter
  BY <1>2, EnterIInv
<1>3. CASE Repetition
  BY <1>3, RepetitionIInv
<1>4. CASE Leave
  <2>1. /\ memPc = "rep" /\ ecx = 0 /\ df' = FALSE /\ memPc' = "done"
        /\ UNCHANGED <<bytes, call, edi, esi, ecx, unit>>
    BY <1>4 DEF Leave
  <2>2. Backward(call)' = Backward(call)
    BY <2>1 DEF Backward
  <2>3. Written' = Written
    BY <2>1, <2>2 DEF Moving, Written
  <2> QED
    BY <2>1, <2>2, <2>3 DEF IInv, InRegisters, Moving, Copied
<1>5. CASE UNCHANGED moving
  <2>1. Backward(call)' = Backward(call)
    BY <1>5 DEF moving, Backward
  <2>2. Written' = Written
    BY <1>5, <2>1 DEF moving, Moving, Written
  <2> QED
    BY <1>5, <2>1, <2>2 DEF moving, IInv, InRegisters, Moving, Copied
<1> QED
  BY <1>1, <1>2, <1>3, <1>4, <1>5 DEF MemNext

-----------------------------------------------------------------------------
(* The inductive invariant                                                 *)
THEOREM MemInvariant == MemSpec => []IInv
BY InitIInv, NextIInv, PTL DEF MemSpec

(* memmove copies, and memset fills, exactly the destination, however the  *)
(* two ranges overlap, and leaves the direction flag clear.                *)
THEOREM Exact == MemSpec => []MoveExact
<1>1. IInv => MoveExact
  <2> SUFFICES ASSUME IInv PROVE MoveExact
    OBVIOUS
  <2> DEFINE range == call.dst..(call.dst + call.n - 1)
  <2>1. /\ call.dst \in Nat /\ call.n \in Nat /\ call.src \in Nat
        /\ call.dst + call.n <= Top + 1
    BY CallFields DEF IInv
  <2>2. edi \in Int /\ unit \in Nat \ {0}
    BY DEF IInv, InRegisters, Moving
  <2>3. \A a \in Memory : a \in Written => a \in range
    <3>1. CASE ~Moving
      BY <3>1 DEF Moving, Written
    <3>2. CASE Moving
      <4>1. /\ ecx \in Nat
            /\ IF Backward(call)
               THEN edi + unit - ecx * unit = call.dst
               ELSE edi + ecx * unit = call.dst + call.n
        BY <3>2 DEF IInv, InRegisters, Moving
      <4>2. ecx * unit \in Int /\ ecx * unit >= 0
        BY <2>2, <4>1, SMT
      <4> DEFINE left == ecx * unit
      <4> HIDE DEF left
      <4>3. CASE Backward(call)
        <5>1. edi + unit - left = call.dst /\ left \in Int /\ left >= 0
          BY <4>1, <4>2, <4>3 DEF left
        <5> QED
          BY <2>1, <2>2, <3>2, <4>3, <5>1, MemAssumption DEF Moving, Written, Memory
      <4>4. CASE ~Backward(call)
        <5>1. edi + left = call.dst + call.n /\ left \in Int /\ left >= 0
          BY <4>1, <4>2, <4>4 DEF left
        <5> QED
          BY <2>1, <2>2, <3>2, <4>4, <5>1, MemAssumption DEF Moving, Written, Memory
      <4> QED
        BY <4>3, <4>4
    <3> QED
      BY <3>1, <3>2
  <2>4. ASSUME memPc = "done" PROVE \A a \in range : a \in Memory /\ a \in Written
    <3>1. /\ ecx = 0 /\ ecx * unit = 0
          /\ IF Backward(call) THEN edi + unit - ecx * unit = call.dst
                               ELSE edi + ecx * unit = call.dst + call.n
      BY <2>2, <2>4 DEF IInv, InRegisters, Moving
    <3>2. IF Backward(call) THEN edi + unit = call.dst ELSE edi = call.dst + call.n
      BY <2>1, <2>2, <3>1
    <3> QED
      BY <2>1, <2>2, <2>4, <3>2, MemAssumption DEF Moving, Written, Memory
  <2>5. \A a \in Memory \ range : bytes[a] = a
    BY <2>3 DEF IInv, Copied
  <2>6. ASSUME memPc = "done"
        PROVE  /\ \A a \in range : bytes[a] = IF call.op = "memset" THEN Filler
                                              ELSE call.src + a - call.dst
               /\ ~df
    BY <2>4, <2>6 DEF IInv, Copied
  <2> QED
    BY <2>5, <2>6 DEF MoveExact
<1> QED
  BY <1>1, MemInvariant, PTL

-----------------------------------------------------------------------------
(* The drawing functions                                                   *)

(* What the lemmas use of the mode.                                        *)
LEMMA Geometry == /\ Xres \in Nat /\ Yres \in Nat /\ pitch \in Nat /\ BufSize \in Nat
                  /\ pitch >= 3 * Xres
BY FrameBufferAssumption

(* Rows keep their order in memory.                                        *)
LEMMA RowsAscend ==
  ASSUME NEW i \in Nat, NEW j \in Nat, i < j, NEW w \in Nat
  PROVE  i * w \in Nat /\ j * w \in Nat /\ i * w + w <= j * w
<1>1. PICK d \in Nat : j = i + 1 + d
  <2> DEFINE e == j - i - 1
  <2>1. e \in Nat /\ j = i + 1 + e
    BY SMT
  <2> QED
    BY <2>1
<1>2. j * w = i * w + w + d * w
  BY <1>1, SMT
<1>3. i * w \in Nat /\ d * w \in Nat
  BY SMT
<1> QED
  BY <1>2, <1>3, SMT

(* The first byte of a pixel, a number.                                    *)
LEMMA PixelNat ==
  ASSUME NEW p \in ScreenPixels
  PROVE  /\ p[1] \in Nat /\ p[1] < Xres /\ p[2] \in Nat /\ p[2] < Yres
         /\ p[2] * pitch \in Nat
         /\ pixel(p[1], p[2]) = p[2] * pitch + 3 * p[1]
<1>1. p[1] \in Nat /\ p[1] < Xres /\ p[2] \in Nat /\ p[2] < Yres
  BY FrameBufferAssumption, SMT DEF ScreenPixels
<1>2. pitch \in Nat
  BY FrameBufferAssumption
<1>3. p[2] * pitch \in Nat
  BY <1>1, <1>2, SMT
<1> QED
  BY <1>1, <1>3, SMT DEF pixel

(* draw_pixel's clipping keeps a pixel's bytes inside the buffer.          *)
LEMMA PixelInside ==
  ASSUME NEW p \in ScreenPixels
  PROVE  /\ pixel(p[1], p[2]) \in BufferBytes
         /\ pixel(p[1], p[2]) + 1 \in BufferBytes
         /\ pixel(p[1], p[2]) + 2 \in BufferBytes
<1>1. p[2] * pitch + pitch <= Yres * pitch
  BY PixelNat, RowsAscend, FrameBufferAssumption
<1> DEFINE row == p[2] * pitch
           all == Yres * pitch
<1>2. row \in Nat /\ all <= BufSize /\ row + pitch <= all /\ all \in Int
  <2>1. all \in Int
    BY FrameBufferAssumption, SMT
  <2> QED
    BY <1>1, <2>1, PixelNat, FrameBufferAssumption
<1>3. pixel(p[1], p[2]) = row + 3 * p[1]
  BY PixelNat
<1> HIDE DEF row, all
<1> QED
  BY <1>2, <1>3, PixelNat, FrameBufferAssumption, SMT DEF BufferBytes

(* Two pixels at columns i and j of rows that begin at m and n.            *)
LEMMA Apart ==
  ASSUME NEW m \in Nat, NEW n \in Nat, NEW i \in Nat, NEW j \in Nat,
         NEW w \in Nat, NEW x \in Nat, w >= 3 * x, i < x, j < x,
         m + w <= n \/ n + w <= m \/ (m = n /\ i # j)
  PROVE  m + 3 * i + 3 <= n + 3 * j \/ n + 3 * j + 3 <= m + 3 * i
BY SMT

(* Two pixels of the screen share no byte.                                 *)
LEMMA PixelsApart ==
  ASSUME NEW p \in ScreenPixels, NEW q \in ScreenPixels, p # q
  PROVE  \/ pixel(p[1], p[2]) + 3 <= pixel(q[1], q[2])
         \/ pixel(q[1], q[2]) + 3 <= pixel(p[1], p[2])
<1> DEFINE P == p[2] * pitch
           Q == q[2] * pitch
<1>1. /\ P \in Nat /\ pixel(p[1], p[2]) = P + 3 * p[1]
      /\ Q \in Nat /\ pixel(q[1], q[2]) = Q + 3 * q[1]
  BY PixelNat
<1>2. /\ p[1] \in Nat /\ p[1] < Xres /\ p[2] \in Nat
      /\ q[1] \in Nat /\ q[1] < Xres /\ q[2] \in Nat
  BY PixelNat
<1>3. p[1] # q[1] \/ p[2] # q[2]
  BY SMT DEF ScreenPixels
<1>4. /\ p[2] < q[2] => P + pitch <= Q
      /\ q[2] < p[2] => Q + pitch <= P
      /\ p[2] = q[2] => P = Q
  BY <1>2, RowsAscend, FrameBufferAssumption
<1>5. P + pitch <= Q \/ Q + pitch <= P \/ (P = Q /\ p[1] # q[1])
  BY <1>2, <1>3, <1>4, SMT
<1> HIDE DEF P, Q
<1>6. \/ P + 3 * p[1] + 3 <= Q + 3 * q[1]
      \/ Q + 3 * q[1] + 3 <= P + 3 * p[1]
  BY <1>1, <1>2, <1>5, Geometry, Apart
<1> QED
  BY <1>1, <1>6

-----------------------------------------------------------------------------
(* The kernel's copy and the video memory are bytes.                       *)
BufferOK == /\ vmem_buffer \in [BufferBytes -> Octets]
            /\ vmem \in [BufferBytes -> Octets]

(* What the adapter finds is a colour.                                     *)
LEMMA ColourAt ==
  ASSUME NEW store \in [BufferBytes -> Octets], NEW p \in ScreenPixels
  PROVE  At(store, p) \in Octets \X Octets \X Octets
<1> DEFINE a == p[2] * pitch + p[1] * 3
<1>1. a \in BufferBytes /\ a + 1 \in BufferBytes /\ a + 2 \in BufferBytes
  BY PixelInside DEF pixel
<1>2. store[a] \in Octets /\ store[a + 1] \in Octets /\ store[a + 2] \in Octets
  BY <1>1
<1> HIDE DEF a
<1> QED
  BY <1>2 DEF At, a

(* Writing the bytes of one pixel changes what the adapter finds for that  *)
(* pixel only.                                                             *)
LEMMA OthersKept ==
  ASSUME NEW store \in [BufferBytes -> Octets], NEW p \in ScreenPixels,
         NEW q \in ScreenPixels, q # p,
         NEW written,
         \A c \in BufferBytes : \/ written[c] = store[c]
                                \/ c = pixel(p[1], p[2])
                                \/ c = pixel(p[1], p[2]) + 1
                                \/ c = pixel(p[1], p[2]) + 2
  PROVE  At(written, q) = At(store, q)
<1> DEFINE a == pixel(p[1], p[2])
           c == pixel(q[1], q[2])
<1>0. \A x \in BufferBytes : written[x] = store[x] \/ x = a \/ x = a + 1 \/ x = a + 2
  OBVIOUS
<1>1. a + 3 <= c \/ c + 3 <= a
  BY PixelsApart
<1>2. /\ a \in BufferBytes /\ a + 1 \in BufferBytes /\ a + 2 \in BufferBytes
      /\ c \in BufferBytes /\ c + 1 \in BufferBytes /\ c + 2 \in BufferBytes
  BY PixelInside
<1>3. c = q[2] * pitch + q[1] * 3
  BY DEF pixel
<1> HIDE DEF a, c
<1>4. BufferBytes \subseteq Int
  BY FrameBufferAssumption, SMT DEF BufferBytes
<1>5. \A x \in {c, c + 1, c + 2} : x # a /\ x # a + 1 /\ x # a + 2
  BY <1>1, <1>2, <1>4, SMT
<1>6. /\ written[c] = store[c]
      /\ written[c + 1] = store[c + 1]
      /\ written[c + 2] = store[c + 2]
  BY <1>0, <1>2, <1>5
<1> QED
  BY <1>3, <1>6, SMT DEF At, a

LEMMA InitBuffer == FrameBufferInit => BufferOK
BY FrameBufferAssumption DEF FrameBufferInit, BufferOK

(* draw_pixel takes apart what get_color has put together.                 *)
LEMMA BytesApart ==
  ASSUME NEW blue \in Octets, NEW g \in Octets, NEW r \in Octets, NEW color,
         color = blue * 65536 + g * 256 + r
  PROVE  /\ (color \div 65536) % 256 = blue
         /\ (color \div 256) % 256 = g
         /\ color % 256 = r
BY SMT DEF Octets

LEMMA Drawn ==
  ASSUME NEW p \in Points, NEW bgr \in Colors, Draw(p, bgr)
  PROVE  /\ bgr = <<bgr[1], bgr[2], bgr[3]>>
         /\ bgr[1] \in Octets /\ bgr[2] \in Octets /\ bgr[3] \in Octets
         /\ draw_pixel_bgr(p[1], p[2], bgr[1], bgr[2], bgr[3])
<1>1. /\ bgr = <<bgr[1], bgr[2], bgr[3]>>
      /\ bgr[1] \in Octets /\ bgr[2] \in Octets /\ bgr[3] \in Octets
  BY FrameBufferAssumption
<1> DEFINE color == bgr[1] * 65536 + bgr[2] * 256 + bgr[3]
<1>2. draw_pixel(p[1], p[2], color)
  BY DEF Draw, get_color
<1>3. /\ (color \div 65536) % 256 = bgr[1]
      /\ (color \div 256) % 256 = bgr[2]
      /\ color % 256 = bgr[3]
  BY <1>1, BytesApart
<1>4. draw_pixel_bgr(p[1], p[2], (color \div 65536) % 256, (color \div 256) % 256, color % 256)
  BY <1>2 DEF draw_pixel
<1> HIDE DEF color
<1> QED
  BY <1>1, <1>3, <1>4

LEMMA NextBuffer == BufferOK /\ [DrawNext]_drawing => BufferOK'
<1> SUFFICES ASSUME BufferOK, [DrawNext]_drawing PROVE BufferOK'
  OBVIOUS
<1>1. CASE init_video_buffer
  <2>1. 0 \in Octets
    BY SMT DEF Octets
  <2> QED
    BY <1>1, <2>1 DEF init_video_buffer, BufferOK
<1>2. CASE update_screen
  BY <1>2 DEF update_screen, BufferOK
<1>3. ASSUME NEW p \in Points, NEW bgr \in Colors, Draw(p, bgr)
      PROVE  BufferOK'
  <2>1. PICK blue \in Octets, g \in Octets, r \in Octets :
           draw_pixel_bgr(p[1], p[2], blue, g, r)
    BY <1>3, Drawn
  <2> QED
    BY <2>1 DEF draw_pixel_bgr, BufferOK
<1>4. CASE UNCHANGED drawing
  BY <1>4 DEF drawing, BufferOK
<1> QED
  BY <1>1, <1>2, <1>3, <1>4 DEF DrawNext

-----------------------------------------------------------------------------
(* The initial bytes are a canvas and a screen.                            *)
LEMMA RefinesInit == FrameBufferInit => Screen!CanvasInit
<1> SUFFICES ASSUME FrameBufferInit PROVE Screen!CanvasInit
  OBVIOUS
<1>1. BufferOK /\ request = [op |-> "none"]
  BY InitBuffer DEF FrameBufferInit
<1> QED
  BY <1>1, ColourAt DEF Screen!CanvasInit, BufferOK

(* Every drawing operation is one of the canvas or changes nothing.        *)
LEMMA RefinesNext ==
  BufferOK /\ BufferOK' /\ [DrawNext]_drawing
  => [Screen!CanvasNext]_<<[p \in ScreenPixels |-> At(vmem_buffer, p)],
                           [p \in ScreenPixels |-> At(vmem, p)], request>>
<1> DEFINE canvas == [p \in ScreenPixels |-> At(vmem_buffer, p)]
           screen == [p \in ScreenPixels |-> At(vmem, p)]
<1> SUFFICES ASSUME BufferOK, BufferOK', [DrawNext]_drawing
             PROVE  Screen!CanvasNext \/ UNCHANGED <<canvas, screen, request>>
  OBVIOUS
<1>1. CASE init_video_buffer /\ request' = [op |-> "black"]
  <2>1. ASSUME NEW p \in ScreenPixels PROVE At(vmem_buffer', p) = <<0, 0, 0>>
    BY <1>1, PixelInside, SMT DEF init_video_buffer, At, pixel
  <2>2. Screen!Blacken
    BY <1>1, <2>1 DEF Screen!Blacken, init_video_buffer
  <2> QED
    BY <2>2 DEF Screen!CanvasNext
<1>2. CASE update_screen /\ request' = [op |-> "update"]
  BY <1>2 DEF update_screen, Screen!CanvasNext, Screen!Update
<1>3. ASSUME NEW p \in Points, NEW bgr \in Colors, Draw(p, bgr)
      PROVE  Screen!CanvasNext
  <2>1. /\ draw_pixel_bgr(p[1], p[2], bgr[1], bgr[2], bgr[3])
        /\ bgr = <<bgr[1], bgr[2], bgr[3]>>
        /\ bgr[1] \in Octets /\ bgr[2] \in Octets /\ bgr[3] \in Octets
    BY <1>3, Drawn
  <2>2. /\ request' = [op |-> "draw", point |-> p, colour |-> bgr]
        /\ vmem' = vmem
    BY <1>3, <2>1 DEF Draw, draw_pixel_bgr
  <2>3. p[1] \in Int /\ p[2] \in Int /\ p = <<p[1], p[2]>>
    BY FrameBufferAssumption
  <2>4. OnScreen(p[1], p[2]) <=> p \in ScreenPixels
    BY <2>3, FrameBufferAssumption, SMT DEF OnScreen, ScreenPixels
  <2>5. CASE p \notin ScreenPixels
    <3>1. vmem_buffer' = vmem_buffer
      BY <2>1, <2>4, <2>5 DEF draw_pixel_bgr
    <3> QED
      BY <2>2, <2>5, <3>1 DEF Screen!CanvasNext, Screen!Paint
  <2>6. CASE p \in ScreenPixels
    <3> DEFINE a == pixel(p[1], p[2])
    <3>1. vmem_buffer' = [vmem_buffer EXCEPT ![a] = bgr[1], ![a + 1] = bgr[2], ![a + 2] = bgr[3]]
      BY <2>1, <2>4, <2>6 DEF draw_pixel_bgr
    <3>2. vmem_buffer \in [BufferBytes -> Octets]
      BY DEF BufferOK
    <3>3. a \in BufferBytes /\ a + 1 \in BufferBytes /\ a + 2 \in BufferBytes /\ a \in Int
      BY <2>6, PixelInside, PixelNat
    <3>4. a = p[2] * pitch + p[1] * 3
      BY DEF pixel
    <3> HIDE DEF a
    <3>5. At(vmem_buffer', p) = bgr
      <4>1. /\ (vmem_buffer')[a] = bgr[1]
            /\ (vmem_buffer')[a + 1] = bgr[2]
            /\ (vmem_buffer')[a + 2] = bgr[3]
        BY <3>1, <3>2, <3>3
      <4> QED
        BY <2>1, <3>4, <4>1 DEF At
    <3>6. ASSUME NEW q \in ScreenPixels, q # p
          PROVE  At(vmem_buffer', q) = At(vmem_buffer, q)
      <4>1. \A c \in BufferBytes : \/ (vmem_buffer')[c] = vmem_buffer[c]
                                   \/ c = a \/ c = a + 1 \/ c = a + 2
        BY <3>1, <3>2
      <4> QED
        BY <2>6, <3>2, <3>6, <4>1, OthersKept DEF a
    <3>7. canvas' = [canvas EXCEPT ![p] = bgr]
      BY <2>6, <3>5, <3>6
    <3> QED
      BY <2>2, <2>6, <3>7 DEF Screen!CanvasNext, Screen!Paint
  <2> QED
    BY <2>5, <2>6
<1>4. CASE UNCHANGED drawing
  BY <1>4 DEF drawing
<1> QED
  BY <1>1, <1>2, <1>3, <1>4 DEF DrawNext

(* kernel/video.c: for every mode whose rows fit into vmem_buffer, a pixel *)
(* that is drawn gets the colour of the picture's pixel it was drawn from, *)
(* no other pixel changes, one off the screen changes nothing, and the     *)
(* next update shows it.                                                   *)
THEOREM Shown == DrawSpec => CanvasSpec
<1>1. FrameBufferInit => BufferOK /\ Screen!CanvasInit
  BY InitBuffer, RefinesInit
<1>2. BufferOK /\ [DrawNext]_drawing => BufferOK'
  BY NextBuffer
<1>3. BufferOK /\ BufferOK' /\ [DrawNext]_drawing
      => [Screen!CanvasNext]_<<[p \in ScreenPixels |-> At(vmem_buffer, p)],
                               [p \in ScreenPixels |-> At(vmem, p)], request>>
  BY RefinesNext
<1> QED
  BY <1>1, <1>2, <1>3, PTL DEF DrawSpec, CanvasSpec, Screen!CanvasSpec

-----------------------------------------------------------------------------
(* The serial port: the terminal shows the log                             *)

(* A character of a line *)
Letter == STRING \ {Stale}

(* What the transmitter may hold, and the states of the UART *)
Fifos == Seq(Letter \cup {Stale})

Uart == [dlab : BOOLEAN, divisor : Nat \X Nat, format : Nat, ier : Nat, deep : BOOLEAN,
         fifo : Fifos]

(* How far init_serial_com has come with the UART *)
Latched == /\ done \in 2..4 => uart.dlab
           /\ done >= 5 => ~uart.dlab
           /\ done >= 3 => uart.divisor[1] = Divisor[1]
           /\ done >= 4 => uart.divisor[2] = Divisor[2]
           /\ done >= 5 => uart.format = EightN1
           /\ done >= 6 => uart.deep

(* What is in the transmitter: the BIOS's character, until the FIFO is    *)
(* cleared, then at most the last character written.                       *)
Waiting == /\ done <= 5 => uart.fifo \in {<<>>, <<Stale>>}
           /\ done \in 6..7 /\ count = 0 => uart.fifo = <<>>
           /\ count >= 1 => uart.fifo \in {<<>>, <<text[count]>>}

(* The terminal shows what has been written and is not waiting. *)
Prefix == /\ count = 0 => shown = <<>>
          /\ count >= 1 => /\ Len(shown) = count - Len(uart.fifo)
                           /\ \A i \in 1..Len(shown) : shown[i] = text[i]

SerialIInv == /\ text \in Seq(Letter)
              /\ done \in 0..7
              /\ count \in 0..Len(text)
              /\ count >= 1 => done = 7
              /\ uart \in Uart
              /\ shown \in Seq(Letter)
              /\ Latched
              /\ Waiting
              /\ Prefix

(* The seven registers *)
LEMMA Seven ==
  /\ Len(Registers) = 7
  /\ Registers[1] = <<1, 0>> /\ Registers[2] = <<3, 128>> /\ Registers[3] = <<0, 3>>
  /\ Registers[4] = <<1, 0>> /\ Registers[5] = <<3, 3>> /\ Registers[6] = <<2, 199>>
  /\ Registers[7] = <<4, 11>>
BY DEF Registers

(* Before init_serial_com, in any state that the BIOS leaves               *)
LEMMA SerialStart == SerialInit => SerialIInv
<1> SUFFICES ASSUME SerialInit PROVE SerialIInv
  OBVIOUS
<1>1. text \in Seq(Letter) /\ Len(text) \in Nat
  BY SerialAssumption DEF SerialInit, Letter
<1>2. PICK dlab \in BOOLEAN, fifo \in {<<>>, <<Stale>>} :
        uart = [dlab |-> dlab, divisor |-> <<1, 0>>, format |-> 0,
                ier |-> 15, deep |-> FALSE, fifo |-> fifo]
  BY DEF SerialInit
<1>3. fifo \in Seq(Letter \cup {Stale})
  <2>1. Stale \in Letter \cup {Stale}
    OBVIOUS
  <2> HIDE DEF Letter
  <2>2. <<>> \in Seq(Letter \cup {Stale}) /\ <<Stale>> \in Seq(Letter \cup {Stale})
    BY <2>1
  <2> QED
    BY <2>2
<1>4. done = 0 /\ count = 0 /\ shown = <<>>
  BY DEF SerialInit
<1>5. uart \in Uart
  <2>1. <<1, 0>> \in Nat \X Nat
    OBVIOUS
  <2> QED
    BY <1>2, <1>3, <2>1 DEF Uart, Fifos
<1>6. uart.fifo \in {<<>>, <<Stale>>}
  BY <1>2
<1> QED
  BY <1>1, <1>4, <1>5, <1>6 DEF SerialIInv, Latched, Waiting, Prefix

(* One of the two bytes of the divisor is replaced. *)
LEMMA HalfSet ==
  ASSUME NEW u \in Uart, NEW v \in Nat, NEW k \in {1, 2}, NEW w,
         w = [u EXCEPT !.divisor[k] = v]
  PROVE  /\ w \in Uart
         /\ w.divisor[k] = v /\ w.divisor[3 - k] = u.divisor[3 - k]
         /\ w.dlab = u.dlab /\ w.format = u.format /\ w.deep = u.deep /\ w.fifo = u.fifo
<1>1. PICK lo \in Nat, hi \in Nat : u.divisor = <<lo, hi>>
  BY DEF Uart
<1> DEFINE d == [u.divisor EXCEPT ![k] = v]
<1>2. d \in Nat \X Nat /\ d[k] = v /\ d[3 - k] = u.divisor[3 - k]
  <2>1. CASE k = 1
    <3>1. d = <<v, hi>>
      BY <1>1, <2>1
    <3> QED
      BY <1>1, <2>1, <3>1
  <2>2. CASE k = 2
    <3>1. d = <<lo, v>>
      BY <1>1, <2>2
    <3> QED
      BY <1>1, <2>2, <3>1
  <2> QED
    BY <2>1, <2>2
<1>3. w = [u EXCEPT !.divisor = d]
  OBVIOUS
<1> HIDE DEF d
<1>4. /\ w \in Uart /\ w.divisor = d
      /\ w.dlab = u.dlab /\ w.format = u.format /\ w.deep = u.deep /\ w.fifo = u.fifo
  BY <1>2, <1>3 DEF Uart
<1> QED
  BY <1>2, <1>3, <1>4

(* The same for other fields *)
LEMMA LineControlSet ==
  ASSUME NEW u \in Uart, NEW x \in BOOLEAN, NEW v \in Nat, NEW w,
         w = [u EXCEPT !.dlab = x, !.format = v]
  PROVE  /\ w \in Uart /\ w.dlab = x /\ w.format = v
         /\ w.divisor = u.divisor /\ w.deep = u.deep /\ w.fifo = u.fifo
BY DEF Uart

LEMMA FifoControlSet ==
  ASSUME NEW u \in Uart, NEW x \in BOOLEAN, NEW q \in Fifos, NEW w,
         w = [u EXCEPT !.deep = x, !.fifo = q]
  PROVE  /\ w \in Uart /\ w.deep = x /\ w.fifo = q
         /\ w.dlab = u.dlab /\ w.divisor = u.divisor /\ w.format = u.format
BY DEF Uart

LEMMA FifoSet ==
  ASSUME NEW u \in Uart, NEW q \in Fifos, NEW w, w = [u EXCEPT !.fifo = q]
  PROVE  /\ w \in Uart /\ w.fifo = q /\ w.dlab = u.dlab
         /\ w.divisor = u.divisor /\ w.format = u.format /\ w.deep = u.deep
BY DEF Uart

LEMMA InterruptSet ==
  ASSUME NEW u \in Uart, NEW v \in Nat, NEW w, w = [u EXCEPT !.ier = v]
  PROVE  /\ w \in Uart /\ w.dlab = u.dlab
         /\ w.divisor = u.divisor /\ w.format = u.format /\ w.deep = u.deep /\ w.fifo = u.fifo
BY DEF Uart

(* What a write of init_serial_com does to the UART *)
LEMMA RegisterWritten ==
  ASSUME SerialIInv, init_serial
  PROVE  /\ done \in 0..6 /\ done' = done + 1 /\ UNCHANGED <<text, count, shown>> /\ count = 0
         /\ uart' \in Uart
         /\ Latched'
         /\ uart'.fifo = IF done = 5 THEN <<>> ELSE uart.fifo
<1>1. /\ done \in 0..6 /\ done' = done + 1 /\ UNCHANGED <<text, count, shown>> /\ count = 0
      /\ uart' = UartWrite(Registers[done + 1][1], Registers[done + 1][2])
  BY Seven DEF init_serial, SerialIInv
<1>2. uart \in Uart /\ Latched
  BY DEF SerialIInv
<1>3. CASE done = 0
  <2>1. done' = 1 /\ uart' = UartWrite(1, 0)
    BY <1>1, <1>3, Seven
  <2>2. \/ uart.dlab /\ uart' = [uart EXCEPT !.divisor[2] = 0]
        \/ ~uart.dlab /\ uart' = [uart EXCEPT !.ier = 0]
    BY <2>1 DEF UartWrite
  <2>3. /\ uart' \in Uart /\ uart'.dlab = uart.dlab /\ uart'.fifo = uart.fifo
    <3>1. CASE uart' = [uart EXCEPT !.divisor[2] = 0]
      BY <1>2, <3>1, HalfSet
    <3>2. CASE uart' = [uart EXCEPT !.ier = 0]
      BY <1>2, <3>2, InterruptSet
    <3> QED
      BY <2>2, <3>1, <3>2
  <2> QED
    BY <1>1, <1>2, <1>3, <2>1, <2>2, <2>3 DEF Latched
<1>4. CASE done = 1
  <2>1. done' = 2 /\ uart' = UartWrite(3, 128)
    BY <1>1, <1>4, Seven
  <2>2. uart' = [uart EXCEPT !.dlab = (128 >= 128), !.format = 128 % 128]
    BY <2>1 DEF UartWrite
  <2>3. PICK x \in BOOLEAN, v \in Nat :
          x = TRUE /\ v = 0 /\ uart' = [uart EXCEPT !.dlab = x, !.format = v]
    <3>1. (128 >= 128) = TRUE /\ 128 % 128 = 0
      OBVIOUS
    <3> QED
      BY <2>2, <3>1, Zenon
  <2>4. /\ uart' \in Uart /\ uart'.dlab = x /\ uart'.format = v
        /\ uart'.divisor = uart.divisor /\ uart'.deep = uart.deep /\ uart'.fifo = uart.fifo
    BY <1>2, <2>3 DEF Uart
  <2>5. uart'.dlab
    BY <2>3, <2>4, Zenon
  <2>6. Latched'
    BY <1>2, <1>4, <2>1, <2>3, <2>4, <2>5 DEF Latched
  <2> QED
    BY <1>1, <1>2, <1>4, <2>1, <2>3, <2>4, <2>6
<1>5. CASE done = 2
  <2>1. done' = 3 /\ uart' = UartWrite(0, 3)
    BY <1>1, <1>5, Seven
  <2>2. uart' = [uart EXCEPT !.divisor[1] = 3]
    BY <2>1, <1>2, <1>5 DEF UartWrite, Latched
  <2>3. PICK k \in {1, 2}, v \in Nat :
          k = 1 /\ v = 3 /\ uart' = [uart EXCEPT !.divisor[k] = v]
    <3>1. 1 \in {1, 2} /\ 3 \in Nat
      OBVIOUS
    <3> QED
      BY <2>2, <3>1, Zenon
  <2>4. /\ uart' \in Uart /\ uart'.divisor[k] = v /\ uart'.divisor[3 - k] = uart.divisor[3 - k]
        /\ uart'.dlab = uart.dlab /\ uart'.format = uart.format
        /\ uart'.deep = uart.deep /\ uart'.fifo = uart.fifo
    BY <1>2, <2>3, HalfSet
  <2> QED
    BY <1>1, <1>2, <1>5, <2>1, <2>3, <2>4 DEF Latched, Divisor
<1>6. CASE done = 3
  <2>1. done' = 4 /\ uart' = UartWrite(1, 0)
    BY <1>1, <1>6, Seven
  <2>2. uart' = [uart EXCEPT !.divisor[2] = 0]
    BY <2>1, <1>2, <1>6 DEF UartWrite, Latched
  <2>3. PICK k \in {1, 2}, v \in Nat :
          k = 2 /\ v = 0 /\ uart' = [uart EXCEPT !.divisor[k] = v]
    <3>1. 2 \in {1, 2} /\ 0 \in Nat
      OBVIOUS
    <3> QED
      BY <2>2, <3>1, Zenon
  <2>4. /\ uart' \in Uart /\ uart'.divisor[k] = v /\ uart'.divisor[3 - k] = uart.divisor[3 - k]
        /\ uart'.dlab = uart.dlab /\ uart'.format = uart.format
        /\ uart'.deep = uart.deep /\ uart'.fifo = uart.fifo
    BY <1>2, <2>3, HalfSet
  <2> QED
    BY <1>1, <1>2, <1>6, <2>1, <2>3, <2>4 DEF Latched, Divisor
<1>7. CASE done = 4
  <2>1. done' = 5 /\ uart' = UartWrite(3, 3)
    BY <1>1, <1>7, Seven
  <2>2. uart' = [uart EXCEPT !.dlab = (3 >= 128), !.format = 3 % 128]
    BY <2>1 DEF UartWrite
  <2>3. PICK x \in BOOLEAN, v \in Nat :
          x = FALSE /\ v = 3 /\ uart' = [uart EXCEPT !.dlab = x, !.format = v]
    <3>1. (3 >= 128) = FALSE /\ 3 % 128 = 3
      OBVIOUS
    <3> QED
      BY <2>2, <3>1, Zenon
  <2>4. /\ uart' \in Uart /\ uart'.dlab = x /\ uart'.format = v
        /\ uart'.divisor = uart.divisor /\ uart'.deep = uart.deep /\ uart'.fifo = uart.fifo
    BY <1>2, <2>3 DEF Uart
  <2> QED
    BY <1>1, <1>2, <1>7, <2>1, <2>3, <2>4 DEF Latched, EightN1
<1>8. CASE done = 5
  <2>1. done' = 6 /\ uart' = UartWrite(2, 199)
    BY <1>1, <1>8, Seven
  <2>2. uart' = [uart EXCEPT !.deep = (199 % 2 = 1),
                            !.fifo = IF (199 \div 4) % 2 = 1 THEN <<>> ELSE uart.fifo]
    BY <2>1 DEF UartWrite
  <2>3. PICK x \in BOOLEAN, q \in Fifos :
          x = TRUE /\ q = <<>> /\ uart' = [uart EXCEPT !.deep = x, !.fifo = q]
    <3>1. (199 % 2 = 1) = TRUE /\ (199 \div 4) % 2 = 1
      OBVIOUS
    <3>2. <<>> \in Fifos
      BY DEF Fifos
    <3> QED
      BY <2>2, <3>1, <3>2, Zenon
  <2>4. /\ uart' \in Uart /\ uart'.deep = x /\ uart'.fifo = q
        /\ uart'.dlab = uart.dlab /\ uart'.divisor = uart.divisor /\ uart'.format = uart.format
    BY <1>2, <2>3 DEF Uart
  <2>5. uart'.deep
    BY <2>3, <2>4, Zenon
  <2>6. Latched'
    BY <1>2, <1>8, <2>1, <2>3, <2>4, <2>5 DEF Latched, EightN1
  <2> QED
    BY <1>1, <1>2, <1>8, <2>1, <2>3, <2>4, <2>6
<1>9. CASE done = 6
  <2>1. done' = 7 /\ uart' = UartWrite(4, 11)
    BY <1>1, <1>9, Seven
  <2>2. uart' = uart
    BY <2>1 DEF UartWrite
  <2> QED
    BY <1>1, <1>2, <1>9, <2>1, <2>2 DEF Latched
<1> QED
  BY <1>1, <1>3, <1>4, <1>5, <1>6, <1>7, <1>8, <1>9

LEMMA RegisterStep == SerialIInv /\ init_serial => SerialIInv'
<1> SUFFICES ASSUME SerialIInv, init_serial PROVE SerialIInv'
  OBVIOUS
<1>1. Len(text) \in Nat
  BY DEF SerialIInv
<1>2. Waiting'
  BY RegisterWritten, <1>1 DEF SerialIInv, Waiting
<1>3. Prefix'
  BY RegisterWritten, <1>1 DEF SerialIInv, Prefix
<1> QED
  BY RegisterWritten, <1>1, <1>2, <1>3 DEF SerialIInv

(* What is written waits alone in the transmitter. *)
LEMMA PutcharStep == SerialIInv /\ putchar => SerialIInv'
<1> SUFFICES ASSUME SerialIInv, putchar PROVE SerialIInv'
  OBVIOUS
<1> DEFINE ch == text[count + 1]
<1>1. /\ done = 7 /\ count \in Nat /\ count < Len(text) /\ Len(text) \in Nat
      /\ count' = count + 1 /\ UNCHANGED <<text, done, shown>>
      /\ uart.fifo = <<>>
      /\ uart' = UartWrite(0, ch)
  BY Seven DEF putchar, serial_putchar, is_transmit_empty, SerialIInv
<1>2. uart \in Uart
  BY DEF SerialIInv
<1>3. ch \in Letter
  BY <1>1 DEF SerialIInv
<1>4. ch = text'[count']
  BY <1>1
<1> HIDE DEF ch
<1>5. uart' = [uart EXCEPT !.fifo = <<ch>>]
  <2>1. ~uart.dlab /\ uart.deep
    BY <1>1 DEF SerialIInv, Latched
  <2>2. uart' = Transmit(ch)
    BY <1>1, <2>1 DEF UartWrite
  <2>3. Len(uart.fifo) < FifoSize /\ Append(uart.fifo, ch) = <<ch>>
    BY <1>1, SerialAssumption
  <2> QED
    BY <2>1, <2>2, <2>3 DEF Transmit
<1>6. /\ uart' \in Uart
      /\ uart'.fifo = <<ch>>
      /\ uart'.dlab = uart.dlab /\ uart'.divisor = uart.divisor
      /\ uart'.format = uart.format /\ uart'.deep = uart.deep
  <2>1. <<ch>> \in Fifos
    BY <1>3 DEF Fifos
  <2>2. PICK q \in Fifos :
          q = <<ch>> /\ uart' = [uart EXCEPT !.fifo = q]
    BY <1>5, <2>1
  <2> QED
    BY <1>2, <2>2, FifoSet
<1>7. Latched'
  BY <1>1, <1>6 DEF SerialIInv, Latched
<1>8. count' >= 1 /\ count' # 0 /\ done' = 7 /\ ~(done' <= 5)
  BY <1>1
<1>9. Waiting'
  <2>1. uart'.fifo = <<text'[count']>>
    BY <1>4, <1>6
  <2> QED
    BY <1>8, <2>1, Zenon DEF Waiting
<1>10. Prefix'
  <2>1. Len(shown) = count /\ \A i \in 1..Len(shown) : shown[i] = text[i]
    <3>1. CASE count = 0
      BY <1>1, <3>1 DEF SerialIInv, Prefix
    <3>2. CASE count # 0
      <4>1. Len(uart.fifo) = 0 /\ count >= 1
        BY <1>1, <3>2
      <4> QED
        BY <1>1, <4>1 DEF SerialIInv, Prefix
    <3> QED
      BY <3>1, <3>2
  <2>2. Len(uart'.fifo) = 1
    BY <1>6
  <2>3. Len(shown') = count' - Len(uart'.fifo)
    <3>1. Len(shown') = count /\ count' = count + 1 /\ count \in Int
      BY <1>1, <2>1
    <3> QED
      BY <2>2, <3>1
  <2>4. \A i \in 1..Len(shown') : shown'[i] = text'[i]
    BY <1>1, <2>1
  <2> QED
    BY <1>8, <2>3, <2>4, Zenon DEF Prefix
<1> QED
  BY <1>1, <1>6, <1>7, <1>8, <1>9, <1>10 DEF SerialIInv

(* The UART sends the BIOS's character, which is not shown, or the last one written. *)
LEMMA Sent ==
  ASSUME SerialIInv, Send
  PROVE  /\ uart' = [uart EXCEPT !.fifo = <<>>] /\ UNCHANGED <<text, done, count>>
         /\ \/ done <= 5 /\ shown' = shown
            \/ /\ count >= 1 /\ Len(shown) = count - 1
               /\ shown' = Append(shown, text[count])
<1>1. uart.fifo # <<>> /\ uart' = [uart EXCEPT !.fifo = Tail(uart.fifo)] /\ UNCHANGED <<text, done, count>>
  BY DEF Send, SerialIInv
<1>2. CASE done <= 5
  <2>1. uart.fifo = <<Stale>>
    BY <1>1, <1>2 DEF SerialIInv, Waiting
  <2>2. Head(uart.fifo) = Stale /\ Tail(uart.fifo) = <<>>
    BY <2>1
  <2>3. shown' = shown
    BY <2>2 DEF Send
  <2> QED
    BY <1>1, <1>2, <2>2, <2>3
<1>3. CASE count >= 1
  <2>1. uart.fifo = <<text[count]>>
    BY <1>1, <1>3 DEF SerialIInv, Waiting
  <2>2. Head(uart.fifo) = text[count] /\ Tail(uart.fifo) = <<>> /\ Len(uart.fifo) = 1
    BY <2>1
  <2>3. count \in 1..Len(text) /\ done = 7
    BY <1>3 DEF SerialIInv
  <2>4. text[count] # Stale
    BY <2>3 DEF SerialIInv, Letter
  <2>5. uart.divisor = Divisor /\ uart.format = EightN1
    <3>1. uart.divisor[1] = 3 /\ uart.divisor[2] = 0 /\ uart.format = EightN1
      BY <1>3, <2>3 DEF SerialIInv, Latched, Divisor
    <3>2. uart.divisor \in Nat \X Nat
      BY DEF SerialIInv, Uart
    <3>3. PICK lo \in Nat, hi \in Nat : uart.divisor = <<lo, hi>>
      BY <3>2
    <3>4. lo = 3 /\ hi = 0
      BY <3>1, <3>3
    <3> QED
      BY <3>1, <3>3, <3>4, Zenon DEF Divisor
  <2>6. shown' = Append(shown, text[count])
    BY <2>2, <2>4, <2>5 DEF Send
  <2>7. Len(shown) = count - 1
    BY <1>3, <2>2 DEF SerialIInv, Prefix
  <2> QED
    BY <1>1, <1>3, <2>2, <2>6, <2>7
<1>4. ~(done \in 6..7 /\ count = 0)
  BY <1>1 DEF SerialIInv, Waiting
<1> QED
  BY <1>2, <1>3, <1>4 DEF SerialIInv

LEMMA SendStep == SerialIInv /\ Send => SerialIInv'
<1> SUFFICES ASSUME SerialIInv, Send PROVE SerialIInv'
  OBVIOUS
<1>1. UNCHANGED <<text, done, count>>
  BY Sent
<1>2. /\ uart' \in Uart
      /\ uart'.fifo = <<>> /\ Len(uart'.fifo) = 0
      /\ uart'.dlab = uart.dlab /\ uart'.divisor = uart.divisor
      /\ uart'.format = uart.format /\ uart'.deep = uart.deep
  <2>1. uart' = [uart EXCEPT !.fifo = <<>>]
    BY Sent
  <2>2. uart \in Uart
    BY DEF SerialIInv
  <2>3. <<>> \in Fifos
    BY DEF Fifos
  <2>4. PICK q \in Fifos :
          q = <<>> /\ uart' = [uart EXCEPT !.fifo = q]
    BY <2>1, <2>3
  <2> QED
    BY <2>2, <2>4, FifoSet
<1>3. Latched'
  BY <1>1, <1>2 DEF SerialIInv, Latched
<1>4. Waiting'
  BY <1>1, <1>2 DEF Waiting
<1>5. CASE done <= 5 /\ shown' = shown
  BY <1>1, <1>2, <1>3, <1>4, <1>5 DEF SerialIInv, Prefix
<1>6. CASE count >= 1 /\ Len(shown) = count - 1 /\ shown' = Append(shown, text[count])
  <2>1. count \in 1..Len(text)
    BY <1>6 DEF SerialIInv
  <2>2. text[count] \in Letter /\ shown \in Seq(Letter)
    BY <2>1 DEF SerialIInv
  <2>3. /\ shown' \in Seq(Letter) /\ Len(shown') = count
        /\ shown'[count] = text[count]
        /\ \A i \in 1..(count - 1) : shown'[i] = shown[i]
    BY <1>6, <2>1, <2>2
  <2>4. \A i \in 1..(count - 1) : shown[i] = text[i]
    BY <1>6 DEF SerialIInv, Prefix
  <2>5. \A i \in 1..count : shown'[i] = text[i]
    BY <2>1, <2>3, <2>4
  <2>6. Prefix'
    <3>1. Len(shown') = count' - Len(uart'.fifo)
      BY <1>1, <1>2, <2>1, <2>3
    <3>2. \A i \in 1..Len(shown') : shown'[i] = text'[i]
      BY <1>1, <2>3, <2>5, Zenon
    <3>3. count' >= 1 /\ ~(count' = 0)
      BY <1>1, <1>6 DEF SerialIInv
    <3> QED
      BY <3>1, <3>2, <3>3, Zenon DEF Prefix
  <2> QED
    BY <1>1, <1>2, <1>3, <1>4, <2>3, <2>6 DEF SerialIInv
<1> QED
  BY Sent, <1>5, <1>6

LEMMA SerialIStep == SerialIInv /\ [SerialNext]_serialVars => SerialIInv'
<1> SUFFICES ASSUME SerialIInv, [SerialNext]_serialVars PROVE SerialIInv'
  OBVIOUS
<1>1. CASE UNCHANGED serialVars
  BY <1>1 DEF serialVars, SerialIInv, Latched, Waiting, Prefix
<1> QED
  BY <1>1, RegisterStep, PutcharStep, SendStep DEF SerialNext

(* A step shows nothing, or the next character of the line.                *)
LEMMA LineStep == SerialIInv /\ [SerialNext]_serialVars => [LineSpec!Show]_<<text, shown>>
<1> SUFFICES ASSUME SerialIInv, [SerialNext]_serialVars PROVE [LineSpec!Show]_<<text, shown>>
  OBVIOUS
<1>1. CASE init_serial \/ putchar \/ UNCHANGED serialVars
  BY <1>1 DEF init_serial, putchar, serialVars
<1>2. CASE Send /\ done <= 5 /\ shown' = shown
  BY <1>2, Sent
<1>3. CASE Send /\ count >= 1 /\ Len(shown) = count - 1 /\ shown' = Append(shown, text[count])
  <2>1. count \in 1..Len(text) /\ UNCHANGED text
    BY <1>3, Sent DEF SerialIInv
  <2>2. Len(shown) < Len(text) /\ Len(shown) + 1 = count
    BY <1>3, <2>1 DEF SerialIInv
  <2> QED
    BY <1>3, <2>1, <2>2 DEF LineSpec!Show
<1> QED
  BY <1>1, <1>2, <1>3, Sent DEF SerialNext

(* For every line and every depth of the FIFO, and whatever the BIOS left  *)
(* in the UART, what init_serial_com and serial_putchar do shows the       *)
(* line's characters in order, none lost, none twice, none spoilt: the     *)
(* safety part of LogDelivered.                                            *)
THEOREM LogShown == SerialSpec => LineSpec!LineInit /\ [][LineSpec!Show]_<<text, shown>>
<1>1. SerialInit => LineSpec!LineInit
  BY DEF SerialInit, LineSpec!LineInit
<1> QED
  BY <1>1, SerialStart, SerialIStep, LineStep, PTL DEF SerialSpec

-----------------------------------------------------------------------------
(* The string routines                                                     *)

(* The lengths of the two strings, how many characters are copied, and     *)
(* from where on something is written                                      *)
DstLen == End(Dst) - Dst
SrcLen == End(Src) - Src
Taken == IF asked.fn = "strlcpy" /\ asked.n - 1 < SrcLen THEN asked.n - 1 ELSE SrcLen
From == IF asked.fn = "strcat" THEN End(Dst) ELSE Dst

(* Up to dst, that is the string at Src and zeros behind it.               *)
Placed(a) == IF a - From < Taken THEN before[a - From + Src] ELSE 0
Changed(m, past) == \A a \in DOMAIN before :
                      m[a] = IF a \in From..(past - 1) THEN Placed(a) ELSE before[a]

(* Both pointers have gone over the same bytes; c has not been met.        *)
Together == /\ dst - Dst = src - Src
            /\ \A j \in 0..(src - Src - 1) : before[Dst + j] = before[Src + j]
Missed == \A a \in Src..(src - 1) : before[a] # asked.c
Counted == asked.n - size = src - Src

Writers == {"strcpy", "strcat", "strncpy", "strlcpy"}

Position ==
    /\ src <= End(Src) \/ asked.fn \in {"memcmp", "memfind"}
    /\ asked.fn \notin Writers => memory = before
    /\ asked.fn \in Writers => Changed(memory, dst)
    /\ asked.fn = "strnlen" => Counted
    /\ asked.fn = "strcpy" => dst - Dst = src - Src
    /\ asked.fn = "strcat" => IF tail THEN dst - End(Dst) = src - Src
                              ELSE dst <= End(Dst) /\ src = Src
    /\ asked.fn = "strncpy" => /\ dst - Dst = asked.n - size
                               /\ src - Src = IF dst - Dst < SrcLen THEN dst - Dst ELSE SrcLen
    /\ asked.fn = "strlcpy" => /\ dst - Dst = src - Src /\ Counted
                               /\ asked.n > 0 => size > 0
    /\ asked.fn = "strcmp" => Together /\ dst <= End(Dst)
    /\ asked.fn = "strncmp" => Together /\ dst <= End(Dst) /\ Counted
    /\ asked.fn = "memcmp" => Together /\ Counted
    /\ asked.fn \in {"strfind", "strchr"} => Missed
    /\ asked.fn = "memfind" => Missed /\ Counted

StringIInv ==
    /\ before \in Memories
    /\ asked \in [fn : Routines, n : Counts, c : Chars]
    /\ memory \in [DOMAIN before -> Value]
    /\ dst \in Nat /\ dst >= Dst /\ src \in Nat /\ src >= Src /\ size \in Nat
    /\ tail \in BOOLEAN
    /\ answer \in Int
    /\ answer = NoAnswer => Position
    /\ StringsAsPromised

-----------------------------------------------------------------------------
(* A string has one end. *)
LEMMA OneEnd ==
  ASSUME NEW m \in Seq(Value), NEW a \in Nat, NEW d, NEW e, Ends(m, a, d), Ends(m, a, e)
  PROVE  d = e
<1>1. d \in Int /\ e \in Int /\ a <= d /\ a <= e
  BY DEF Ends
<1>2. ~(d < e) /\ ~(e < d)
  BY <1>1 DEF Ends
<1> QED
  BY <1>1, <1>2

(* What is known of a call: the bytes, the ends of the strings, the room *)
LEMMA Callers ==
  ASSUME before \in Memories
  PROVE  /\ before \in Seq(Value) /\ Len(before) \in Nat /\ DOMAIN before = 1..Len(before)
         /\ Dst \in Nat \ {0} /\ Src \in Nat \ {0}
         /\ Ends(before, Dst, End(Dst)) /\ Ends(before, Src, End(Src))
         /\ End(Dst) \in Dst..Len(before) /\ End(Src) \in Src..Len(before)
         /\ \A k \in Counts \cup {DstLen + SrcLen + 1} :
               /\ Dst + k <= Len(before) + 1
               /\ Dst + k <= Src \/ End(Src) < Dst
         /\ \A k \in Counts : Src + k <= Len(before) + 1
         /\ Counts \subseteq Nat /\ Chars \subseteq Value
<1>1. /\ before \in Seq(Value) /\ {Dst, Src} \subseteq Nat \ {0}
      /\ Counts \subseteq Nat /\ Chars \subseteq Value
      /\ \A k \in Counts : Src + k <= Len(before) + 1
  BY StringAssumption
<1>2. PICK d, e \in DOMAIN before :
        /\ Ends(before, Dst, d) /\ Ends(before, Src, e)
        /\ \A k \in Counts \cup {d - Dst + e - Src + 1} :
              /\ Dst + k <= Len(before) + 1
              /\ Dst + k <= Src \/ e < Dst
  BY StringAssumption
<1>3. Ends(before, Dst, End(Dst)) /\ Ends(before, Src, End(Src))
  BY <1>2 DEF End
<1>4. End(Dst) = d /\ End(Src) = e
  BY <1>1, <1>2, <1>3, OneEnd
<1>5. End(Dst) \in Dst..Len(before) /\ End(Src) \in Src..Len(before)
  BY <1>3 DEF Ends
<1>6. DstLen + SrcLen + 1 = d - Dst + e - Src + 1
  BY <1>1, <1>4, <1>5 DEF DstLen, SrcLen
<1>7. Len(before) \in Nat /\ DOMAIN before = 1..Len(before)
  BY <1>1
<1>8. \A k \in Counts \cup {DstLen + SrcLen + 1} :
               /\ Dst + k <= Len(before) + 1
               /\ Dst + k <= Src \/ End(Src) < Dst
  BY <1>2, <1>4, <1>6
<1> QED
  BY <1>1, <1>3, <1>5, <1>7, <1>8

(* The fields of the question *)
LEMMA Question ==
  ASSUME StringIInv
  PROVE  asked.fn \in Routines /\ asked.n \in Counts /\ asked.n \in Nat /\ asked.c \in Value
BY Callers DEF StringIInv

(* The lengths are those of the strings. *)
LEMMA StringCells ==
  ASSUME before \in Memories, NEW a \in {Dst, Src}
  PROVE  /\ StringAt(a) \in Seq(Value)
         /\ Len(StringAt(a)) = End(a) - a
         /\ \A i \in 1..(End(a) - a) : StringAt(a)[i] = before[a + i - 1] /\ before[a + i - 1] # 0
         /\ before[End(a)] = 0
<1>1. /\ before \in Seq(Value) /\ Len(before) \in Nat /\ a \in Nat \ {0}
      /\ Ends(before, a, End(a)) /\ End(a) \in a..Len(before)
  BY Callers
<1>2. \A i \in a..(End(a) - 1) : before[i] \in Value
  BY <1>1
<1>3. /\ SubSeq(before, a, End(a) - 1) \in Seq(Value)
      /\ Len(SubSeq(before, a, End(a) - 1)) = End(a) - a
      /\ \A i \in 1..(End(a) - a) : SubSeq(before, a, End(a) - 1)[i] = before[a + i - 1]
  BY <1>1, <1>2
<1>4. \A i \in 1..(End(a) - a) : before[a + i - 1] # 0
  BY <1>1 DEF Ends
<1>5. before[End(a)] = 0
  BY <1>1 DEF Ends
<1> QED
  BY <1>3, <1>4, <1>5 DEF StringAt

(* The first k characters of a string *)
LEMMA StartCells ==
  ASSUME NEW s \in Seq(Int), NEW k \in Nat
  PROVE  /\ Start(s, k) \in Seq(Int)
         /\ Len(Start(s, k)) = IF k < Len(s) THEN k ELSE Len(s)
         /\ \A i \in 1..(IF k < Len(s) THEN k ELSE Len(s)) : Start(s, k)[i] = s[i]
<1> DEFINE j == IF k < Len(s) THEN k ELSE Len(s)
<1>1. j \in Nat /\ j <= Len(s)
  OBVIOUS
<1> HIDE DEF j
<1>2. \A i \in 1..j : s[i] \in Int
  BY <1>1
<1>3. SubSeq(s, 1, j) \in Seq(Int) /\ Len(SubSeq(s, 1, j)) = j /\ \A i \in 1..j : SubSeq(s, 1, j)[i] = s[i]
  BY <1>1, <1>2
<1>4. Start(s, k) = SubSeq(s, 1, j)
  BY DEF Start, j
<1> USE DEF j
<1> QED
  BY <1>3, <1>4

(* Sequences of bytes are sequences of integers. *)
LEMMA ByteSeq ==
  ASSUME NEW s \in Seq(Value)
  PROVE  s \in Seq(Int)
<1>1. s \in [1..Len(s) -> Value] /\ Len(s) \in Nat
  OBVIOUS
<1>2. Value \subseteq Int
  BY DEF Value
<1>3. s \in [1..Len(s) -> Int]
  BY <1>1, <1>2
<1> QED
  BY <1>1, <1>3

(* A concatenation, element by element *)
LEMMA ConcatCells ==
  ASSUME NEW s \in Seq(Int), NEW t \in Seq(Int)
  PROVE  /\ s \o t \in Seq(Int)
         /\ Len(s \o t) = Len(s) + Len(t)
         /\ \A i \in 1..(Len(s) + Len(t)) : (s \o t)[i] = IF i <= Len(s) THEN s[i] ELSE t[i - Len(s)]
OBVIOUS

(* k elements are equal and then one of the sequences ends, or r has the *)
(* sign of the next ones' difference. *)
LEMMA OrderedAt ==
  ASSUME NEW u \in Seq(Int), NEW v \in Seq(Int), NEW k \in Nat, k <= Len(u), k <= Len(v),
         \A i \in 1..k : u[i] = v[i], NEW r \in Int,
         \/ k = Len(u) /\ k = Len(v) /\ r = 0
         \/ k = Len(u) /\ k < Len(v) /\ r < 0
         \/ k < Len(u) /\ k = Len(v) /\ r > 0
         \/ k < Len(u) /\ k < Len(v) /\ u[k + 1] # v[k + 1] /\ r = u[k + 1] - v[k + 1]
  PROVE  Ordered(u, v, r)
<1>1. CASE k = Len(u) /\ k = Len(v) /\ r = 0
  <2>1. u = [i \in 1..Len(u) |-> u[i]] /\ v = [i \in 1..Len(v) |-> v[i]]
    OBVIOUS
  <2>2. [i \in 1..Len(u) |-> u[i]] = [i \in 1..Len(v) |-> v[i]]
    BY <1>1
  <2> QED
    BY <1>1, <2>1, <2>2 DEF Ordered
<1>2. CASE ~(k = Len(u) /\ k = Len(v))
  <2> DEFINE e == k + 1
  <2>1. SubSeq(u, 1, k) = SubSeq(v, 1, k)
    <3>1. \A i \in 1..k : u[i] \in Int /\ v[i] \in Int
      OBVIOUS
    <3>2. /\ SubSeq(u, 1, k) \in Seq(Int) /\ SubSeq(v, 1, k) \in Seq(Int)
          /\ Len(SubSeq(u, 1, k)) = k /\ Len(SubSeq(v, 1, k)) = k
          /\ \A i \in 1..k : SubSeq(u, 1, k)[i] = u[i] /\ SubSeq(v, 1, k)[i] = v[i]
      BY <3>1
    <3> HIDE DEF e
    <3> QED
      BY <3>2
  <2>2. e \in 1..(Len(u) + 1) \/ (k = Len(u) /\ e \in 1..(Len(u) + 1))
    OBVIOUS
  <2>3. SubSeq(u, 1, e - 1) = SubSeq(v, 1, e - 1)
    BY <2>1
  <2>4. \/ e > Len(u) /\ e <= Len(v) /\ r < 0
        \/ e <= Len(u) /\ e > Len(v) /\ r > 0
        \/ e <= Len(u) /\ e <= Len(v) /\ u[e] < v[e] /\ r < 0
        \/ e <= Len(u) /\ e <= Len(v) /\ u[e] > v[e] /\ r > 0
    <3>1. CASE k < Len(u) /\ k < Len(v)
      <4>1. u[e] \in Int /\ v[e] \in Int
        BY <3>1
      <4> QED
        BY <1>2, <3>1, <4>1
    <3>2. CASE ~(k < Len(u) /\ k < Len(v))
      BY <1>2, <3>2
    <3> QED
      BY <3>1, <3>2
  <2> HIDE DEF e
  <2> QED
    BY <2>2, <2>3, <2>4 DEF Ordered
<1> QED
  BY <1>1, <1>2

(* k elements are not c and then the sequence ends or c comes. *)
LEMMA FoundAt ==
  ASSUME NEW u \in Seq(Int), NEW c \in Int, NEW k \in Nat, k <= Len(u), \A i \in 1..k : u[i] # c,
         Src \in Nat, NEW else, NEW r,
         \/ k = Len(u) /\ r = else
         \/ k < Len(u) /\ u[k + 1] = c /\ r = Src + k
  PROVE  Found(u, c, else, r)
<1>1. CASE k = Len(u) /\ r = else
  <2>1. ~ \E i \in DOMAIN u : u[i] = c
    BY <1>1
  <2> QED
    BY <1>1, <2>1 DEF Found
<1>2. CASE k < Len(u) /\ u[k + 1] = c /\ r = Src + k
  <2> DEFINE First(i) == u[i] = c /\ \A j \in 1..(i - 1) : u[j] # c
  <2>1. k + 1 \in DOMAIN u /\ First(k + 1)
    BY <1>2
  <2>2. \A i \in DOMAIN u : First(i) => i = k + 1
    <3> SUFFICES ASSUME NEW i \in DOMAIN u, First(i) PROVE i = k + 1
      OBVIOUS
    <3>1. i \in 1..Len(u)
      OBVIOUS
    <3>2. ~(i <= k)
      BY <3>1
    <3>3. ~(k + 1 <= i - 1)
      BY <1>2, <3>1
    <3> QED
      BY <3>1, <3>2, <3>3
  <2>3. (CHOOSE i \in DOMAIN u : First(i)) = k + 1
    <3> HIDE DEF First
    <3> QED
      BY <2>1, <2>2
  <2>4. \E i \in DOMAIN u : u[i] = c
    BY <2>1
  <2>5. Src - 1 + (k + 1) = Src + k
    OBVIOUS
  <2>6. Found(u, c, else, r) <=> r = Src - 1 + (CHOOSE i \in DOMAIN u : First(i))
    BY <2>4, Zenon DEF Found
  <2> HIDE DEF First
  <2> QED
    BY <1>2, <2>3, <2>5, <2>6
<1> QED
  BY <1>1, <1>2

-----------------------------------------------------------------------------
(* What is wanted from Dst on: the end of it, and what each place holds *)
Past == CASE asked.fn = "strcpy" -> Dst + SrcLen + 1
          [] asked.fn = "strcat" -> End(Dst) + SrcLen + 1
          [] asked.fn = "strncpy" -> Dst + asked.n
          [] asked.fn = "strlcpy" -> IF asked.n = 0 THEN Dst ELSE Dst + Taken + 1
          [] OTHER -> Dst

WantedText == Wanted(StringAt(Dst), StringAt(Src), asked.n)

(* The texts that the writers leave, element by element *)
LEMMA CopyCells ==
  ASSUME NEW t \in Seq(Int), NEW q \in Nat, Len(t) = q
  PROVE  /\ t \o <<0>> \in Seq(Int) /\ Len(t \o <<0>>) = q + 1
         /\ \A i \in 1..(q + 1) : (t \o <<0>>)[i] = IF i <= q THEN t[i] ELSE 0
OBVIOUS

LEMMA AppendCells ==
  ASSUME NEW s \in Seq(Int), NEW t \in Seq(Int), NEW p \in Nat, NEW q \in Nat,
         Len(s) = p, Len(t) = q
  PROVE  /\ Len(s \o t \o <<0>>) = p + q + 1
         /\ \A i \in 1..(p + q + 1) :
               (s \o t \o <<0>>)[i] = IF i <= p THEN s[i] ELSE IF i <= p + q THEN t[i - p] ELSE 0
<1>1. PICK k \in Nat : k = p + q
  OBVIOUS
<1>2. /\ s \o t \in Seq(Int) /\ Len(s \o t) = k
      /\ \A i \in 1..k : (s \o t)[i] = IF i <= p THEN s[i] ELSE t[i - p]
  BY <1>1, ConcatCells
<1>3. /\ Len(s \o t \o <<0>>) = k + 1
      /\ \A i \in 1..(k + 1) : (s \o t \o <<0>>)[i] = IF i <= k THEN (s \o t)[i] ELSE 0
  BY <1>2, CopyCells
<1> QED
  BY <1>1, <1>2, <1>3

LEMMA PadCells ==
  ASSUME NEW t \in Seq(Int), NEW q \in Nat, NEW n \in Nat, Len(t) = q
  PROVE  /\ Len(Start(t \o Zeros(n), n)) = n
         /\ \A i \in 1..n : Start(t \o Zeros(n), n)[i] = IF i <= q THEN t[i] ELSE 0
<1>1. Zeros(n) \in Seq(Int) /\ Len(Zeros(n)) = n /\ \A i \in 1..n : Zeros(n)[i] = 0
  BY DEF Zeros
<1> DEFINE z == t \o Zeros(n)
<1>2. PICK k \in Nat : k = q + n
  OBVIOUS
<1>3. /\ z \in Seq(Int) /\ Len(z) = k
      /\ \A i \in 1..k : z[i] = IF i <= q THEN t[i] ELSE Zeros(n)[i - q]
  BY <1>1, <1>2
<1> HIDE DEF z
<1>4. Len(Start(z, n)) = n /\ \A i \in 1..n : Start(z, n)[i] = z[i]
  <2> DEFINE m == IF n < Len(z) THEN n ELSE Len(z)
  <2>1. m = n
    BY <1>2, <1>3
  <2>2. Len(Start(z, n)) = m /\ \A i \in 1..m : Start(z, n)[i] = z[i]
    BY <1>3, StartCells
  <2> HIDE DEF m
  <2> QED
    BY <2>1, <2>2
<1>5. \A i \in 1..n : z[i] = IF i <= q THEN t[i] ELSE 0
  BY <1>1, <1>2, <1>3
<1> QED
  BY <1>4, <1>5 DEF z

LEMMA CutCells ==
  ASSUME NEW t \in Seq(Int), NEW q \in Nat, NEW j \in Nat, Len(t) = q
  PROVE  \E k \in Nat :
           /\ k = IF j < q THEN j ELSE q
           /\ Len(Start(t, j) \o <<0>>) = k + 1
           /\ \A i \in 1..(k + 1) : (Start(t, j) \o <<0>>)[i] = IF i <= k THEN t[i] ELSE 0
<1>1. PICK k \in Nat : k = IF j < q THEN j ELSE q
  OBVIOUS
<1>2. /\ Start(t, j) \in Seq(Int) /\ Len(Start(t, j)) = k /\ k <= q
      /\ \A i \in 1..k : Start(t, j)[i] = t[i]
  BY <1>1, StartCells
<1>3. /\ Len(Start(t, j) \o <<0>>) = k + 1
      /\ \A i \in 1..(k + 1) : (Start(t, j) \o <<0>>)[i] = IF i <= k THEN Start(t, j)[i] ELSE 0
  BY <1>2, CopyCells
<1>4. \A i \in 1..(k + 1) : (Start(t, j) \o <<0>>)[i] = IF i <= k THEN t[i] ELSE 0
  BY <1>2, <1>3
<1> QED
  BY <1>1, <1>3, <1>4, Zenon

LEMMA WantedCells ==
  ASSUME before \in Memories, asked.fn \in Routines, asked.n \in Nat
  PROVE  /\ Len(WantedText) = Past - Dst /\ Past \in Nat /\ Past >= Dst
         /\ \A i \in 1..(Past - Dst) :
               WantedText[i] = IF Dst + i - 1 >= From THEN Placed(Dst + i - 1) ELSE before[Dst + i - 1]
<1>1. PICK D \in Nat, R \in Nat, p \in Nat, q \in Nat, n \in Nat :
        D = Dst /\ R = Src /\ p = DstLen /\ q = SrcLen /\ n = asked.n
  BY Callers DEF DstLen, SrcLen
<1>2. End(Dst) = D + p
  BY <1>1, Callers DEF DstLen
<1>3. PICK s \in Seq(Int) : /\ s = StringAt(Dst) /\ Len(s) = p
                            /\ \A i \in 1..p : s[i] = before[D + i - 1]
  <2>1. StringAt(Dst) \in Seq(Int)
    BY StringCells, ByteSeq
  <2>2. Len(StringAt(Dst)) = p /\ \A i \in 1..p : StringAt(Dst)[i] = before[D + i - 1]
    BY <1>1, StringCells DEF DstLen
  <2> QED
    BY <2>1, <2>2
<1>4. PICK t \in Seq(Int) : /\ t = StringAt(Src) /\ Len(t) = q
                            /\ \A i \in 1..q : t[i] = before[R + i - 1]
  <2>1. StringAt(Src) \in Seq(Int)
    BY StringCells, ByteSeq
  <2>2. Len(StringAt(Src)) = q /\ \A i \in 1..q : StringAt(Src)[i] = before[R + i - 1]
    BY <1>1, StringCells DEF SrcLen
  <2> QED
    BY <2>1, <2>2
<1>5. WantedText = CASE asked.fn = "strcpy"  -> t \o <<0>>
                     [] asked.fn = "strcat"  -> s \o t \o <<0>>
                     [] asked.fn = "strncpy" -> Start(t \o Zeros(n), n)
                     [] asked.fn = "strlcpy" -> IF n = 0 THEN <<>> ELSE Start(t, n - 1) \o <<0>>
                     [] OTHER -> <<>>
  BY <1>1, <1>3, <1>4 DEF WantedText, Wanted
<1>7. CASE asked.fn = "strcpy"
  <2>1. WantedText = t \o <<0>>
    BY <1>5, <1>7
  <2>2. D + q + 1 = Past /\ D = From /\ q = Taken
    BY <1>1, <1>7 DEF Past, From, Taken
  <2>3. /\ Len(WantedText) = q + 1
        /\ \A i \in 1..(q + 1) : WantedText[i] = IF i <= q THEN before[R + i - 1] ELSE 0
    BY <1>4, <2>1, CopyCells
  <2>8. PICK past \in Nat, f \in Nat, k \in Int : past = D + q + 1 /\ f = D /\ k = q
    BY <1>1
  <2>9. past = Past /\ f = From /\ past >= D /\ (k = Taken \/ past = D)
    BY <2>2, <2>3, <2>8
  <2>10. Len(WantedText) = past - D
    BY <2>2, <2>3, <2>8
  <2>11. ASSUME NEW i \in 1..(past - D)
         PROVE  WantedText[i] = IF D + i - 1 >= f
                                THEN IF D + i - 1 - f < k THEN before[D + i - 1 - f + R] ELSE 0
                                ELSE before[D + i - 1]
    BY <2>2, <2>3, <2>8
  <2>12. \A i \in 1..(past - D) :
            WantedText[i] = IF D + i - 1 >= From THEN Placed(D + i - 1) ELSE before[D + i - 1]
    BY <1>1, <2>9, <2>11 DEF Placed
  <2> QED
    BY <1>1, <2>8, <2>9, <2>10, <2>12
<1>8. CASE asked.fn = "strcat"
  <2>1. WantedText = s \o t \o <<0>>
    BY <1>5, <1>8
  <2>2. D + p + q + 1 = Past /\ D + p = From /\ q = Taken
    BY <1>1, <1>2, <1>8 DEF Past, From, Taken
  <2>3. /\ Len(WantedText) = p + q + 1
        /\ \A i \in 1..(p + q + 1) :
              WantedText[i] = IF i <= p THEN before[D + i - 1]
                              ELSE IF i <= p + q THEN before[R + (i - p) - 1] ELSE 0
    <3>1. /\ Len(WantedText) = p + q + 1
          /\ \A i \in 1..(p + q + 1) :
                WantedText[i] = IF i <= p THEN s[i] ELSE IF i <= p + q THEN t[i - p] ELSE 0
      <4>1. /\ Len(s \o t \o <<0>>) = p + q + 1
            /\ \A i \in 1..(p + q + 1) :
                  (s \o t \o <<0>>)[i] = IF i <= p THEN s[i] ELSE IF i <= p + q THEN t[i - p] ELSE 0
        <5>1. s \in Seq(Int) /\ t \in Seq(Int) /\ p \in Nat /\ q \in Nat /\ Len(s) = p /\ Len(t) = q
          BY <1>3, <1>4
        <5> QED
          BY <5>1, AppendCells, ZenonT(60)
      <4> QED
        BY <2>1, <4>1, Zenon
    <3>2. \A i \in 1..(p + q + 1) : i > p /\ i <= p + q => t[i - p] = before[R + (i - p) - 1]
      BY <1>4
    <3>3. \A i \in 1..(p + q + 1) : i <= p => s[i] = before[D + i - 1]
      BY <1>3
    <3> QED
      <4> SUFFICES ASSUME NEW i \in 1..(p + q + 1)
                   PROVE  WantedText[i] = IF i <= p THEN before[D + i - 1]
                                          ELSE IF i <= p + q THEN before[R + (i - p) - 1] ELSE 0
        BY <3>1
      <4>1. CASE i <= p
        BY <3>1, <3>3, <4>1
      <4>2. CASE i > p /\ i <= p + q
        BY <3>1, <3>2, <4>2
      <4>3. CASE i > p + q
        BY <3>1, <4>3
      <4> QED
        BY <4>1, <4>2, <4>3
  <2>8. PICK past \in Nat, f \in Nat, k \in Int : past = D + p + q + 1 /\ f = D + p /\ k = q
    BY <1>1
  <2>9. past = Past /\ f = From /\ past >= D /\ (k = Taken \/ past = D)
    BY <2>2, <2>3, <2>8
  <2>10. Len(WantedText) = past - D
    BY <2>2, <2>3, <2>8
  <2>11. ASSUME NEW i \in 1..(past - D)
         PROVE  WantedText[i] = IF D + i - 1 >= f
                                THEN IF D + i - 1 - f < k THEN before[D + i - 1 - f + R] ELSE 0
                                ELSE before[D + i - 1]
    BY <2>2, <2>3, <2>8
  <2>12. \A i \in 1..(past - D) :
            WantedText[i] = IF D + i - 1 >= From THEN Placed(D + i - 1) ELSE before[D + i - 1]
    BY <1>1, <2>9, <2>11 DEF Placed
  <2> QED
    BY <1>1, <2>8, <2>9, <2>10, <2>12
<1>9. CASE asked.fn = "strncpy"
  <2>1. WantedText = Start(t \o Zeros(n), n)
    BY <1>5, <1>9
  <2>2. D + n = Past /\ D = From /\ q = Taken
    BY <1>1, <1>9 DEF Past, From, Taken
  <2>3. /\ Len(WantedText) = n
        /\ \A i \in 1..n : WantedText[i] = IF i <= q THEN t[i] ELSE 0
    BY <1>4, <2>1, PadCells
  <2>4. \A i \in 1..n : i <= q => t[i] = before[R + i - 1]
    BY <1>4
  <2>8. PICK past \in Nat, f \in Nat, k \in Int : past = D + n /\ f = D /\ k = q
    BY <1>1
  <2>9. past = Past /\ f = From /\ past >= D /\ (k = Taken \/ past = D)
    BY <2>2, <2>3, <2>4, <2>8
  <2>10. Len(WantedText) = past - D
    BY <2>2, <2>3, <2>4, <2>8
  <2>11. ASSUME NEW i \in 1..(past - D)
         PROVE  WantedText[i] = IF D + i - 1 >= f
                                THEN IF D + i - 1 - f < k THEN before[D + i - 1 - f + R] ELSE 0
                                ELSE before[D + i - 1]
    <3>1. i \in 1..n
      BY <2>8
    <3>2. WantedText[i] = IF i <= q THEN before[R + i - 1] ELSE 0
      BY <2>3, <2>4, <3>1
    <3> QED
      BY <2>8, <3>1, <3>2
  <2>12. \A i \in 1..(past - D) :
            WantedText[i] = IF D + i - 1 >= From THEN Placed(D + i - 1) ELSE before[D + i - 1]
    BY <1>1, <2>9, <2>11 DEF Placed
  <2> QED
    BY <1>1, <2>8, <2>9, <2>10, <2>12
<1>10. CASE asked.fn = "strlcpy" /\ n = 0
  <2>1. WantedText = <<>> /\ Past = D /\ From = D
    BY <1>1, <1>5, <1>10 DEF Past, From
  <2>8. PICK past \in Nat, f \in Nat, k \in Int : past = D /\ f = D /\ k = 0
    BY <1>1
  <2>9. past = Past /\ f = From /\ past >= D /\ (k = Taken \/ past = D)
    BY <2>1, <2>8
  <2>10. Len(WantedText) = past - D
    BY <2>1, <2>8
  <2>11. ASSUME NEW i \in 1..(past - D)
         PROVE  WantedText[i] = IF D + i - 1 >= f
                                THEN IF D + i - 1 - f < k THEN before[D + i - 1 - f + R] ELSE 0
                                ELSE before[D + i - 1]
    BY <2>1, <2>8
  <2>12. \A i \in 1..(past - D) :
            WantedText[i] = IF D + i - 1 >= From THEN Placed(D + i - 1) ELSE before[D + i - 1]
    BY <1>1, <2>9, <2>11 DEF Placed
  <2> QED
    BY <1>1, <2>8, <2>9, <2>10, <2>12
<1>11. CASE asked.fn = "strlcpy" /\ n # 0
  <2>0. PICK j \in Nat : j = n - 1
    BY <1>11
  <2>1. WantedText = Start(t, j) \o <<0>>
    BY <1>5, <1>11, <2>0
  <2>2. PICK k0 \in Nat :
          /\ k0 = IF j < q THEN j ELSE q
          /\ Len(Start(t, j) \o <<0>>) = k0 + 1
          /\ \A i \in 1..(k0 + 1) : (Start(t, j) \o <<0>>)[i] = IF i <= k0 THEN t[i] ELSE 0
    <3>1. Len(t) = q
      BY <1>4
    <3> QED
      BY <3>1, CutCells
  <2>3. k0 = Taken
    BY <1>1, <1>11, <2>0, <2>2 DEF Taken
  <2>4. D + k0 + 1 = Past /\ D = From
    BY <1>1, <1>11, <2>3 DEF Past, From
  <2>5. /\ Len(WantedText) = k0 + 1
        /\ \A i \in 1..(k0 + 1) : WantedText[i] = IF i <= k0 THEN t[i] ELSE 0
    BY <2>1, <2>2
  <2>6. \A i \in 1..(k0 + 1) : i <= k0 => t[i] = before[R + i - 1]
    <3>1. k0 <= q
      BY <2>2
    <3> QED
      BY <1>4, <3>1
  <2>8. PICK past \in Nat, f \in Nat, k \in Int : past = D + k0 + 1 /\ f = D /\ k = k0
    BY <1>1
  <2>9. past = Past /\ f = From /\ past >= D /\ (k = Taken \/ past = D)
    BY <2>3, <2>4, <2>5, <2>6, <2>8
  <2>10. Len(WantedText) = past - D
    BY <2>3, <2>4, <2>5, <2>6, <2>8
  <2>11. ASSUME NEW i \in 1..(past - D)
         PROVE  WantedText[i] = IF D + i - 1 >= f
                                THEN IF D + i - 1 - f < k THEN before[D + i - 1 - f + R] ELSE 0
                                ELSE before[D + i - 1]
    <3>1. i \in 1..(k0 + 1)
      BY <2>8
    <3>2. WantedText[i] = IF i <= k0 THEN before[R + i - 1] ELSE 0
      BY <2>5, <2>6, <3>1
    <3> QED
      BY <2>8, <3>1, <3>2
  <2>12. \A i \in 1..(past - D) :
            WantedText[i] = IF D + i - 1 >= From THEN Placed(D + i - 1) ELSE before[D + i - 1]
    BY <1>1, <2>9, <2>11 DEF Placed
  <2> QED
    BY <1>1, <2>8, <2>9, <2>10, <2>12
<1>12. CASE asked.fn \notin Writers
  <2>1. WantedText = <<>> /\ Past = D /\ From = D
    BY <1>1, <1>5, <1>12 DEF Past, From, Writers
  <2>8. PICK past \in Nat, f \in Nat, k \in Int : past = D /\ f = D /\ k = 0
    BY <1>1
  <2>9. past = Past /\ f = From /\ past >= D /\ (k = Taken \/ past = D)
    BY <2>1, <2>8
  <2>10. Len(WantedText) = past - D
    BY <2>1, <2>8
  <2>11. ASSUME NEW i \in 1..(past - D)
         PROVE  WantedText[i] = IF D + i - 1 >= f
                                THEN IF D + i - 1 - f < k THEN before[D + i - 1 - f + R] ELSE 0
                                ELSE before[D + i - 1]
    BY <2>1, <2>8
  <2>12. \A i \in 1..(past - D) :
            WantedText[i] = IF D + i - 1 >= From THEN Placed(D + i - 1) ELSE before[D + i - 1]
    BY <1>1, <2>9, <2>11 DEF Placed
  <2> QED
    BY <1>1, <2>8, <2>9, <2>10, <2>12
<1> QED
  BY <1>7, <1>8, <1>9, <1>10, <1>11, <1>12 DEF Writers

-----------------------------------------------------------------------------
(* The steps *)

(* What a step does not change *)
LEMMA Unmoved ==
  ASSUME UNCHANGED <<before, asked>>
  PROVE  /\ End(Dst)' = End(Dst) /\ End(Src)' = End(Src)
         /\ SrcLen' = SrcLen /\ From' = From /\ Taken' = Taken
         /\ StringAt(Dst)' = StringAt(Dst) /\ StringAt(Src)' = StringAt(Src)
         /\ MemoryWanted(memory)' <=> MemoryWanted(memory')
         /\ AnswerWanted(answer)' <=> AnswerWanted(answer')
<1>1. End(Dst)' = End(Dst) /\ End(Src)' = End(Src)
  BY DEF End
<1>2. StringAt(Dst)' = StringAt(Dst) /\ StringAt(Src)' = StringAt(Src)
  BY <1>1 DEF StringAt
<1>3. MemoryWanted(memory)' <=> MemoryWanted(memory')
  BY <1>2 DEF MemoryWanted, Wanted
<1>4. AnswerWanted(answer)' <=> AnswerWanted(answer')
  BY <1>2 DEF AnswerWanted
<1>5. SrcLen' = SrcLen /\ From' = From
  BY <1>1 DEF SrcLen, From
<1>6. Taken' = Taken
  BY <1>5 DEF Taken
<1> QED
  BY <1>1, <1>2, <1>3, <1>4, <1>5, <1>6

LEMMA ChangedNext ==
  ASSUME UNCHANGED <<before, asked>>
  PROVE  Changed(memory, dst)' <=> Changed(memory', dst')
BY Unmoved DEF Changed, Placed

(* The parts of the next state *)
LEMMA Assembled ==
  ASSUME StringIInv, UNCHANGED <<before, asked>>,
         memory' \in [DOMAIN before -> Value],
         dst' \in Nat, dst' >= Dst, src' \in Nat, src' >= Src, size' \in Nat, tail' \in BOOLEAN,
         \/ answer' = NoAnswer /\ Position'
         \/ answer' \in Int \ {NoAnswer} /\ MemoryWanted(memory') /\ AnswerWanted(answer')
  PROVE  StringIInv'
<1>1. StringsAsPromised' <=> (answer' # NoAnswer => MemoryWanted(memory') /\ AnswerWanted(answer'))
  BY Unmoved DEF StringsAsPromised, NoAnswer
<1>2. answer' \in Int
  BY DEF NoAnswer
<1> QED
  BY <1>1, <1>2 DEF StringIInv

(* A pointer within a string is at its end if and only if it meets a 0. *)
LEMMA AtEnd ==
  ASSUME StringIInv, NEW a \in {Dst, Src}, NEW x \in Nat, a <= x, x <= End(a)
  PROVE  /\ x \in DOMAIN before /\ before[x] \in Value
         /\ before[x] = 0 <=> x = End(a)
         /\ End(a) \in Nat
<1>1. /\ before \in Seq(Value) /\ DOMAIN before = 1..Len(before) /\ Len(before) \in Nat
      /\ Ends(before, a, End(a)) /\ End(a) \in a..Len(before) /\ a \in Nat \ {0}
  BY Callers DEF StringIInv
<1>2. x \in 1..Len(before)
  BY <1>1
<1>3. before[x] \in Value
  BY <1>1, <1>2
<1>4. x < End(a) => x \in a..(End(a) - 1)
  BY <1>1
<1>5. before[x] = 0 <=> x = End(a)
  BY <1>1, <1>4 DEF Ends
<1> QED
  BY <1>1, <1>2, <1>3, <1>5

(* The memory is as wanted when the text is placed up to its end. *)
LEMMA PlacedAll ==
  ASSUME StringIInv, NEW m \in [DOMAIN before -> Value],
         \A a \in DOMAIN before : m[a] = IF a \in From..(Past - 1) THEN Placed(a) ELSE before[a]
  PROVE  MemoryWanted(m)
<1>1. /\ Len(WantedText) = Past - Dst /\ Past \in Nat /\ Past >= Dst
      /\ \A i \in 1..(Past - Dst) :
            WantedText[i] = IF Dst + i - 1 >= From THEN Placed(Dst + i - 1) ELSE before[Dst + i - 1]
  BY WantedCells, Question DEF StringIInv
<1>2. /\ Dst \in Nat /\ From \in Nat /\ From >= Dst
      /\ DOMAIN before = 1..Len(before) /\ Len(before) \in Nat
  BY Callers DEF From, StringIInv
<1>3. Dst + Len(WantedText) - 1 = Past - 1
  BY <1>1, <1>2
<1>4. ASSUME NEW a \in DOMAIN before
      PROVE  m[a] = IF a \in Dst..(Past - 1) THEN WantedText[a - Dst + 1] ELSE before[a]
  <2>1. a \in Nat
    BY <1>2
  <2>2. CASE a \in Dst..(Past - 1)
    <3>1. PICK i \in Nat : i = a - Dst + 1
      BY <1>2, <2>1, <2>2
    <3>2. i \in 1..(Past - Dst) /\ Dst + i - 1 = a
      BY <1>1, <1>2, <2>1, <2>2, <3>1
    <3>3. WantedText[i] = IF a >= From THEN Placed(a) ELSE before[a]
      BY <1>1, <3>2
    <3>4. a \in From..(Past - 1) <=> a >= From
      BY <1>1, <1>2, <2>1, <2>2
    <3>5. m[a] = IF a >= From THEN Placed(a) ELSE before[a]
      BY <3>4
    <3> QED
      BY <2>2, <3>1, <3>3, <3>5
  <2>3. CASE a \notin Dst..(Past - 1)
    <3>1. a \notin From..(Past - 1)
      BY <1>1, <1>2, <2>1, <2>3
    <3> QED
      BY <2>3, <3>1
  <2> QED
    BY <2>2, <2>3
<1>5. m = [a \in DOMAIN before |-> IF a \in Dst..(Past - 1) THEN WantedText[a - Dst + 1] ELSE before[a]]
  BY <1>4
<1> QED
  BY <1>3, <1>5, Zenon DEF MemoryWanted, WantedText

LEMMA NothingPlaced ==
  ASSUME StringIInv, asked.fn \notin Writers
  PROVE  MemoryWanted(before) /\ before \in [DOMAIN before -> Value]
<1>1. From = Dst /\ Past = Dst /\ Dst \in Nat
  BY Callers DEF From, Past, Writers, StringIInv
<1>2. before \in [DOMAIN before -> Value]
  BY Callers DEF StringIInv
<1>3. ~ \E a : a \in Dst..(Dst - 1)
  BY <1>1
<1> QED
  BY <1>1, <1>2, <1>3, PlacedAll

(* What is known before a step *)
LEMMA Started ==
  ASSUME StringIInv, answer = NoAnswer
  PROVE  /\ Position
         /\ Dst \in Nat \ {0} /\ Src \in Nat \ {0} /\ End(Dst) \in Nat /\ End(Src) \in Nat
         /\ DstLen \in Nat /\ SrcLen \in Nat
         /\ End(Dst) = Dst + DstLen /\ End(Src) = Src + SrcLen
         /\ dst \in Nat /\ dst >= Dst /\ src \in Nat /\ src >= Src /\ size \in Nat /\ tail \in BOOLEAN
         /\ asked.n \in Nat /\ asked.c \in Int
         /\ memory \in [DOMAIN before -> Value]
<1>1. /\ Dst \in Nat \ {0} /\ Src \in Nat \ {0} /\ End(Dst) \in Dst..Len(before) /\ End(Src) \in Src..Len(before)
      /\ Len(before) \in Nat
  BY Callers DEF StringIInv
<1>2. /\ DstLen \in Nat /\ SrcLen \in Nat /\ End(Dst) = Dst + DstLen /\ End(Src) = Src + SrcLen
      /\ End(Dst) \in Nat /\ End(Src) \in Nat
  BY <1>1 DEF DstLen, SrcLen
<1>3. asked.n \in Nat /\ asked.c \in Int
  BY Question DEF Value
<1> QED
  BY <1>1, <1>2, <1>3 DEF StringIInv

(* Routines that only read: once more round the loop, and the answer *)
LEMMA ReaderTurns ==
  ASSUME StringIInv, answer = NoAnswer, UNCHANGED <<before, asked, memory, tail, answer>>,
         NEW d \in {0, 1}, NEW k \in Nat, dst' = dst + d, src' = src + 1, size' = size - k, k <= size,
         Position'
  PROVE  StringIInv'
<1>1. dst' \in Nat /\ dst' >= Dst /\ src' \in Nat /\ src' >= Src /\ size' \in Nat
  BY Started
<1> QED
  BY <1>1, Started, Assembled

LEMMA ReaderAnswers ==
  ASSUME StringIInv, answer = NoAnswer, UNCHANGED <<before, asked, memory, dst, src, size, tail>>,
         asked.fn \notin Writers, answer' \in Int \ {NoAnswer}, AnswerWanted(answer')
  PROVE  StringIInv'
<1>1. memory = before
  BY Started DEF Position
<1>2. MemoryWanted(memory')
  BY <1>1, NothingPlaced
<1> QED
  BY <1>2, Started, Assembled

LEMMA StrlenStep ==
  ASSUME StringIInv, answer = NoAnswer, strlen, UNCHANGED <<before, asked>>
  PROVE  StringIInv'
<1>1. /\ asked.fn = "strlen" /\ UNCHANGED memory
      /\ Position /\ memory = before /\ src <= End(Src)
  BY Started DEF strlen, Position, Writers
<1>2. before[src] = 0 <=> src = End(Src)
  BY <1>1, Started, AtEnd
<1>3. CASE memory[src] # 0
  <2>1. Turn(0, 1, 0)
    BY <1>3 DEF strlen
  <2>2. Position'
    BY <1>1, <1>2, <1>3, <2>1, Started, Unmoved DEF Turn, Position, Writers
  <2> QED
    BY <1>1, <2>1, <2>2, Started, ReaderTurns DEF Turn
<1>4. CASE memory[src] = 0
  <2>1. Answer(src - Src)
    BY <1>4 DEF strlen
  <2>2. answer' = SrcLen
    BY <1>1, <1>2, <1>4, <2>1, Started DEF Answer
  <2>3. Len(StringAt(Src)) = SrcLen
    BY StringCells DEF StringIInv, SrcLen
  <2>4. AnswerWanted(answer')
    BY <1>1, <2>2, <2>3 DEF AnswerWanted
  <2>5. answer' \in Int \ {NoAnswer}
    BY <2>2, Started DEF NoAnswer
  <2> QED
    BY <1>1, <2>1, <2>4, <2>5, ReaderAnswers DEF Answer, Writers
<1> QED
  BY <1>3, <1>4

LEMMA StrnlenStep ==
  ASSUME StringIInv, answer = NoAnswer, strnlen, UNCHANGED <<before, asked>>
  PROVE  StringIInv'
<1>1. /\ asked.fn = "strnlen" /\ UNCHANGED memory
      /\ Position /\ memory = before /\ src <= End(Src) /\ Counted
  BY Started DEF strnlen, Position, Writers
<1>2. before[src] = 0 <=> src = End(Src)
  BY <1>1, Started, AtEnd
<1>3. CASE size > 0 /\ memory[src] # 0
  <2>1. Turn(0, 1, 1)
    BY <1>3 DEF strnlen
  <2>2. src' <= End(Src) /\ Counted'
    BY <1>1, <1>2, <1>3, <2>1, Started DEF Turn, Counted
  <2>3. Position'
    BY <1>1, <2>1, <2>2, Unmoved DEF Turn, Position, Writers
  <2> QED
    BY <1>1, <1>3, <2>1, <2>3, Started, ReaderTurns DEF Turn
<1>4. CASE ~(size > 0 /\ memory[src] # 0)
  <2>1. Answer(src - Src)
    BY <1>4 DEF strnlen
  <2>2. answer' = IF asked.n < SrcLen THEN asked.n ELSE SrcLen
    BY <1>1, <1>2, <1>4, <2>1, Started DEF Answer, Counted
  <2>3. StringAt(Src) \in Seq(Int) /\ Len(StringAt(Src)) = SrcLen
    BY StringCells, ByteSeq DEF StringIInv, SrcLen
  <2>4. AnswerWanted(answer')
    BY <1>1, <2>2, <2>3, Started, StartCells DEF AnswerWanted
  <2>5. answer' \in Int \ {NoAnswer}
    BY <2>2, Started DEF NoAnswer
  <2> QED
    BY <1>1, <2>1, <2>4, <2>5, ReaderAnswers DEF Answer, Writers
<1> QED
  BY <1>3, <1>4

(* The search for c in the string at Src *)
LEMMA SearchedString ==
  ASSUME StringIInv, answer = NoAnswer, asked.fn \in {"strfind", "strchr"},
         before[src] \in {0, asked.c}, NEW else, NEW r,
         r = IF src = End(Src) THEN else ELSE src
  PROVE  Found(StringAt(Src), asked.c, else, r)
<1>1. Position /\ src <= End(Src) /\ Missed
  BY Started DEF Position, Writers
<1>2. before[src] = 0 <=> src = End(Src)
  BY <1>1, Started, AtEnd
<1>3. PICK R \in Nat, x \in Nat, k \in Nat, q \in Nat :
        R = Src /\ x = src /\ q = SrcLen /\ x = R + k /\ k <= q /\ End(Src) = R + q
  <2>1. src - Src \in Nat /\ src = Src + (src - Src) /\ src - Src <= SrcLen
    BY <1>1, Started
  <2> QED
    BY <2>1, Started
<1>4. PICK u \in Seq(Int) : /\ u = StringAt(Src) /\ Len(u) = q
                            /\ \A i \in 1..q : u[i] = before[R + i - 1]
  <2>1. StringAt(Src) \in Seq(Int)
    BY StringCells, ByteSeq DEF StringIInv
  <2> QED
    BY <1>3, <2>1, StringCells DEF SrcLen, StringIInv
<1>5. \A i \in 1..k : u[i] # asked.c
  <2> SUFFICES ASSUME NEW i \in 1..k PROVE u[i] # asked.c
    OBVIOUS
  <2>1. i \in 1..q /\ R + i - 1 \in R..(x - 1)
    BY <1>3
  <2>2. before[R + i - 1] # asked.c
    BY <1>1, <1>3, <2>1 DEF Missed
  <2> QED
    BY <1>4, <2>1, <2>2
<1>6. CASE src = End(Src)
  <2>1. k = q
    <3>1. x = R + q /\ x = R + k
      BY <1>3, <1>6, Zenon
    <3> QED
      BY <3>1
  <2>2. k = Len(u) /\ r = else
    BY <1>4, <1>6, <2>1
  <2> QED
    BY <1>3, <1>4, <1>5, <2>2, Started, FoundAt
<1>7. CASE src # End(Src)
  <2>1. k < q /\ k + 1 \in 1..q /\ R + (k + 1) - 1 = x
    BY <1>3, <1>7
  <2>2. r = R + k /\ k < Len(u)
    BY <1>3, <1>4, <1>7, <2>1
  <2>3. u[k + 1] = asked.c
    BY <1>2, <1>3, <1>4, <1>7, <2>1
  <2> QED
    BY <1>3, <1>4, <1>5, <2>2, <2>3, Started, FoundAt
<1> QED
  BY <1>6, <1>7

LEMMA StrfindStep ==
  ASSUME StringIInv, answer = NoAnswer, strfind \/ strchr, UNCHANGED <<before, asked>>
  PROVE  StringIInv'
<1>1. /\ asked.fn \in {"strfind", "strchr"} /\ UNCHANGED memory
      /\ Position /\ memory = before /\ src <= End(Src) /\ Missed
  BY Started DEF strfind, strchr, Position, Writers
<1>2. before[src] = 0 <=> src = End(Src)
  BY <1>1, Started, AtEnd
<1>3. CASE memory[src] \notin {0, asked.c}
  <2>1. Turn(0, 1, 0)
    BY <1>3 DEF strfind, strchr
  <2>2. src' <= End(Src) /\ Missed'
    <3>1. src' = src + 1 /\ before[src] # asked.c /\ src # End(Src)
      BY <1>1, <1>2, <1>3, <2>1 DEF Turn
    <3>2. \A a \in Src..(src' - 1) : a \in Src..(src - 1) \/ a = src
      BY <3>1, Started
    <3> QED
      BY <1>1, <3>1, <3>2, Started DEF Missed
  <2>3. Position'
    BY <1>1, <2>1, <2>2, Unmoved DEF Turn, Position, Writers
  <2> QED
    BY <1>1, <1>3, <2>1, <2>3, Started, ReaderTurns DEF Turn
<1>4. CASE memory[src] \in {0, asked.c}
  <2>1. UNCHANGED <<dst, src, size, tail>>
    BY <1>4 DEF strfind, strchr, Answer
  <2>2. CASE asked.fn = "strfind"
    <3>1. answer' = src
      BY <1>4, <2>2 DEF strfind, strchr, Answer
    <3>2. Len(StringAt(Src)) = SrcLen
      BY StringCells DEF StringIInv, SrcLen
    <3>3. answer' = IF src = End(Src) THEN Src + Len(StringAt(Src)) ELSE src
      BY <3>1, <3>2, Started
    <3>4. AnswerWanted(answer')
      BY <1>1, <1>4, <2>2, <3>3, SearchedString DEF AnswerWanted
    <3>5. answer' \in Int \ {NoAnswer}
      BY <3>1, Started DEF NoAnswer
    <3> QED
      BY <1>1, <2>1, <3>4, <3>5, ReaderAnswers DEF Writers
  <2>3. CASE asked.fn = "strchr"
    <3>1. answer' = IF src = End(Src) THEN 0 ELSE src
      BY <1>1, <1>2, <1>4, <2>3 DEF strfind, strchr, Answer
    <3>2. AnswerWanted(answer')
      BY <1>1, <1>4, <2>3, <3>1, SearchedString DEF AnswerWanted
    <3>3. answer' \in Int \ {NoAnswer}
      BY <3>1, Started DEF NoAnswer
    <3> QED
      BY <1>1, <2>1, <3>2, <3>3, ReaderAnswers DEF Writers
  <2> QED
    BY <1>1, <2>2, <2>3
<1> QED
  BY <1>3, <1>4

(* The counted routines read within the memory. *)
LEMMA CountedInside ==
  ASSUME StringIInv, answer = NoAnswer, Counted, size > 0, NEW a \in {Dst, Src}
  PROVE  a + (src - Src) \in DOMAIN before /\ before[a + (src - Src)] \in Value
<1>1. PICK A \in Nat, L \in Nat, k \in Nat, n \in Nat :
        /\ A = a /\ L = Len(before) /\ k = src - Src /\ n = asked.n /\ k < n /\ A > 0
  <2>1. src - Src \in Nat /\ src - Src < asked.n
    BY Started DEF Counted
  <2>2. a \in Nat /\ a > 0 /\ Len(before) \in Nat /\ asked.n \in Nat
    BY Started, Callers DEF StringIInv
  <2> QED
    BY <2>1, <2>2
<1>2. A + n <= L + 1
  BY <1>1, Question, Callers DEF StringIInv
<1>3. A + k \in 1..L
  BY <1>1, <1>2
<1>4. before \in Seq(Value) /\ DOMAIN before = 1..Len(before)
  BY Callers DEF StringIInv
<1>5. A + k \in DOMAIN before /\ before[A + k] \in Value
  BY <1>1, <1>3, <1>4
<1> QED
  BY <1>1, <1>5

(* A part of a sequence, element by element *)
LEMMA PartCells ==
  ASSUME NEW s \in Seq(Int), NEW A \in Nat, A > 0, NEW B \in Nat, A <= B + 1, B <= Len(s)
  PROVE  /\ SubSeq(s, A, B) \in Seq(Int)
         /\ Len(SubSeq(s, A, B)) = B - A + 1
         /\ \A i \in 1..(B - A + 1) : SubSeq(s, A, B)[i] = s[A + i - 1]
<1>1. \A i \in A..B : s[i] \in Int
  OBVIOUS
<1>2. SubSeq(s, A, B) \in Seq(Int) /\ Len(SubSeq(s, A, B)) = B - A + 1
  BY <1>1
<1>3. \A i \in 1..(B - A + 1) : SubSeq(s, A, B)[i] = s[A + i - 1]
  OBVIOUS
<1> QED
  BY <1>2, <1>3

(* The n bytes at an address *)
LEMMA Bytes ==
  ASSUME StringIInv, NEW a \in {Dst, Src}, NEW n, n = asked.n
  PROVE  /\ SubSeq(before, a, a + n - 1) \in Seq(Int)
         /\ Len(SubSeq(before, a, a + n - 1)) = n
         /\ \A i \in 1..n : SubSeq(before, a, a + n - 1)[i] = before[a + i - 1]
<1>1. PICK A \in Nat, L \in Nat, k \in Nat :
        A = a /\ L = Len(before) /\ k = n /\ A > 0 /\ A + k <= L + 1
  <2>1. a \in Nat /\ a > 0 /\ Len(before) \in Nat /\ n \in Nat
    BY Question, Callers DEF StringIInv
  <2>2. a + n <= Len(before) + 1
    BY Question, Callers DEF StringIInv
  <2> QED
    BY <2>1, <2>2
<1>2. PICK B \in Nat : B = A + k - 1 /\ B <= L /\ A <= B + 1 /\ B - A + 1 = k
  <2>1. A + k - 1 \in Nat
    BY <1>1
  <2>2. A + k - 1 <= L /\ A <= (A + k - 1) + 1 /\ (A + k - 1) - A + 1 = k
    BY <1>1
  <2> QED
    BY <2>1, <2>2, Zenon
<1>3. before \in Seq(Int) /\ B <= Len(before)
  <2>1. B <= L
    BY <1>2
  <2> QED
    BY <1>1, <2>1, ByteSeq, Callers DEF StringIInv
<1>4. A \in Nat /\ B \in Nat /\ A > 0 /\ A <= B + 1
  BY <1>1, <1>2
<1>5. /\ SubSeq(before, A, B) \in Seq(Int)
      /\ Len(SubSeq(before, A, B)) = B - A + 1
      /\ \A i \in 1..(B - A + 1) : SubSeq(before, A, B)[i] = before[A + i - 1]
  BY <1>3, <1>4, PartCells, Zenon
<1>6. B = a + n - 1 /\ B - A + 1 = n
  BY <1>1, <1>2, Zenon
<1> QED
  BY <1>1, <1>5, <1>6, Zenon

LEMMA MemfindStep ==
  ASSUME StringIInv, answer = NoAnswer, memfind, UNCHANGED <<before, asked>>
  PROVE  StringIInv'
<1>1. /\ asked.fn = "memfind" /\ UNCHANGED memory
      /\ Position /\ memory = before /\ Missed /\ Counted
  BY Started DEF memfind, Position, Writers
<1>2. CASE size > 0 /\ memory[src] # asked.c
  <2>1. Turn(0, 1, 1)
    BY <1>2 DEF memfind
  <2>2. Missed'
    <3>1. src' = src + 1 /\ before[src] # asked.c
      BY <1>1, <1>2, <2>1 DEF Turn
    <3>2. \A a \in Src..(src' - 1) : a \in Src..(src - 1) \/ a = src
      BY <3>1, Started
    <3> QED
      BY <1>1, <3>1, <3>2, Started DEF Missed
  <2>3. Counted'
    BY <1>1, <1>2, <2>1, Started DEF Turn, Counted
  <2>4. Position'
    BY <1>1, <2>1, <2>2, <2>3, Unmoved DEF Turn, Position, Writers
  <2> QED
    BY <1>1, <1>2, <2>1, <2>4, Started, ReaderTurns DEF Turn
<1>3. CASE ~(size > 0 /\ memory[src] # asked.c)
  <2>1. Answer(src)
    BY <1>3 DEF memfind
  <2>2. PICK R \in Nat, x \in Nat, k \in Nat, n \in Nat :
          /\ R = Src /\ x = src /\ n = asked.n /\ x = R + k /\ k <= n
          /\ size = 0 <=> k = n
    <3>1. /\ src - Src \in Nat /\ src = Src + (src - Src) /\ src - Src <= asked.n
          /\ size = 0 <=> src - Src = asked.n
      BY <1>1, Started DEF Counted
    <3> QED
      BY <3>1, Started
  <2>3. PICK u \in Seq(Int) : /\ u = SubSeq(before, Src, Src + asked.n - 1) /\ Len(u) = n
                              /\ \A i \in 1..n : u[i] = before[R + i - 1]
    BY <2>2, Bytes
  <2>4. \A i \in 1..k : u[i] # asked.c
    <3> SUFFICES ASSUME NEW i \in 1..k PROVE u[i] # asked.c
      OBVIOUS
    <3>1. i \in 1..n /\ R + i - 1 \in R..(x - 1)
      BY <2>2
    <3>2. before[R + i - 1] # asked.c
      BY <1>1, <2>2, <3>1 DEF Missed
    <3> QED
      BY <2>3, <3>1, <3>2
  <2>5. Found(u, asked.c, Src + asked.n, src)
    <3>1. CASE size = 0
      <4>1. k = Len(u) /\ src = Src + asked.n
        BY <2>2, <2>3, <3>1
      <4> QED
        BY <2>2, <2>3, <2>4, <4>1, Started, FoundAt
    <3>2. CASE size # 0
      <4>1. k < n /\ k + 1 \in 1..n /\ R + (k + 1) - 1 = x
        BY <2>2, <3>2
      <4>2. before[src] = asked.c
        BY <1>1, <1>3, <3>2, Started
      <4>3. u[k + 1] = asked.c /\ k < Len(u) /\ src = R + k
        BY <2>2, <2>3, <4>1, <4>2
      <4> QED
        BY <2>2, <2>3, <2>4, <4>3, Started, FoundAt
    <3> QED
      BY <3>1, <3>2
  <2>6. AnswerWanted(answer')
    BY <1>1, <2>1, <2>3, <2>5 DEF AnswerWanted, Answer
  <2>7. answer' \in Int \ {NoAnswer}
    BY <2>1, Started DEF NoAnswer, Answer
  <2> QED
    BY <1>1, <2>1, <2>6, <2>7, ReaderAnswers DEF Answer, Writers
<1> QED
  BY <1>2, <1>3

(* The comparisons: the pointers go on together over equal bytes. *)
LEMMA StillTogether ==
  ASSUME StringIInv, answer = NoAnswer, Together, before[dst] = before[src],
         dst' = dst + 1, src' = src + 1, UNCHANGED before
  PROVE  Together'
<1>1. PICK D \in Nat, R \in Nat, k \in Nat :
        D = Dst /\ R = Src /\ k = src - Src /\ dst = D + k /\ src = R + k
  <2>1. src - Src \in Nat /\ src = Src + (src - Src) /\ dst = Dst + (src - Src)
    BY Started DEF Together
  <2> QED
    BY <2>1, Started
<1>2. dst' - Dst = src' - Src /\ src' - Src = k + 1
  BY <1>1, Started DEF Together
<1>3. ASSUME NEW j \in 0..k PROVE before[D + j] = before[R + j]
  <2>1. j < k => j \in 0..(k - 1)
    OBVIOUS
  <2> QED
    BY <1>1, <2>1 DEF Together
<1>4. (k + 1) - 1 = k
  OBVIOUS
<1> QED
  BY <1>1, <1>2, <1>3, <1>4 DEF Together

(* The first n characters, or all, of the two strings compared *)
LEMMA ComparedStrings ==
  ASSUME StringIInv, answer = NoAnswer, Together, src <= End(Src), dst <= End(Dst),
         NEW cut \in BOOLEAN, NEW n \in Nat, cut => src - Src <= n,
         (cut /\ src - Src = n) \/ ~(before[dst] # 0 /\ before[dst] = before[src]),
         NEW r, r = IF cut /\ src - Src = n THEN 0 ELSE before[dst] - before[src]
  PROVE  /\ cut => Ordered(Start(StringAt(Dst), n), Start(StringAt(Src), n), r)
         /\ ~cut => Ordered(StringAt(Dst), StringAt(Src), r)
         /\ r \in Int \ {NoAnswer}
<1>1. PICK D \in Nat, R \in Nat, x \in Nat, y \in Nat, k \in Nat, p \in Nat, q \in Nat :
        /\ D = Dst /\ R = Src /\ x = dst /\ y = src /\ k = src - Src /\ x = D + k /\ y = R + k
        /\ p = DstLen /\ q = SrcLen /\ k <= p /\ k <= q
        /\ End(Dst) = D + p /\ End(Src) = R + q
  <2>1. /\ src - Src \in Nat /\ src = Src + (src - Src) /\ dst = Dst + (src - Src)
        /\ src - Src <= SrcLen /\ src - Src <= DstLen
    BY Started DEF Together
  <2> QED
    BY <2>1, Started
<1>2. /\ before[x] \in Value /\ before[y] \in Value
      /\ before[x] = 0 <=> k = p
      /\ before[y] = 0 <=> k = q
  <2>1. /\ before[x] \in Value /\ before[y] \in Value
        /\ before[x] = 0 <=> x = End(Dst)
        /\ before[y] = 0 <=> y = End(Src)
    BY <1>1, AtEnd
  <2>2. (x = D + p <=> k = p) /\ (y = R + q <=> k = q)
    BY <1>1
  <2> QED
    BY <1>1, <2>1, <2>2
<1>3. PICK s \in Seq(Int) : /\ s = StringAt(Dst) /\ Len(s) = p
                            /\ \A i \in 1..p : s[i] = before[D + i - 1]
  <2>1. StringAt(Dst) \in Seq(Int)
    BY StringCells, ByteSeq DEF StringIInv
  <2> QED
    BY <1>1, <2>1, StringCells DEF DstLen, StringIInv
<1>4. PICK t \in Seq(Int) : /\ t = StringAt(Src) /\ Len(t) = q
                            /\ \A i \in 1..q : t[i] = before[R + i - 1]
  <2>1. StringAt(Src) \in Seq(Int)
    BY StringCells, ByteSeq DEF StringIInv
  <2> QED
    BY <1>1, <2>1, StringCells DEF SrcLen, StringIInv
<1>5. \A i \in 1..k : s[i] = t[i]
  <2> SUFFICES ASSUME NEW i \in 1..k PROVE s[i] = t[i]
    OBVIOUS
  <2>1. PICK j \in 0..(k - 1) : i = j + 1
    BY <1>1
  <2>2. before[D + j] = before[R + j]
    BY <1>1, <2>1 DEF Together
  <2>3. i \in 1..p /\ i \in 1..q /\ D + i - 1 = D + j /\ R + i - 1 = R + j
    BY <1>1, <2>1
  <2> QED
    BY <1>3, <1>4, <2>2, <2>3
<1>6. /\ k < p => s[k + 1] = before[x]
      /\ k < q => t[k + 1] = before[y]
  <2>1. D + (k + 1) - 1 = x /\ R + (k + 1) - 1 = y
    BY <1>1
  <2>2. (k < p => k + 1 \in 1..p) /\ (k < q => k + 1 \in 1..q)
    OBVIOUS
  <2> QED
    BY <1>3, <1>4, <2>1, <2>2
<1>7. PICK v \in 0..255, w \in 0..255 : v = before[x] /\ w = before[y]
  BY <1>2 DEF Value
<1>8. PICK e \in Int : e = r /\ e # NoAnswer /\ e = IF cut /\ k = n THEN 0 ELSE v - w
  <2>0. v - w \in Int /\ v - w >= -255 /\ 0 \in Int
    OBVIOUS
  <2>1. PICK e \in Int : e = (IF cut /\ k = n THEN 0 ELSE v - w)
    BY <2>0, Zenon
  <2>2. e # NoAnswer
    <3>1. e = 0 \/ e = v - w
      BY <2>1, Zenon
    <3>2. e >= -255
      BY <2>0, <3>1
    <3> QED
      BY <3>2 DEF NoAnswer
  <2>3. e = r
    BY <1>1, <1>7, <2>1
  <2> QED
    BY <2>1, <2>2, <2>3
<1>9. (v = 0 <=> k = p) /\ (w = 0 <=> k = q)
  BY <1>2, <1>7
<1>10. (k < p => s[k + 1] = v) /\ (k < q => t[k + 1] = w)
  BY <1>6, <1>7
<1>11. (cut /\ k = n) \/ ~(v # 0 /\ v = w)
  BY <1>1, <1>7
<1>12. CASE ~cut
  <2>1. e = v - w /\ ~(v # 0 /\ v = w)
    BY <1>8, <1>11, <1>12
  <2>2. \/ k = p /\ k = q /\ e = 0
        \/ k = p /\ k < q /\ e < 0
        \/ k < p /\ k = q /\ e > 0
        \/ k < p /\ k < q /\ v # w
    BY <1>1, <1>9, <2>1
  <2>3. \/ k = Len(s) /\ k = Len(t) /\ e = 0
        \/ k = Len(s) /\ k < Len(t) /\ e < 0
        \/ k < Len(s) /\ k = Len(t) /\ e > 0
        \/ k < Len(s) /\ k < Len(t) /\ s[k + 1] # t[k + 1] /\ e = s[k + 1] - t[k + 1]
    BY <1>3, <1>4, <1>10, <2>1, <2>2
  <2>4. k <= Len(s) /\ k <= Len(t)
    BY <1>1, <1>3, <1>4
  <2>5. Ordered(s, t, e)
    BY <1>5, <2>3, <2>4, OrderedAt
  <2> QED
    BY <1>3, <1>4, <1>8, <1>12, <2>5
<1>13. CASE cut
  <2>1. PICK ps \in Nat, qt \in Nat :
          ps = (IF n < p THEN n ELSE p) /\ qt = (IF n < q THEN n ELSE q) /\ k <= ps /\ k <= qt
    BY <1>1, <1>13
  <2>2. PICK u \in Seq(Int) : u = Start(s, n) /\ Len(u) = ps /\ \A i \in 1..ps : u[i] = s[i]
    <3>1. /\ Start(s, n) \in Seq(Int) /\ Len(Start(s, n)) = ps
          /\ \A i \in 1..ps : Start(s, n)[i] = s[i]
      BY <1>3, <2>1, StartCells
    <3> QED
      BY <3>1
  <2>3. PICK z \in Seq(Int) : z = Start(t, n) /\ Len(z) = qt /\ \A i \in 1..qt : z[i] = t[i]
    <3>1. /\ Start(t, n) \in Seq(Int) /\ Len(Start(t, n)) = qt
          /\ \A i \in 1..qt : Start(t, n)[i] = t[i]
      BY <1>4, <2>1, StartCells
    <3> QED
      BY <3>1
  <2>4. \A i \in 1..k : u[i] = z[i]
    BY <1>5, <2>1, <2>2, <2>3
  <2>5. (k < ps => u[k + 1] = v) /\ (k < qt => z[k + 1] = w)
    <3>1. ps <= p /\ qt <= q
      BY <2>1
    <3>2. (k < ps => k + 1 \in 1..ps /\ k < p) /\ (k < qt => k + 1 \in 1..qt /\ k < q)
      BY <3>1
    <3> QED
      BY <1>10, <2>2, <2>3, <3>2
  <2>6. \/ k = ps /\ k = qt /\ e = 0
        \/ k = ps /\ k < qt /\ e < 0
        \/ k < ps /\ k = qt /\ e > 0
        \/ k < ps /\ k < qt /\ v # w /\ e = v - w
    <3>1. CASE k = n
      BY <1>8, <1>13, <2>1, <3>1
    <3>2. CASE k # n
      <4>1. e = v - w /\ ~(v # 0 /\ v = w) /\ k < n
        <5>1. k <= n
          BY <1>1, <1>13
        <5>2. k < n
          BY <3>2, <5>1
        <5> QED
          BY <1>8, <1>11, <3>2, <5>2
      <4>2. (k < p <=> k < ps) /\ (k < q <=> k < qt)
        BY <2>1, <4>1
      <4> QED
        BY <1>1, <1>9, <2>1, <4>1, <4>2
    <3> QED
      BY <3>1, <3>2
  <2>7. \/ k = Len(u) /\ k = Len(z) /\ e = 0
        \/ k = Len(u) /\ k < Len(z) /\ e < 0
        \/ k < Len(u) /\ k = Len(z) /\ e > 0
        \/ k < Len(u) /\ k < Len(z) /\ u[k + 1] # z[k + 1] /\ e = u[k + 1] - z[k + 1]
    BY <2>2, <2>3, <2>5, <2>6
  <2>8. k <= Len(u) /\ k <= Len(z)
    BY <2>1, <2>2, <2>3
  <2>9. Ordered(u, z, e)
    BY <2>4, <2>7, <2>8, OrderedAt
  <2> QED
    BY <1>3, <1>4, <1>8, <1>13, <2>2, <2>3, <2>9
<1> QED
  BY <1>12, <1>13

LEMMA StrcmpStep ==
  ASSUME StringIInv, answer = NoAnswer, strcmp \/ strncmp, UNCHANGED <<before, asked>>
  PROVE  StringIInv'
<1> DEFINE cut == asked.fn = "strncmp"
<1>1. /\ asked.fn \in {"strcmp", "strncmp"} /\ UNCHANGED memory
      /\ Position /\ memory = before /\ src <= End(Src) /\ dst <= End(Dst) /\ Together
      /\ cut => Counted
  BY Started DEF strcmp, strncmp, Position, Writers
<1>2. /\ before[src] = 0 <=> src = End(Src)
      /\ before[dst] = 0 <=> dst = End(Dst)
  BY <1>1, Started, AtEnd
<1>3. cut => src - Src <= asked.n /\ (size = 0 <=> src - Src = asked.n)
  BY <1>1, Started DEF Counted
<1>4. CASE (cut => size > 0) /\ memory[dst] # 0 /\ memory[dst] = memory[src]
  <2>1. Turn(1, 1, IF cut THEN 1 ELSE 0)
    BY <1>1, <1>4 DEF strcmp, strncmp
  <2>2. Together'
    BY <1>1, <1>4, <2>1, StillTogether DEF Turn
  <2>3. src' <= End(Src) /\ dst' <= End(Dst)
    BY <1>1, <1>2, <1>4, <2>1, Started DEF Turn
  <2>4. cut => Counted'
    BY <1>1, <1>4, <2>1, Started DEF Turn, Counted
  <2>5. Position'
    BY <1>1, <2>1, <2>2, <2>3, <2>4, Unmoved DEF Turn, Position, Writers
  <2>6. (IF cut THEN 1 ELSE 0) \in Nat /\ (IF cut THEN 1 ELSE 0) <= size
    BY <1>4, Started
  <2> QED
    BY <1>1, <2>1, <2>5, <2>6, Started, ReaderTurns DEF Turn
<1>5. CASE ~((cut => size > 0) /\ memory[dst] # 0 /\ memory[dst] = memory[src])
  <2> DEFINE r == IF cut /\ src - Src = asked.n THEN 0 ELSE before[dst] - before[src]
  <2>1. Answer(r)
    BY <1>1, <1>3, <1>5, Started DEF strcmp, strncmp
  <2>2. (cut /\ src - Src = asked.n) \/ ~(before[dst] # 0 /\ before[dst] = before[src])
    BY <1>1, <1>3, <1>5, Started
  <2>3. answer' = r
    BY <2>1 DEF Answer
  <2>4. cut \in BOOLEAN
    OBVIOUS
  <2> HIDE DEF cut
  <2>5. /\ cut => Ordered(Start(StringAt(Dst), asked.n), Start(StringAt(Src), asked.n), answer')
        /\ ~cut => Ordered(StringAt(Dst), StringAt(Src), answer')
        /\ answer' \in Int \ {NoAnswer}
    BY <1>1, <1>3, <2>2, <2>3, <2>4, Started, ComparedStrings
  <2> USE DEF cut
  <2>6. AnswerWanted(answer')
    BY <1>1, <2>5 DEF AnswerWanted
  <2> QED
    BY <1>1, <2>1, <2>5, <2>6, ReaderAnswers DEF Answer, Writers
<1> QED
  BY <1>4, <1>5

LEMMA MemcmpStep ==
  ASSUME StringIInv, answer = NoAnswer, memcmp, UNCHANGED <<before, asked>>
  PROVE  StringIInv'
<1>1. /\ asked.fn = "memcmp" /\ UNCHANGED memory
      /\ Position /\ memory = before /\ Together /\ Counted
  BY Started DEF memcmp, Position, Writers
<1>2. CASE size > 0 /\ memory[dst] = memory[src]
  <2>1. Turn(1, 1, 1)
    BY <1>2 DEF memcmp
  <2>2. Together'
    BY <1>1, <1>2, <2>1, StillTogether DEF Turn
  <2>3. Counted'
    BY <1>1, <1>2, <2>1, Started DEF Turn, Counted
  <2>4. Position'
    BY <1>1, <2>1, <2>2, <2>3, Unmoved DEF Turn, Position, Writers
  <2> QED
    BY <1>1, <1>2, <2>1, <2>4, Started, ReaderTurns DEF Turn
<1>3. CASE ~(size > 0 /\ memory[dst] = memory[src])
  <2>1. Answer(IF size = 0 THEN 0 ELSE before[dst] - before[src])
    BY <1>1, <1>3 DEF memcmp
  <2>2. PICK D \in Nat, R \in Nat, k \in Nat, n \in Nat, x \in Nat, y \in Nat :
          /\ D = Dst /\ R = Src /\ n = asked.n /\ k = src - Src /\ x = dst /\ y = src
          /\ x = D + k /\ y = R + k /\ k <= n
          /\ size = 0 <=> k = n
    <3>1. /\ src - Src \in Nat /\ src = Src + (src - Src) /\ dst = Dst + (src - Src)
          /\ src - Src <= asked.n
          /\ size = 0 <=> src - Src = asked.n
      BY <1>1, Started DEF Counted, Together
    <3> QED
      BY <3>1, Started
  <2>3. PICK u \in Seq(Int) : /\ u = SubSeq(before, Dst, Dst + asked.n - 1) /\ Len(u) = n
                              /\ \A i \in 1..n : u[i] = before[D + i - 1]
    <3>1. /\ SubSeq(before, Dst, Dst + n - 1) \in Seq(Int)
          /\ Len(SubSeq(before, Dst, Dst + n - 1)) = n
          /\ \A i \in 1..n : SubSeq(before, Dst, Dst + n - 1)[i] = before[Dst + i - 1]
      BY <2>2, Bytes
    <3> QED
      BY <2>2, <3>1
  <2>4. PICK z \in Seq(Int) : /\ z = SubSeq(before, Src, Src + asked.n - 1) /\ Len(z) = n
                              /\ \A i \in 1..n : z[i] = before[R + i - 1]
    <3>1. /\ SubSeq(before, Src, Src + n - 1) \in Seq(Int)
          /\ Len(SubSeq(before, Src, Src + n - 1)) = n
          /\ \A i \in 1..n : SubSeq(before, Src, Src + n - 1)[i] = before[Src + i - 1]
      BY <2>2, Bytes
    <3> QED
      BY <2>2, <3>1
  <2>5. \A i \in 1..k : u[i] = z[i]
    <3> SUFFICES ASSUME NEW i \in 1..k PROVE u[i] = z[i]
      OBVIOUS
    <3>1. PICK j \in 0..(k - 1) : i = j + 1
      BY <2>2
    <3>2. before[D + j] = before[R + j]
      BY <1>1, <2>2, <3>1 DEF Together
    <3>3. i \in 1..n /\ D + i - 1 = D + j /\ R + i - 1 = R + j
      BY <2>2, <3>1
    <3> QED
      BY <2>3, <2>4, <3>2, <3>3
  <2>6. CASE size = 0
    <3>1. answer' = 0 /\ k = n
      BY <2>1, <2>2, <2>6 DEF Answer
    <3>2. Ordered(u, z, answer')
      <4>1. /\ k = Len(u) /\ k = Len(z) /\ k <= Len(u) /\ k <= Len(z)
            /\ 0 \in Int
        <5>1. k = Len(u) /\ k = Len(z)
          BY <2>3, <2>4, <3>1, Zenon
        <5> QED
          BY <5>1
      <4>2. Ordered(u, z, 0)
        BY <2>5, <4>1, OrderedAt
      <4> QED
        BY <3>1, <4>2
    <3>3. AnswerWanted(answer')
      BY <1>1, <2>3, <2>4, <3>2 DEF AnswerWanted
    <3>4. answer' \in Int \ {NoAnswer}
      BY <3>1 DEF NoAnswer
    <3> QED
      BY <1>1, <2>1, <3>3, <3>4, ReaderAnswers DEF Answer, Writers
  <2>7. CASE size # 0
    <3>1. before[x] \in Value /\ before[y] \in Value
      <4>1. Dst + (src - Src) = x /\ Src + (src - Src) = y /\ size > 0
        BY <2>2, <2>7, Started
      <4> QED
        BY <1>1, <4>1, CountedInside
    <3>2. PICK v \in 0..255, w \in 0..255 : v = before[x] /\ w = before[y]
      BY <3>1 DEF Value
    <3>3. k < n /\ k + 1 \in 1..n /\ D + (k + 1) - 1 = x /\ R + (k + 1) - 1 = y
      <4>1. k < n
        BY <2>2, <2>7
      <4>2. x = D + k /\ y = R + k
        BY <2>2, Zenon
      <4> QED
        BY <4>1, <4>2
    <3>4. u[k + 1] = v /\ z[k + 1] = w
      BY <2>3, <2>4, <3>2, <3>3
    <3>5. v # w
      <4>1. size > 0
        BY <2>7, Started
      <4>2. memory[dst] # memory[src]
        BY <1>3, <4>1
      <4> QED
        BY <1>1, <2>2, <3>2, <4>2, Zenon
    <3>6. answer' = v - w
      BY <2>1, <2>2, <2>7, <3>2 DEF Answer
    <3>7. PICK e \in Int : e = v - w
      OBVIOUS
    <3>8. Ordered(u, z, answer')
      <4>1. k < Len(u) /\ k < Len(z) /\ k <= Len(u) /\ k <= Len(z)
        <5>1. Len(u) = n /\ Len(z) = n /\ k < n
          BY <2>3, <2>4, <3>3
        <5> QED
          BY <2>2, <5>1
      <4>2. u[k + 1] # z[k + 1] /\ e = u[k + 1] - z[k + 1]
        BY <3>4, <3>5, <3>7, Zenon
      <4>3. Ordered(u, z, e)
        BY <2>5, <4>1, <4>2, OrderedAt
      <4> QED
        BY <3>6, <3>7, <4>3
    <3>9. AnswerWanted(answer')
      BY <1>1, <2>3, <2>4, <3>8 DEF AnswerWanted
    <3>10. answer' \in Int \ {NoAnswer}
      BY <3>6 DEF NoAnswer
    <3> QED
      BY <1>1, <2>1, <3>9, <3>10, ReaderAnswers DEF Answer, Writers
  <2> QED
    BY <2>6, <2>7
<1> QED
  BY <1>2, <1>3

-----------------------------------------------------------------------------
(* The routines that write *)

(* The source is apart from what is written, which is within the memory. *)
LEMMA RoomApart ==
  ASSUME StringIInv, answer = NoAnswer, asked.fn \in Writers
  PROVE  /\ Past \in Nat /\ From \in Nat /\ From >= Dst /\ From <= Past
         /\ Past <= Len(before) + 1 /\ Len(before) \in Nat /\ DOMAIN before = 1..Len(before)
         /\ Past <= Src \/ End(Src) < Dst
         /\ Taken \in Int /\ Taken <= SrcLen
<1>1. PICK D \in Nat, R \in Nat, p \in Nat, q \in Nat, n \in Nat, L \in Nat :
        /\ D = Dst /\ R = Src /\ p = DstLen /\ q = SrcLen /\ n = asked.n /\ L = Len(before)
        /\ End(Dst) = D + p /\ End(Src) = R + q
  BY Started, Callers DEF StringIInv
<1>2. /\ D + n <= L + 1 /\ D + (p + q + 1) <= L + 1
      /\ D + n <= R \/ R + q < D
      /\ D + (p + q + 1) <= R \/ R + q < D
  <2>1. asked.n \in Counts /\ DstLen + SrcLen + 1 = p + q + 1
    BY <1>1, Question
  <2> QED
    BY <1>1, <2>1, Callers DEF StringIInv
<1>3. PICK k \in Int : k = (IF asked.fn = "strlcpy" /\ n - 1 < q THEN n - 1 ELSE q) /\ k <= q
  <2>1. n - 1 \in Int /\ q \in Int
    OBVIOUS
  <2>2. CASE asked.fn = "strlcpy" /\ n - 1 < q
    BY <2>1, <2>2
  <2>3. CASE ~(asked.fn = "strlcpy" /\ n - 1 < q)
    BY <2>1, <2>3
  <2> QED
    BY <2>2, <2>3
<1>4. k = Taken
  BY <1>1, <1>3 DEF Taken
<1>5. \E past \in Nat, f \in Nat :
        /\ past = Past /\ f = From /\ f >= D /\ f <= past /\ past <= L + 1
        /\ past <= R \/ R + q < D
  <2>1. CASE asked.fn = "strcpy"
    <3>1. D + q + 1 = Past /\ D = From /\ D + q + 1 \in Nat
      BY <1>1, <2>1 DEF Past, From
    <3> QED
      BY <1>2, <3>1
  <2>2. CASE asked.fn = "strcat"
    <3>1. D + p + q + 1 = Past /\ D + p = From
      BY <1>1, <2>2 DEF Past, From
    <3> QED
      BY <1>2, <3>1
  <2>3. CASE asked.fn = "strncpy"
    <3>1. D + n = Past /\ D = From
      BY <1>1, <2>3 DEF Past, From
    <3> QED
      BY <1>2, <3>1
  <2>4. CASE asked.fn = "strlcpy"
    <3>1. Past = (IF n = 0 THEN D ELSE D + k + 1) /\ D = From
      BY <1>1, <1>4, <2>4 DEF Past, From
    <3>2. n # 0 => k >= 0 /\ k + 1 <= n
      BY <1>3, <2>4
    <3>3. CASE n = 0
      BY <1>2, <3>1, <3>3
    <3>4. CASE n # 0
      <4>1. D + k + 1 = Past /\ D + k + 1 \in Nat
        BY <3>1, <3>2, <3>4
      <4> QED
        BY <1>2, <3>1, <3>2, <3>4, <4>1
    <3> QED
      BY <3>3, <3>4
  <2> QED
    BY <2>1, <2>2, <2>3, <2>4 DEF Writers
<1>6. PICK past \in Nat, f \in Nat :
        /\ past = Past /\ f = From /\ f >= D /\ f <= past /\ past <= L + 1
        /\ past <= R \/ R + q < D
  BY <1>5
<1>7. DOMAIN before = 1..Len(before)
  BY Callers DEF StringIInv
<1> QED
  BY <1>1, <1>3, <1>4, <1>6, <1>7

(* The pointer src reads what the source held at the call. *)
LEMMA Intact ==
  ASSUME StringIInv, answer = NoAnswer, asked.fn \in Writers, src <= End(Src), dst <= Past,
         Changed(memory, dst)
  PROVE  memory[src] = before[src] /\ memory[src] \in Value /\ (memory[src] = 0 <=> src = End(Src))
<1>1. /\ src \in DOMAIN before /\ before[src] \in Value /\ (before[src] = 0 <=> src = End(Src))
  BY Started, AtEnd
<1>2. src \notin From..(dst - 1)
  <2>1. /\ Past \in Nat /\ From \in Nat /\ From >= Dst
        /\ Past <= Src \/ End(Src) < Dst
    BY RoomApart
  <2>2. /\ Dst \in Nat /\ Src \in Nat /\ End(Src) \in Nat /\ src \in Nat /\ src >= Src /\ dst \in Nat
    BY Started
  <2> QED
    BY <2>1, <2>2
<1>3. memory[src] = before[src]
  BY <1>1, <1>2 DEF Changed
<1> QED
  BY <1>1, <1>3

(* One more byte in its place *)
LEMMA OneMore ==
  ASSUME StringIInv, answer = NoAnswer, asked.fn \in Writers, Changed(memory, dst),
         From <= dst, dst < Past, NEW v \in Value, v = Placed(dst), Store(v)
  PROVE  /\ memory' \in [DOMAIN before -> Value]
         /\ \A a \in DOMAIN before :
               memory'[a] = IF a \in From..dst THEN Placed(a) ELSE before[a]
<1>1. memory' = [memory EXCEPT ![dst] = v] /\ memory \in [DOMAIN before -> Value]
  BY Started DEF Store
<1>2. memory' \in [DOMAIN before -> Value]
  BY <1>1
<1>3. dst \in DOMAIN before
  <2>1. Past \in Nat /\ Past <= Len(before) + 1 /\ Len(before) \in Nat /\ DOMAIN before = 1..Len(before)
    BY RoomApart
  <2>2. Dst \in Nat /\ Dst > 0 /\ dst \in Nat /\ dst >= Dst
    BY Started
  <2> QED
    BY <2>1, <2>2
<1>4. ASSUME NEW a \in DOMAIN before
      PROVE  memory'[a] = IF a \in From..dst THEN Placed(a) ELSE before[a]
  <2>1. a \in Nat
    BY RoomApart
  <2>2. CASE a = dst
    <3>1. a \in From..dst
      BY <2>2, Started, RoomApart
    <3> QED
      BY <1>1, <1>3, <2>2, <3>1
  <2>3. CASE a # dst
    <3>1. a \in From..dst <=> a \in From..(dst - 1)
      <4>1. From \in Nat /\ dst \in Nat
        BY Started, RoomApart
      <4> QED
        BY <2>1, <2>3, <4>1
    <3>2. memory'[a] = memory[a]
      BY <1>1, <2>3
    <3> QED
      BY <3>1, <3>2 DEF Changed
  <2> QED
    BY <2>2, <2>3
<1> QED
  BY <1>2, <1>4

(* The loop goes on: the byte is stored and both pointers are moved. *)
LEMMA WriterTurns ==
  ASSUME StringIInv, answer = NoAnswer, UNCHANGED <<before, asked>>, asked.fn \in Writers,
         Changed(memory, dst), From <= dst, dst < Past,
         NEW v \in Value, v = Placed(dst), Store(v), dst' = dst + 1
  PROVE  memory' \in [DOMAIN before -> Value] /\ Changed(memory, dst)' /\ dst' \in Nat /\ dst' >= Dst
<1>1. dst' - 1 = dst /\ dst' \in Nat /\ dst' >= Dst
  BY Started
<1>2. /\ memory' \in [DOMAIN before -> Value]
      /\ \A a \in DOMAIN before :
            memory'[a] = IF a \in From..(dst' - 1) THEN Placed(a) ELSE before[a]
  BY <1>1, OneMore
<1> QED
  BY <1>1, <1>2, ChangedNext DEF Changed

(* The last byte is stored and the routine returns. *)
LEMMA WriterEnds ==
  ASSUME StringIInv, answer = NoAnswer, UNCHANGED <<before, asked>>, asked.fn \in Writers,
         Changed(memory, dst), From <= dst, dst + 1 = Past,
         NEW v \in Value, v = Placed(dst), Store(v), UNCHANGED <<dst, src, size, tail>>,
         answer' \in Int \ {NoAnswer}, AnswerWanted(answer')
  PROVE  StringIInv'
<1>1. dst < Past /\ Past - 1 = dst
  BY Started
<1>2. memory' \in [DOMAIN before -> Value] /\ MemoryWanted(memory')
  BY <1>1, OneMore, PlacedAll
<1> QED
  BY <1>2, Started, Assembled

(* What is at src belongs at dst: the pointers have gone equally far. *)
LEMMA Carried ==
  ASSUME StringIInv, answer = NoAnswer, asked.fn \in Writers, asked.fn # "strncpy",
         dst - From = src - Src, Taken = SrcLen \/ src - Src < Taken, src <= End(Src)
  PROVE  before[src] = Placed(dst)
<1>1. PICK R \in Nat, q \in Nat, k \in Nat, T \in Int :
        /\ R = Src /\ q = SrcLen /\ k = src - Src /\ T = Taken /\ src = R + k
        /\ k = dst - From /\ End(Src) = R + q /\ k <= q
  <2>1. src - Src \in Nat /\ src = Src + (src - Src) /\ src - Src <= SrcLen
    BY Started
  <2> QED
    BY <2>1, Started, RoomApart
<1>2. dst - From + Src = src
  BY <1>1, Started
<1>3. CASE k < T
  BY <1>1, <1>2, <1>3 DEF Placed
<1>4. CASE ~(k < T)
  <2>1. T = q /\ k = q
    BY <1>1, <1>4
  <2>2. before[src] = 0
    BY <1>1, <2>1, Started, AtEnd
  <2> QED
    BY <1>1, <1>4, <2>2 DEF Placed
<1> QED
  BY <1>3, <1>4

(* strcpy, and strcat when it has found the end *)
LEMMA CopyStep ==
  ASSUME StringIInv, answer = NoAnswer, UNCHANGED <<before, asked>>,
         \/ asked.fn = "strcpy"
         \/ asked.fn = "strcat" /\ tail,
         Copy
  PROVE  StringIInv'
<1>1. /\ asked.fn \in {"strcpy", "strcat"} /\ asked.fn \in Writers
      /\ Position /\ Changed(memory, dst) /\ src <= End(Src)
  BY Started DEF Position, Writers
<1>2. Taken = SrcLen /\ Past = From + SrcLen + 1 /\ dst - From = src - Src
  BY <1>1, Started DEF Taken, Past, From, Position
<1>3. From <= dst /\ dst < Past /\ (dst + 1 = Past <=> src = End(Src)) /\ dst <= Past
  <2>1. PICK R \in Nat, q \in Nat, k \in Nat, f \in Nat, d \in Nat :
          /\ R = Src /\ q = SrcLen /\ src = R + k /\ End(Src) = R + q /\ k <= q
          /\ d = dst /\ f = From /\ d = f + k /\ Past = f + q + 1
    <3>1. PICK R \in Nat, q \in Nat, x \in Nat, f \in Nat, d \in Nat :
            /\ R = Src /\ q = SrcLen /\ x = src /\ End(Src) = R + q /\ x >= R /\ x <= R + q
            /\ d = dst /\ f = From
      <4>1. From \in Nat
        BY <1>1, RoomApart
      <4> QED
        BY <1>1, <4>1, Started
    <3>2. Past = f + q + 1 /\ d - f = x - R
      BY <1>2, <3>1
    <3>3. PICK k \in Nat : k = x - R
      BY <3>1
    <3>4. x = R + k /\ d = f + k /\ k <= q
      BY <3>1, <3>2, <3>3
    <3> QED
      BY <3>1, <3>2, <3>4
  <2>2. f <= d /\ d < f + q + 1 /\ (d + 1 = f + q + 1 <=> R + k = R + q) /\ d <= f + q + 1
    BY <2>1
  <2> QED
    BY <2>1, <2>2
<1>4. memory[src] = before[src] /\ memory[src] \in Value /\ (memory[src] = 0 <=> src = End(Src))
  BY <1>1, <1>3, Intact
<1>5. before[src] = Placed(dst)
  BY <1>1, <1>2, Carried
<1>6. Store(memory[src])
  BY DEF Copy
<1>7. CASE memory[src] # 0
  <2>1. Turn(1, 1, 0)
    BY <1>7 DEF Copy
  <2>2. dst' = dst + 1 /\ src' = src + 1 /\ UNCHANGED <<tail, answer>> /\ size' = size
    BY <2>1, Started DEF Turn
  <2>3. memory' \in [DOMAIN before -> Value] /\ Changed(memory, dst)' /\ dst' \in Nat /\ dst' >= Dst
    BY <1>1, <1>3, <1>4, <1>5, <1>6, <2>2, WriterTurns
  <2>4. Changed(memory', dst')
    BY <2>3, ChangedNext
  <2>5. src' \in Nat /\ src' >= Src /\ src' <= End(Src) /\ dst' - From = src' - Src
    <3>1. src # End(Src)
      BY <1>4, <1>7
    <3>2. src' \in Nat /\ src' >= Src /\ src' <= End(Src)
      BY <1>1, <2>2, <3>1, Started
    <3>3. dst' - From = src' - Src
      <4>1. PICK R \in Nat, x \in Nat, f \in Nat, d \in Nat :
              R = Src /\ x = src /\ d = dst /\ f = From
        <5>1. From \in Nat
          BY <1>1, RoomApart
        <5> QED
          BY <5>1, Started
      <4>2. d - f = x - R
        BY <1>2, <4>1
      <4>3. (d + 1) - f = (x + 1) - R
        BY <4>2
      <4> QED
        BY <2>2, <4>1, <4>3
    <3> QED
      BY <3>2, <3>3
  <2>6. Position'
    <3>1. (asked.fn = "strcpy" => dst' - Dst = src' - Src)
          /\ (asked.fn = "strcat" => dst' - End(Dst) = src' - Src /\ tail)
      BY <1>1, <2>5 DEF From
    <3> QED
      BY <1>1, <2>2, <2>3, <2>5, <3>1, Unmoved DEF Position, Writers
  <2> QED
    BY <2>2, <2>3, <2>5, <2>6, Started, Assembled
<1>8. CASE memory[src] = 0
  <2>1. Answer(Dst)
    BY <1>8 DEF Copy
  <2>2. answer' \in Int \ {NoAnswer} /\ AnswerWanted(answer')
    <3>1. answer' = Dst
      BY <2>1 DEF Answer
    <3>2. answer' \in Int \ {NoAnswer}
      BY <3>1, Started DEF NoAnswer
    <3>3. AnswerWanted(answer')
      BY <1>1, <3>1 DEF AnswerWanted
    <3> QED
      BY <3>2, <3>3
  <2> QED
    BY <1>1, <1>3, <1>4, <1>5, <1>6, <1>8, <2>1, <2>2, WriterEnds DEF Answer
<1> QED
  BY <1>7, <1>8

LEMMA StrcpyStep ==
  ASSUME StringIInv, answer = NoAnswer, strcpy, UNCHANGED <<before, asked>>
  PROVE  StringIInv'
BY CopyStep DEF strcpy

(* Nothing is written while dst walks to the end of its string. *)
LEMMA StrcatStep ==
  ASSUME StringIInv, answer = NoAnswer, strcat, UNCHANGED <<before, asked>>
  PROVE  StringIInv'
<1>1. asked.fn = "strcat" /\ Position
  BY Started DEF strcat
<1>2. CASE tail /\ Copy
  BY <1>1, <1>2, CopyStep
<1>3. CASE ~tail /\ ~(tail /\ Copy)
  <2>1. src <= End(Src) /\ Changed(memory, dst) /\ dst <= End(Dst) /\ src = Src /\ From = End(Dst)
    BY <1>1, <1>3 DEF Position, Writers, From
  <2>2. \A x \in Nat : x <= End(Dst) => ~ \E a : a \in From..(x - 1)
    BY <2>1, Started
  <2>3. memory[dst] = before[dst] /\ (memory[dst] = 0 <=> dst = End(Dst))
    <3>1. dst \in DOMAIN before /\ (before[dst] = 0 <=> dst = End(Dst))
      BY <2>1, Started, AtEnd
    <3> QED
      BY <2>1, <2>2, <3>1, Started DEF Changed
  <2>4. UNCHANGED <<memory, src, size, answer>>
    BY <1>3, Started DEF strcat, Turn
  <2>5. /\ dst' \in Nat /\ dst' >= Dst /\ dst' <= End(Dst)
        /\ tail' = FALSE \/ (tail' = TRUE /\ dst' = End(Dst))
    <3>1. CASE memory[dst] # 0 /\ Turn(1, 0, 0)
      <4>1. dst' = dst + 1 /\ tail' = tail /\ dst # End(Dst)
        BY <2>3, <3>1 DEF Turn
      <4>2. tail' = FALSE
        BY <1>3, <4>1, Started
      <4> QED
        <5>1. dst + 1 \in Nat /\ dst + 1 >= Dst /\ dst + 1 <= End(Dst)
          BY <2>1, <4>1, Started
        <5> QED
          BY <4>1, <4>2, <5>1
    <3>2. CASE memory[dst] = 0 /\ tail' = TRUE /\ dst' = dst
      BY <2>1, <2>3, <3>2, Started
    <3> QED
      BY <1>3, <3>1, <3>2 DEF strcat
  <2>6. Changed(memory', dst')
    BY <2>1, <2>2, <2>4, <2>5, Started DEF Changed
  <2>7. Position'
    <3>1. Changed(memory, dst)'
      BY <2>6, ChangedNext
    <3>2. IF tail' THEN dst' - End(Dst) = src' - Src ELSE dst' <= End(Dst) /\ src' = Src
      BY <2>1, <2>4, <2>5, Started
    <3> QED
      BY <1>1, <2>1, <2>4, <3>1, <3>2, Unmoved DEF Position, Writers
  <2>8. tail' \in BOOLEAN
    BY <2>5
  <2> QED
    BY <2>4, <2>5, <2>7, <2>8, Started, Assembled
<1> QED
  BY <1>2, <1>3 DEF strcat

(* All is written. *)
LEMMA WriterStops ==
  ASSUME StringIInv, answer = NoAnswer, UNCHANGED <<before, asked>>, Changed(memory, dst),
         dst = Past, UNCHANGED <<memory, dst, src, size, tail>>,
         answer' \in Int \ {NoAnswer}, AnswerWanted(answer')
  PROVE  StringIInv'
<1>1. MemoryWanted(memory)
  BY Started, PlacedAll DEF Changed
<1> QED
  BY <1>1, Started, Assembled

LEMMA StrncpyStep ==
  ASSUME StringIInv, answer = NoAnswer, strncpy, UNCHANGED <<before, asked>>
  PROVE  StringIInv'
<1>1. /\ asked.fn = "strncpy" /\ asked.fn \in Writers
      /\ Position /\ Changed(memory, dst) /\ src <= End(Src)
  BY Started DEF strncpy, Position, Writers
<1>2. PICK D \in Nat, R \in Nat, q \in Nat, n \in Nat, j \in Nat, x \in Nat, z \in Nat :
        /\ D = Dst /\ R = Src /\ q = SrcLen /\ n = asked.n /\ x = src /\ z = size
        /\ dst = D + j /\ j = n - z /\ End(Src) = R + q
        /\ x = R + (IF j < q THEN j ELSE q)
  <2>1. /\ dst - Dst = asked.n - size
        /\ src - Src = IF dst - Dst < SrcLen THEN dst - Dst ELSE SrcLen
    BY <1>1 DEF Position
  <2>2. PICK D \in Nat, R \in Nat, q \in Nat, n \in Nat, j \in Nat, x \in Nat, d \in Nat, z \in Nat :
          /\ D = Dst /\ R = Src /\ q = SrcLen /\ n = asked.n /\ x = src /\ z = size /\ d = dst
          /\ j = d - D /\ End(Src) = R + q
    <3>1. dst - Dst \in Nat
      BY Started
    <3> QED
      BY <3>1, Started
  <2>3. d = D + j /\ j = n - z /\ x - R = IF j < q THEN j ELSE q
    BY <2>1, <2>2
  <2>4. x = R + (IF j < q THEN j ELSE q)
    BY <2>3
  <2> QED
    BY <2>2, <2>3, <2>4
<1>3. Past = D + n /\ From = D /\ Taken = q
  BY <1>1, <1>2 DEF Past, From, Taken
<1>4. dst <= Past /\ From <= dst /\ (size > 0 => dst < Past) /\ (size = 0 => dst = Past)
  BY <1>2, <1>3
<1>5. memory[src] = before[src] /\ memory[src] \in Value /\ (memory[src] = 0 <=> src = End(Src))
  BY <1>1, <1>4, Intact
<1>6. before[src] = Placed(dst)
  <2>1. dst - From = j
    BY <1>2, <1>3
  <2>2. CASE j < q
    <3>1. src = j + R
      BY <1>2, <2>2
    <3> QED
      BY <1>2, <1>3, <2>1, <2>2, <3>1 DEF Placed
  <2>3. CASE ~(j < q)
    <3>1. src = End(Src)
      BY <1>2, <2>3
    <3> QED
      BY <1>3, <1>5, <2>1, <2>3, <3>1 DEF Placed
  <2> QED
    BY <2>2, <2>3
<1>7. CASE size > 0
  <2>1. Store(memory[src]) /\ Turn(1, IF memory[src] = 0 THEN 0 ELSE 1, 1)
    BY <1>7 DEF strncpy
  <2>2. dst' = dst + 1 /\ size' = size - 1 /\ UNCHANGED <<tail, answer>>
    BY <2>1 DEF Turn
  <2>3. src' = src + (IF j < q THEN 1 ELSE 0)
    <3>1. memory[src] = 0 <=> ~(j < q)
      BY <1>2, <1>5
    <3> QED
      BY <2>1, <3>1 DEF Turn
  <2>4. memory' \in [DOMAIN before -> Value] /\ Changed(memory, dst)' /\ dst' \in Nat /\ dst' >= Dst
    BY <1>1, <1>4, <1>5, <1>6, <1>7, <2>1, <2>2, WriterTurns
  <2>5. /\ src' \in Nat /\ src' >= Src /\ src' <= End(Src) /\ size' \in Nat
        /\ dst' - Dst = asked.n - size'
        /\ src' - Src = IF dst' - Dst < SrcLen THEN dst' - Dst ELSE SrcLen
    <3>1. src' = R + (IF j + 1 < q THEN j + 1 ELSE q)
      <4>1. src' = x + (IF j < q THEN 1 ELSE 0)
        BY <1>2, <2>3
      <4> QED
        BY <1>2, <4>1
    <3>2. dst' = D + (j + 1) /\ size' = z - 1 /\ z > 0
      BY <1>2, <1>7, <2>2
    <3>3. dst' - Dst = j + 1
      BY <1>2, <3>2
    <3>4. /\ src' \in Nat /\ src' >= R /\ src' <= R + q /\ z - 1 \in Nat
          /\ j + 1 = n - (z - 1)
          /\ src' - R = IF j + 1 < q THEN j + 1 ELSE q
      BY <1>2, <3>1, <3>2
    <3> QED
      BY <1>2, <3>2, <3>3, <3>4
  <2>6. Position'
    BY <1>1, <2>2, <2>4, <2>5, Unmoved DEF Position, Writers
  <2> QED
    BY <2>2, <2>4, <2>5, <2>6, Started, Assembled
<1>8. CASE size = 0
  <2>1. Answer(Dst) /\ UNCHANGED memory
    BY <1>8 DEF strncpy
  <2>2. answer' = Dst
    BY <2>1 DEF Answer
  <2>3. answer' \in Int \ {NoAnswer}
    BY <2>2, Started DEF NoAnswer
  <2>4. AnswerWanted(answer')
    BY <1>1, <2>2 DEF AnswerWanted
  <2> QED
    BY <1>1, <1>4, <1>8, <2>1, <2>3, <2>4, WriterStops DEF Answer
<1> QED
  BY <1>7, <1>8, Started

LEMMA StrlcpyStep ==
  ASSUME StringIInv, answer = NoAnswer, strlcpy, UNCHANGED <<before, asked>>
  PROVE  StringIInv'
<1>1. /\ asked.fn = "strlcpy" /\ asked.fn \in Writers
      /\ Position /\ Changed(memory, dst) /\ src <= End(Src)
  BY Started DEF strlcpy, Position, Writers
<1>2. PICK D \in Nat, R \in Nat, q \in Nat, n \in Nat, k \in Nat, z \in Nat :
        /\ D = Dst /\ R = Src /\ q = SrcLen /\ n = asked.n /\ z = size
        /\ dst = D + k /\ src = R + k /\ k = n - z /\ End(Src) = R + q /\ k <= q
        /\ n > 0 => z > 0
  <2>1. dst - Dst = src - Src /\ asked.n - size = src - Src /\ (asked.n > 0 => size > 0)
    BY <1>1 DEF Position, Counted
  <2>2. PICK D \in Nat, R \in Nat, q \in Nat, n \in Nat, k \in Nat, x \in Nat, d \in Nat, z \in Nat :
          /\ D = Dst /\ R = Src /\ q = SrcLen /\ n = asked.n /\ x = src /\ z = size /\ d = dst
          /\ k = x - R /\ End(Src) = R + q
    <3>1. src - Src \in Nat
      BY Started
    <3> QED
      BY <3>1, Started
  <2>3. d = D + k /\ x = R + k /\ k = n - z /\ k <= q /\ (n > 0 => z > 0)
    BY <1>1, <2>1, <2>2
  <2> QED
    BY <2>2, <2>3
<1>3. From = D
  BY <1>1, <1>2 DEF From
<1>4. dst - From = k /\ src - Src = k /\ From <= dst
  <2>1. D + k - D = k /\ R + k - R = k /\ D <= D + k
    OBVIOUS
  <2>2. dst = D + k /\ src = R + k /\ Src = R
    BY <1>2, Zenon
  <2> QED
    <3>1. dst - From = (D + k) - D /\ src - Src = (R + k) - R
      BY <1>3, <2>2
    <3>2. From <= dst
      BY <1>3, <2>1, <2>2
    <3> QED
      BY <2>1, <3>1, <3>2
<1>5. CASE size = 0
  <2>1. n = 0 /\ k = 0
    BY <1>2, <1>5
  <2>2. Past = dst
    BY <1>1, <1>2, <2>1 DEF Past
  <2>3. Answer(0) /\ UNCHANGED memory
    BY <1>5, Started DEF strlcpy
  <2>4. AnswerWanted(answer')
    BY <1>1, <1>2, <2>1, <2>3 DEF AnswerWanted, Answer
  <2>5. answer' \in Int \ {NoAnswer}
    BY <2>3 DEF Answer, NoAnswer
  <2> QED
    BY <1>1, <2>2, <2>3, <2>4, <2>5, WriterStops DEF Answer
<1>6. ASSUME n > 0
      PROVE  \E T \in Nat : /\ T = Taken /\ Past = D + T + 1 /\ k <= T
                            /\ T = (IF n - 1 < q THEN n - 1 ELSE q)
  <2>1. PICK T \in Nat : T = (IF n - 1 < q THEN n - 1 ELSE q)
    BY <1>6
  <2>2. T = Taken
    BY <1>1, <1>2, <2>1 DEF Taken
  <2>3. Past = D + T + 1
    BY <1>1, <1>2, <1>6, <2>2 DEF Past
  <2>4. k <= T
    BY <1>2, <1>6, <2>1
  <2> QED
    BY <2>1, <2>2, <2>3, <2>4
<1>7. CASE size # 0
  <2>1. z > 0 /\ n > 0
    BY <1>2, <1>7
  <2>2. PICK T \in Nat : /\ T = Taken /\ Past = D + T + 1 /\ k <= T
                         /\ T = (IF n - 1 < q THEN n - 1 ELSE q)
    BY <1>6, <2>1
  <2>3. dst <= Past /\ dst < Past /\ (k = T => dst + 1 = Past)
    <3>1. D + k <= D + T + 1 /\ D + k < D + T + 1 /\ (k = T => D + k + 1 = D + T + 1)
      BY <2>2
    <3>2. dst = D + k /\ Past = D + T + 1 /\ dst + 1 = D + k + 1
      BY <1>2, <2>2
    <3> QED
      BY <3>1, <3>2
  <2>4. memory[src] = before[src] /\ memory[src] \in Value /\ (memory[src] = 0 <=> src = End(Src))
    BY <1>1, <2>3, Intact
  <2>5. memory[src] = 0 <=> k = q
    BY <1>2, <2>4
  <2>6. CASE size > 1 /\ memory[src] # 0 /\ Store(memory[src]) /\ Turn(1, 1, 1)
    <3>1. k < T /\ k < q /\ z > 1
      BY <1>2, <2>2, <2>5, <2>6
    <3>2. before[src] = Placed(dst)
      <4>1. dst - From = src - Src /\ src - Src < Taken /\ asked.fn # "strncpy"
        BY <1>1, <1>4, <2>2, <3>1
      <4> QED
        BY <1>1, <4>1, Carried
    <3>3. dst' = dst + 1 /\ src' = src + 1 /\ size' = size - 1 /\ UNCHANGED <<tail, answer>>
      BY <2>6 DEF Turn
    <3>4. memory' \in [DOMAIN before -> Value] /\ Changed(memory, dst)' /\ dst' \in Nat /\ dst' >= Dst
      BY <1>1, <1>4, <2>3, <2>4, <2>6, <3>2, <3>3, WriterTurns
    <3>5. /\ dst' = D + (k + 1) /\ src' = R + (k + 1) /\ size' = z - 1
      <4>1. dst = D + k /\ src = R + k /\ size = z
        BY <1>2, Zenon
      <4> QED
        BY <3>3, <4>1
    <3>6. /\ src' \in Nat /\ src' >= Src /\ src' <= End(Src) /\ size' \in Nat /\ size' > 0
          /\ dst' - Dst = src' - Src /\ asked.n - size' = src' - Src
      BY <1>2, <3>1, <3>5
    <3>7. Position'
      BY <1>1, <3>3, <3>4, <3>6, Unmoved DEF Position, Writers, Counted
    <3> QED
      BY <3>3, <3>4, <3>6, <3>7, Started, Assembled
  <2>7. CASE (size = 1 \/ memory[src] = 0) /\ Store(0) /\ Answer(dst - Dst)
    <3>1. k = T
      <4>1. k = n - z /\ k <= q /\ (z = 1 \/ k = q)
        BY <1>2, <2>5, <2>7, Zenon
      <4> QED
        BY <2>1, <2>2, <4>1
    <3>2. Placed(dst) = 0 /\ 0 \in Value
      BY <1>4, <2>2, <3>1 DEF Placed, Value
    <3>3. answer' = T
      BY <1>2, <2>7, <3>1 DEF Answer
    <3>4. PICK t \in Seq(Int) : t = StringAt(Src) /\ Len(t) = q
      BY <1>2, StringCells, ByteSeq DEF SrcLen, StringIInv
    <3>5. T = Len(Start(t, n - 1))
      <4>1. n - 1 \in Nat
        BY <2>1
      <4> QED
        BY <2>2, <3>4, <4>1, StartCells
    <3>6. AnswerWanted(answer')
      <4>1. asked.n = n /\ n # 0
        BY <1>2, <2>1
      <4> QED
        BY <1>1, <3>3, <3>4, <3>5, <4>1 DEF AnswerWanted
    <3>7. answer' \in Int \ {NoAnswer}
      BY <3>3 DEF NoAnswer
    <3> QED
      BY <1>1, <1>4, <2>3, <2>7, <3>1, <3>2, <3>6, <3>7, WriterEnds DEF Answer
  <2> QED
    BY <1>7, <2>6, <2>7 DEF strlcpy
<1> QED
  BY <1>5, <1>7

-----------------------------------------------------------------------------
LEMMA StringIInvInit ==
  StringInit => StringIInv
<1> SUFFICES ASSUME StringInit PROVE StringIInv
  OBVIOUS
<1>1. /\ before \in Memories /\ memory = before
      /\ asked \in [fn : Routines, n : Counts, c : Chars]
      /\ dst = Dst /\ src = Src /\ size = asked.n /\ tail = FALSE /\ answer = NoAnswer
  BY DEF StringInit
<1>2. /\ before \in Seq(Value) /\ DOMAIN before = 1..Len(before)
      /\ Dst \in Nat /\ Src \in Nat /\ asked.n \in Nat
      /\ End(Dst) \in Dst..Len(before) /\ End(Src) \in Src..Len(before) /\ Len(before) \in Nat
  BY <1>1, Callers
<1>3. memory \in [DOMAIN before -> Value]
  BY <1>1, <1>2
<1>4. PICK D \in Nat, R \in Nat, n \in Nat, L \in Nat, d \in Nat, e \in Nat :
        /\ D = Dst /\ R = Src /\ n = asked.n /\ L = Len(before) /\ d = End(Dst) /\ e = End(Src)
        /\ D <= d /\ R <= e
  <2>1. End(Dst) \in Nat /\ End(Src) \in Nat /\ Dst <= End(Dst) /\ Src <= End(Src)
    BY <1>2
  <2> QED
    BY <1>2, <2>1
<1>5. Changed(memory, dst)
  <2>1. From \in Nat /\ From >= Dst
    BY <1>4 DEF From
  <2>2. \A a : a \notin From..(dst - 1)
    BY <1>1, <1>4, <2>1
  <2> QED
    BY <1>1, <2>2 DEF Changed
<1>6. /\ \A j : j \notin 0..(src - Src - 1)
      /\ \A a : a \notin Src..(src - 1)
      /\ dst - Dst = 0 /\ src - Src = 0 /\ asked.n - size = 0
  BY <1>1, <1>4
<1>7. Together /\ Missed /\ Counted
  BY <1>6 DEF Together, Missed, Counted
<1>8. SrcLen \in Nat /\ (IF 0 < SrcLen THEN 0 ELSE SrcLen) = 0
  BY <1>4 DEF SrcLen
<1>9. src <= End(Src) /\ dst <= End(Dst) /\ (asked.n > 0 => size > 0)
  BY <1>1, <1>4
<1>10. Position
  BY <1>1, <1>5, <1>6, <1>7, <1>8, <1>9 DEF Position
<1>11. StringsAsPromised
  BY <1>1 DEF StringsAsPromised
<1> QED
  <2>1. /\ dst \in Nat /\ dst >= Dst /\ src \in Nat /\ src >= Src /\ size \in Nat
        /\ tail \in BOOLEAN /\ answer \in Int
    <3>1. Dst >= Dst /\ Src >= Src
      BY <1>2
    <3>2. FALSE \in BOOLEAN /\ NoAnswer \in Int
      BY DEF NoAnswer
    <3> QED
      BY <1>1, <1>2, <3>1, <3>2, Zenon
  <2> QED
    BY <1>1, <1>3, <1>10, <1>11, <2>1, Zenon DEF StringIInv

LEMMA StringIInvStep ==
  StringIInv /\ [StringNext]_stringVars => StringIInv'
<1> SUFFICES ASSUME StringIInv, [StringNext]_stringVars PROVE StringIInv'
  OBVIOUS
<1>1. CASE UNCHANGED stringVars
  <2>1. UNCHANGED <<memory, before, asked, dst, src, size, tail, answer>>
    BY <1>1 DEF stringVars
  <2>2. CASE answer = NoAnswer
    <3>1. Together' <=> Together
      BY <2>1 DEF Together
    <3>2. (Missed' <=> Missed) /\ (Counted' <=> Counted)
      BY <2>1 DEF Missed, Counted
    <3>3. Changed(memory, dst)' <=> Changed(memory, dst)
      BY <2>1, ChangedNext
    <3>4. Position'
      BY <2>1, <2>2, <3>1, <3>2, <3>3, Started, Unmoved DEF Position
    <3> QED
      BY <2>1, <2>2, <3>4, Started, Assembled
  <2>3. CASE answer # NoAnswer
    BY <2>1, <2>3, Assembled DEF StringIInv, StringsAsPromised
  <2> QED
    BY <2>2, <2>3
<1>2. CASE StringNext
  <2>1. answer = NoAnswer /\ UNCHANGED <<before, asked>>
    BY <1>2 DEF StringNext
  <2>2. CASE strlen
    BY <2>1, <2>2, StrlenStep
  <2>3. CASE strnlen
    BY <2>1, <2>3, StrnlenStep
  <2>4. CASE strcpy
    BY <2>1, <2>4, StrcpyStep
  <2>5. CASE strcat
    BY <2>1, <2>5, StrcatStep
  <2>6. CASE strncpy
    BY <2>1, <2>6, StrncpyStep
  <2>7. CASE strlcpy
    BY <2>1, <2>7, StrlcpyStep
  <2>8. CASE strcmp \/ strncmp
    BY <2>1, <2>8, StrcmpStep
  <2>9. CASE strfind \/ strchr
    BY <2>1, <2>9, StrfindStep
  <2>10. CASE memcmp
    BY <2>1, <2>10, MemcmpStep
  <2>11. CASE memfind
    BY <2>1, <2>11, MemfindStep
  <2> QED
    BY <1>2, <2>2, <2>3, <2>4, <2>5, <2>6, <2>7, <2>8, <2>9, <2>10, <2>11 DEF StringNext
<1> QED
  BY <1>1, <1>2

(* Whatever the memory, the addresses, the counts and c, each of the       *)
(* twelve routines of lib/string.c leaves what its strings say and answers *)
(* it, and writes nothing else, when its callers give it room apart from   *)
(* the source.                                                             *)
THEOREM Promised ==
  StringSpec => []StringsAsPromised
<1>1. StringIInv => StringsAsPromised
  BY DEF StringIInv
<1> QED
  BY <1>1, StringIInvInit, StringIInvStep, PTL DEF StringSpec

-----------------------------------------------------------------------------
(* vsnprintf: the buffer and the format                                   *)

(* A set of naturals with a member has a least one.                        *)
LEMMA LeastMember ==
  ASSUME NEW T \in SUBSET Nat, T # {}
  PROVE  \E x \in T : \A y \in T : x <= y
<1> DEFINE Below == {ss \in Nat \X Nat : ss[1] < ss[2]}
<1>1. IsWellFoundedOn(Below, Nat)
  BY NatLessThanWellFounded DEF OpToRel
<1>2. \E x \in T : \A y \in T : <<y, x>> \notin Below
  <2> HIDE DEF Below
  <2> QED
    BY <1>1, WFMin
<1> PICK x \in T : \A y \in T : <<y, x>> \notin Below
  BY <1>2
<1>3. ASSUME NEW y \in T PROVE x <= y
  <2>1. <<y, x>> \in Nat \X Nat /\ ~(<<y, x>>[1] < <<y, x>>[2])
    OBVIOUS
  <2> QED
    BY <2>1
<1> QED
  BY <1>3

LEMMA Smaller ==
  ASSUME NEW x \in Int, NEW y \in Int
  PROVE  Min({x, y}) = IF x <= y THEN x ELSE y
<1>1. PICK z \in {x, y} : \A w \in {x, y} : z <= w
  OBVIOUS
<1>2. Min({x, y}) \in {x, y} /\ \A w \in {x, y} : Min({x, y}) <= w
  BY <1>1 DEF Min
<1> QED
  BY <1>2

(* Of the places in a bounded set there is a last one.                     *)
LEMMA LastMember ==
  ASSUME NEW k \in Nat, NEW T \in SUBSET (1..k), T # {}
  PROVE  Max(T) \in T
<1> DEFINE Back == {k - x : x \in T}
<1>1. Back \in SUBSET Nat /\ Back # {}
  <2>1. PICK x \in T : TRUE
    OBVIOUS
  <2>2. k - x \in Back
    OBVIOUS
  <2>3. \A y \in T : k - y \in Nat
    OBVIOUS
  <2> QED
    BY <2>2, <2>3
<1>2. PICK d \in Back : \A e \in Back : d <= e
  <2> HIDE DEF Back
  <2> QED
    BY <1>1, LeastMember
<1>3. PICK x \in T : d = k - x
  OBVIOUS
<1>4. \A y \in T : x >= y
  <2> TAKE y \in T
  <2>1. k - y \in Back
    OBVIOUS
  <2>2. d <= k - y /\ x \in Int /\ y \in Int
    BY <2>1, <1>2
  <2> QED
    BY <2>2, <1>3
<1> QED
  BY <1>4 DEF Max

LEMMA Remainder ==
  ASSUME NEW v \in Int, NEW m \in Nat \ {0}
  PROVE  v % m \in 0..(m - 1)
OBVIOUS

(* The characters of the callers and those that vprintfmt puts itself      *)
Words == Formats \cup Strings \cup {ErrorString[e] : e \in DOMAIN ErrorString}
Own == {"0", "1", "2", "3", "4", "5", "6", "7", "8", "9", "a", "b", "c", "d", "e", "f",
        " ", "-", "x", "X", "(", ")", "n", "u", "l", "r", "o", "?", "%"}
Letters == Own \cup UNION {ToSet(s) : s \in Words}

LEMMA DigitString == \A i \in 1..16 : Digit[i] \in Letters
<1> TAKE i \in 1..16
<1>1. i \in {1, 2, 3, 4, 5, 6, 7, 8, 9, 10, 11, 12, 13, 14, 15, 16}
  OBVIOUS
<1> QED
  <2>1. /\ Digit[1] = "0" /\ Digit[2] = "1" /\ Digit[3] = "2" /\ Digit[4] = "3"
        /\ Digit[5] = "4" /\ Digit[6] = "5" /\ Digit[7] = "6" /\ Digit[8] = "7"
        /\ Digit[9] = "8" /\ Digit[10] = "9" /\ Digit[11] = "a" /\ Digit[12] = "b"
        /\ Digit[13] = "c" /\ Digit[14] = "d" /\ Digit[15] = "e" /\ Digit[16] = "f"
    BY DEF Digit
  <2>2. /\ Digit[1] \in Own /\ Digit[2] \in Own /\ Digit[3] \in Own /\ Digit[4] \in Own
        /\ Digit[5] \in Own /\ Digit[6] \in Own /\ Digit[7] \in Own /\ Digit[8] \in Own
        /\ Digit[9] \in Own /\ Digit[10] \in Own /\ Digit[11] \in Own /\ Digit[12] \in Own
        /\ Digit[13] \in Own /\ Digit[14] \in Own /\ Digit[15] \in Own /\ Digit[16] \in Own
    BY <2>1 DEF Own
  <2>3. Digit[i] \in Own
    BY <1>1, <2>2
  <2> QED
    BY <2>3 DEF Letters

LEMMA Single ==
  ASSUME NEW S, NEW c \in S
  PROVE  <<c>> \in Seq(S)
OBVIOUS

LEMMA SixTyped ==
  ASSUME NEW S, NEW c1 \in S, NEW c2 \in S, NEW c3 \in S, NEW c4 \in S, NEW c5 \in S, NEW c6 \in S
  PROVE  <<c1, c2, c3, c4, c5, c6>> \in Seq(S)
OBVIOUS

LEMMA Joined ==
  ASSUME NEW S, NEW s \in Seq(S), NEW t \in Seq(S)
  PROVE  /\ s \o t \in Seq(S)
         /\ Len(s \o t) = Len(s) + Len(t)
         /\ \A i \in 1..(Len(s) + Len(t)) :
               (s \o t)[i] = IF i <= Len(s) THEN s[i] ELSE t[i - Len(s)]
OBVIOUS

LEMMA Repeated ==
  ASSUME NEW S, NEW c \in S, NEW k \in Int
  PROVE  Repeat(c, k) \in Seq(S) /\ Len(Repeat(c, k)) = IF k < 0 THEN 0 ELSE k
<1> DEFINE n == IF k < 0 THEN 0 ELSE k
<1>1. n \in Nat /\ 1..k = 1..n
  OBVIOUS
<1>2. Repeat(c, k) = [i \in 1..n |-> c]
  BY <1>1 DEF Repeat
<1>3. ASSUME NEW m \in Nat, NEW r, r = [i \in 1..m |-> c]
      PROVE  r \in Seq(S) /\ Len(r) = m
  BY <1>3
<1> HIDE DEF n
<1>4. Repeat(c, k) \in Seq(S) /\ Len(Repeat(c, k)) = n
  BY <1>1, <1>2, <1>3
<1> QED
  BY <1>4 DEF n

LEMMA DecimalValue ==
  ASSUME NEW c \in Decimal
  PROVE  DigitValue[c] \in 0..15
<1>1. PICK i \in 1..10 : Digit[i] = c
  BY DEF Decimal
<1>2. c \in ToSet(Digit)
  BY <1>1 DEF ToSet, Digit
<1>3. i - 1 \in 0..15 /\ Digit[(i - 1) + 1] = c
  BY <1>1
<1> QED
  BY <1>2, <1>3 DEF DigitValue

-----------------------------------------------------------------------------
(* The digits of k, from those of the numbers below it                     *)
Longer(f, base, k) == IF k >= base THEN f[k \div base] \o <<Digit[(k % base) + 1]>>
                                   ELSE <<Digit[k + 1]>>

UpTo(f, base, n) == /\ f \in [0..n -> Seq(Letters)]
                    /\ \A k \in 0..n : f[k] = Longer(f, base, k)

LEMMA Shorter ==
  ASSUME NEW base \in {10, 16}, NEW k \in Nat, k >= base
  PROVE  /\ k \div base \in Nat /\ k \div base < k
         /\ (k % base) + 1 \in 1..16
<1>1. CASE base = 10
  BY <1>1
<1>2. CASE base = 16
  BY <1>2
<1> QED
  BY <1>1, <1>2

LEMMA LongerTyped ==
  ASSUME NEW base \in {10, 16}, NEW n \in Nat, NEW f \in [0..n -> Seq(Letters)],
         NEW k \in Nat, k <= n + 1
  PROVE  Longer(f, base, k) \in Seq(Letters)
<1>1. CASE k >= base
  <2>1. k \div base \in 0..n /\ Digit[(k % base) + 1] \in Letters
    <3> DEFINE h == k \div base
               r == (k % base) + 1
    <3>1. h \in Nat /\ h < k /\ r \in 1..16
      BY <1>1, Shorter
    <3> HIDE DEF h, r
    <3>2. h \in 0..n
      BY <3>1
    <3>3. Digit[r] \in Letters
      BY <3>1, DigitString
    <3> QED
      BY <3>2, <3>3 DEF h, r
  <2>2. f[k \div base] \in Seq(Letters) /\ <<Digit[(k % base) + 1]>> \in Seq(Letters)
    BY <2>1, Single
  <2>3. f[k \div base] \o <<Digit[(k % base) + 1]>> \in Seq(Letters)
    BY <2>2, Joined
  <2> QED
    BY <1>1, <2>3 DEF Longer
<1>2. CASE k < base
  <2>1. k + 1 \in 1..16
    BY <1>2
  <2>2. Digit[k + 1] \in Letters
    BY <2>1, DigitString
  <2>3. <<Digit[k + 1]>> \in Seq(Letters)
    BY <2>2, Single
  <2> QED
    BY <1>2, <2>3 DEF Longer
<1> QED
  BY <1>1, <1>2

LEMMA DigitsAgree ==
  ASSUME NEW base \in {10, 16}, NEW m \in Nat, NEW n \in Nat,
         NEW f, NEW g, UpTo(f, base, m), UpTo(g, base, n)
  PROVE  \A k \in Nat : k <= m /\ k <= n => f[k] = g[k]
<1> DEFINE Differ == {k \in Nat : k <= m /\ k <= n /\ f[k] # g[k]}
<1> SUFFICES ASSUME Differ # {} PROVE FALSE
  OBVIOUS
<1>1. PICK k \in Differ : \A j \in Differ : k <= j
  BY LeastMember
<1>2. k \in Nat /\ k \in 0..m /\ k \in 0..n /\ f[k] # g[k]
  BY <1>1
<1>3. f[k] = Longer(f, base, k) /\ g[k] = Longer(g, base, k)
  BY <1>2 DEF UpTo
<1>4. CASE k >= base
  <2>1. k \div base \in Nat /\ k \div base < k
    BY <1>2, <1>4, Shorter
  <2>2. f[k \div base] = g[k \div base]
    <3> DEFINE h == k \div base
    <3>1. h \in Nat /\ h < k
      BY <2>1
    <3> HIDE DEF h
    <3>2. h \notin Differ
      BY <3>1, <1>1
    <3>3. f[h] = g[h]
      BY <3>1, <3>2, <1>2
    <3> QED
      BY <3>3 DEF h
  <2> QED
    BY <1>2, <1>3, <1>4, <2>2 DEF Longer
<1>5. CASE ~(k >= base)
  BY <1>2, <1>3, <1>5 DEF Longer
<1> QED
  BY <1>4, <1>5

LEMMA DigitsUpTo ==
  ASSUME NEW base \in {10, 16}
  PROVE  \A n \in Nat : \E f : UpTo(f, base, n)
<1> DEFINE Without == {n \in Nat : ~ \E f : UpTo(f, base, n)}
<1> SUFFICES ASSUME Without # {} PROVE FALSE
  OBVIOUS
<1>1. PICK n \in Without : \A m \in Without : n <= m
  BY LeastMember
<1>2. n \in Nat /\ ~ \E f : UpTo(f, base, n)
  BY <1>1
<1>3. CASE n = 0
  <2> DEFINE f == [k \in 0..n |-> <<Digit[k + 1]>>]
  <2>1. \A k \in 0..n : k < base /\ f[k] = <<Digit[k + 1]>> /\ Digit[k + 1] \in Letters
    BY <1>3, DigitString
  <2>2. UpTo(f, base, n)
    BY <2>1, <1>3 DEF UpTo, Longer
  <2> QED
    BY <2>2, <1>2
<1>4. CASE n # 0
  <2>1. n - 1 \in Nat /\ n - 1 \notin Without
    BY <1>1, <1>2, <1>4
  <2>2. PICK g : UpTo(g, base, n - 1)
    BY <2>1
  <2>3. g \in [0..(n - 1) -> Seq(Letters)]
    BY <2>2 DEF UpTo
  <2> DEFINE f == [k \in 0..n |-> Longer(g, base, k)]
  <2>4. f \in [0..n -> Seq(Letters)]
    <3>1. ASSUME NEW k \in 0..n PROVE Longer(g, base, k) \in Seq(Letters)
      <4>1. n - 1 \in Nat /\ k \in Nat /\ k <= (n - 1) + 1
        BY <2>1, <1>2
      <4> QED
        BY <4>1, <2>3, LongerTyped
    <3> QED
      BY <3>1
  <2>5. ASSUME NEW k \in 0..n PROVE f[k] = Longer(f, base, k)
    <3>1. f[k] = Longer(g, base, k)
      OBVIOUS
    <3>2. CASE k >= base
      <4> DEFINE h == k \div base
      <4>1. h \in 0..(n - 1)
        BY <3>2, Shorter, <1>2
      <4> HIDE DEF h
      <4>2. f[h] = Longer(g, base, h) /\ g[h] = Longer(g, base, h)
        BY <4>1, <2>2, <1>2 DEF UpTo
      <4>3. f[k \div base] = g[k \div base]
        BY <4>2 DEF h
      <4> HIDE DEF f
      <4> QED
        BY <3>1, <3>2, <4>3 DEF Longer
    <3>3. CASE ~(k >= base)
      <4> HIDE DEF f
      <4> QED
        BY <3>1, <3>3 DEF Longer
    <3> QED
      BY <3>2, <3>3
  <2>6. UpTo(f, base, n)
    BY <2>4, <2>5 DEF UpTo
  <2> QED
    BY <2>6, <1>2
<1> QED
  BY <1>3, <1>4

LEMMA DigitsDefined ==
  ASSUME NEW base \in {10, 16}
  PROVE  /\ Digits(base) = [k \in Nat |-> Longer(Digits(base), base, k)]
         /\ Digits(base) \in [Nat -> Seq(Letters)]
<1> DEFINE part(n) == CHOOSE f : UpTo(f, base, n)
           g == [k \in Nat |-> part(k)[k]]
<1>1. ASSUME NEW n \in Nat PROVE UpTo(part(n), base, n)
  BY DigitsUpTo
<1>2. ASSUME NEW n \in Nat, NEW k \in Nat, k <= n PROVE part(n)[k] = part(k)[k]
  <2> HIDE DEF part
  <2> QED
    BY <1>1, <1>2, DigitsAgree
<1> HIDE DEF part
<1>3. ASSUME NEW k \in Nat
      PROVE  g[k] = Longer(g, base, k) /\ g[k] \in Seq(Letters)
  <2>1. g[k] = part(k)[k] /\ UpTo(part(k), base, k)
    BY <1>1
  <2>2. part(k)[k] \in Seq(Letters) /\ part(k)[k] = Longer(part(k), base, k)
    BY <2>1 DEF UpTo
  <2>3. CASE k >= base
    <3> DEFINE h == k \div base
    <3>1. h \in Nat /\ h <= k
      BY <2>3, Shorter
    <3> HIDE DEF h
    <3>2. part(k)[h] = part(h)[h] /\ g[h] = part(h)[h]
      BY <3>1, <1>2
    <3>3. part(k)[k \div base] = g[k \div base]
      BY <3>2 DEF h
    <3> HIDE DEF g
    <3> QED
      BY <2>1, <2>2, <2>3, <3>3 DEF Longer
  <2>4. CASE ~(k >= base)
    <3> HIDE DEF g
    <3> QED
      BY <2>1, <2>2, <2>4 DEF Longer
  <2> QED
    BY <2>3, <2>4
<1>4. g = [k \in Nat |-> Longer(g, base, k)]
  BY <1>3
<1> HIDE DEF g
<1>5. Digits(base) = [k \in Nat |-> Longer(Digits(base), base, k)]
  BY <1>4, Zenon DEF Digits, Longer
<1>6. DOMAIN Digits(base) = Nat /\ \A k \in Nat : Digits(base)[k] = Longer(Digits(base), base, k)
  <2> DEFINE d == Digits(base)
  <2>1. d = [k \in Nat |-> Longer(d, base, k)]
    BY <1>5
  <2> HIDE DEF d
  <2>2. DOMAIN d = Nat /\ \A k \in Nat : d[k] = Longer(d, base, k)
    BY <2>1, Zenon
  <2> QED
    BY <2>2 DEF d
<1>7. \A k \in Nat : Digits(base)[k] \in Seq(Letters)
  <2> DEFINE d == Digits(base)
             Odd == {k \in Nat : d[k] \notin Seq(Letters)}
  <2> HIDE DEF d
  <2> SUFFICES ASSUME Odd # {} PROVE FALSE
    BY DEF d
  <2>1. PICK k \in Odd : \A j \in Odd : k <= j
    BY LeastMember
  <2>2. k \in Nat /\ d[k] \notin Seq(Letters) /\ d[k] = Longer(d, base, k)
    BY <2>1, <1>6 DEF d
  <2>3. CASE k >= base
    <3> DEFINE h == k \div base
    <3>1. h \in Nat /\ h < k /\ Digit[(k % base) + 1] \in Letters
      BY <2>2, <2>3, Shorter, DigitString
    <3>2. d[h] \in Seq(Letters)
      <4> HIDE DEF h
      <4> QED
        BY <3>1, <2>1
    <3> QED
      BY <2>2, <2>3, <3>1, <3>2 DEF Longer
  <2>4. CASE ~(k >= base)
    <3>1. k + 1 \in 1..16
      BY <2>2, <2>4
    <3>2. Digit[k + 1] \in Letters
      BY <3>1, DigitString
    <3>3. <<Digit[k + 1]>> \in Seq(Letters)
      BY <3>2, Single
    <3> QED
      BY <2>2, <2>4, <3>3 DEF Longer
  <2> QED
    BY <2>3, <2>4
<1> QED
  <2> DEFINE d == Digits(base)
  <2>1. d = [k \in Nat |-> Longer(d, base, k)] /\ \A k \in Nat : d[k] \in Seq(Letters)
    BY <1>5, <1>7
  <2> HIDE DEF d
  <2>2. d \in [Nat -> Seq(Letters)]
    BY <2>1
  <2> QED
    BY <2>1, <2>2 DEF d

-----------------------------------------------------------------------------
(* What has been put is in the buffer as far as it fits, and nothing else. *)
Buffered ==
    /\ b \in [n : BufferSizes, next : Int, cnt : Nat]
    /\ out \in Seq(Letters) /\ b.cnt = Len(out)
    /\ b.n < 1 => out = <<>>
    /\ b.next = IF b.n < 1 THEN 0 ELSE IF Len(out) <= b.n - 1 THEN Len(out) ELSE b.n - 1
    /\ buffer \in [Cells -> Letters \cup {NUL, Old}]
    /\ \A i \in Cells : buffer[i] = IF i < b.next THEN out[i + 1]
                                     ELSE IF ret # Running /\ b.n >= 1 /\ i = b.next THEN NUL
                                     ELSE Old

Answered == \/ ret = Running
            \/ ret = <<-E_INVAL>> /\ b.n < 1
            \/ ret = <<b.cnt>> /\ b.n >= 1

Escapes == [padc : Letters, width : Int, precision : Int, lflag : Nat,
            altflag : BOOLEAN, counting : BOOLEAN]

(* Within an escape its '%' lies before the next character.                *)
Reading == /\ fmt \in Formats
           /\ at \in 1..Len(fmt)
           /\ escape # None => /\ escape \in Escapes
                               /\ \E i \in 1..(at - 1) : fmt[i] = "%"

PrintIInv == Reading /\ Buffered /\ Answered

LEMMA WordTyped ==
  ASSUME NEW s \in Words
  PROVE  s \in Seq(Letters)
<1>1. s \in Seq(ToSet(s))
  BY PrintAssumption DEF Words
<1>2. ToSet(s) \subseteq Letters
  BY DEF Letters
<1> HIDE DEF Letters
<1> QED
  BY <1>1, <1>2

LEMMA FormatTyped ==
  ASSUME NEW f \in Formats
  PROVE  /\ f \in Seq(Letters) /\ Len(f) \in Nat /\ Len(f) >= 1
         /\ f[Len(f)] = NUL /\ \A i \in 1..(Len(f) - 1) : f[i] # NUL
<1>1. f \in Words
  BY DEF Words
<1>2. f \in Seq(Letters)
  BY <1>1, WordTyped
<1>3. f # <<>>
  BY PrintAssumption
<1> HIDE DEF Letters
<1>4. Len(f) >= 1
  BY <1>2, <1>3
<1> QED
  BY <1>2, <1>4, PrintAssumption

LEMMA Sizes == /\ \A n \in BufferSizes : n \in Int /\ n < LastCell
               /\ LastCell \in Nat /\ \A i \in Cells : i \in Nat
BY PrintAssumption DEF Cells

LEMMA PutBuffered ==
  ASSUME Buffered, ret = Running, ret' = Running, b.n >= 1,
         NEW s \in Seq(Letters), Put(s)
  PROVE  Buffered'
<1> USE DEF Buffered
<1> HIDE DEF Letters
<1> DEFINE n == b.n
           l == Len(out)
           k == Len(s)
           first == b.next
<1>1. n \in Int /\ n >= 1 /\ l \in Nat /\ k \in Nat /\ first \in Nat
      /\ first = IF l <= n - 1 THEN l ELSE n - 1
  <2>1. n \in BufferSizes
    OBVIOUS
  <2>2. n \in Int
    BY <2>1, Sizes
  <2>3. l \in Nat /\ k \in Nat
    OBVIOUS
  <2> QED
    BY <2>2, <2>3
<1>2. /\ out' \in Seq(Letters) /\ Len(out') = l + k
      /\ \A i \in 1..(l + k) : out'[i] = IF i <= l THEN out[i] ELSE s[i - l]
  <2>1. out' = out \o s
    BY DEF Put
  <2> QED
    BY <2>1, Joined
<1>3. b' = [b EXCEPT !.cnt = @ + k, !.next = Min({@ + k, n - 1})]
  BY DEF Put
<1>4. Min({first + k, n - 1}) = IF first + k <= n - 1 THEN first + k ELSE n - 1
  BY <1>1, Smaller
<1>5. /\ b' \in [n : BufferSizes, next : Int, cnt : Nat]
      /\ b'.n = n /\ b'.cnt = l + k
      /\ b'.next = IF l + k <= n - 1 THEN l + k ELSE n - 1
  <2>1. b' = [b EXCEPT !.cnt = @ + k, !.next = IF first + k <= n - 1 THEN first + k ELSE n - 1]
    BY <1>3, <1>4
  <2>2. b.cnt = l /\ b.cnt \in Nat
    OBVIOUS
  <2> DEFINE m == IF first + k <= n - 1 THEN first + k ELSE n - 1
             c == b.cnt + k
  <2>3. m \in Int /\ c \in Nat
    BY <1>1, <2>2
  <2>4. b \in [n : BufferSizes, next : Int, cnt : Nat] /\ b' = [b EXCEPT !.cnt = c, !.next = m]
    BY <2>1
  <2> HIDE DEF m, c
  <2>5. b' \in [n : BufferSizes, next : Int, cnt : Nat] /\ b'.n = b.n /\ b'.cnt = c /\ b'.next = m
    BY <2>3, <2>4
  <2> QED
    BY <1>1, <2>2, <2>5 DEF m, c
<1>6. buffer' = [i \in Cells |-> IF i >= first /\ i < first + k /\ i < n - 1
                                 THEN s[i - first + 1] ELSE buffer[i]]
  BY DEF Put
<1>7. ASSUME NEW i \in Cells
      PROVE  /\ buffer'[i] = IF i < b'.next THEN out'[i + 1] ELSE Old
             /\ buffer'[i] \in Letters \cup {NUL, Old}
  <2>1. i \in Nat
    BY Sizes
  <2>2. buffer'[i] = IF i >= first /\ i < first + k /\ i < n - 1
                     THEN s[i - first + 1] ELSE buffer[i]
    BY <1>6
  <2>3. buffer[i] = IF i < first THEN out[i + 1] ELSE Old
    OBVIOUS
  <2>4. CASE i < first
    BY <1>1, <1>2, <1>5, <2>1, <2>2, <2>3, <2>4
  <2>5. CASE i >= first /\ i < first + k /\ i < n - 1
    <3>1. first = l /\ i + 1 \in 1..(l + k) /\ i < b'.next
      BY <1>1, <1>5, <2>1, <2>5
    <3>2. out'[i + 1] = s[i + 1 - l] /\ i - first + 1 = i + 1 - l
      BY <1>1, <1>2, <2>1, <2>5, <3>1
    <3>3. s[i + 1 - l] \in Letters
      BY <1>1, <2>1, <2>5, <3>1
    <3> QED
      BY <2>2, <2>5, <3>1, <3>2, <3>3
  <2>6. CASE i >= first /\ ~(i < first + k /\ i < n - 1)
    BY <1>1, <1>5, <2>1, <2>2, <2>3, <2>6
  <2> QED
    BY <1>1, <2>1, <2>4, <2>5, <2>6
<1> HIDE DEF first, n, l, k
<1>8. buffer' \in [Cells -> Letters \cup {NUL, Old}]
  BY <1>6, <1>7
<1>9. b'.n >= 1
  BY <1>1, <1>5
<1> QED
  BY <1>1, <1>2, <1>5, <1>7, <1>8, <1>9

LEMMA NumberTyped ==
  ASSUME NEW num \in Nat, NEW base \in {10, 16}, NEW w \in Int, NEW c \in Letters
  PROVE  printnum(num, base, w, c) \in Seq(Letters)
<1> DEFINE digits == Digits(base)[num]
<1>1. digits \in Seq(Letters)
  <2>1. Digits(base) \in [Nat -> Seq(Letters)]
    BY DigitsDefined
  <2> QED
    BY <2>1
<1> HIDE DEF digits, Letters
<1>2. Repeat(c, w - Len(digits)) \in Seq(Letters)
  <2>1. w - Len(digits) \in Int
    BY <1>1
  <2> QED
    BY <2>1, Repeated
<1>3. Repeat(c, w - Len(digits)) \o digits \in Seq(Letters)
  BY <1>1, <1>2, Joined
<1> QED
  BY <1>3 DEF printnum, digits

LEMMA PartTyped ==
  ASSUME NEW S, NEW s \in Seq(S), NEW k \in 0..Len(s)
  PROVE  SubSeq(s, 1, k) \in Seq(S)
OBVIOUS

LEMMA PaddedTyped ==
  ASSUME NEW p \in Seq(Letters), NEW spec \in Escapes
  PROVE  Padded(p, spec) \in Seq(Letters)
<1>1. " " \in Letters
  BY DEF Letters, Own
<1> HIDE DEF Letters
<1> DEFINE part == IF spec.precision < 0 THEN p
                    ELSE SubSeq(p, 1, Min({spec.precision, Len(p)}))
           pads == spec.width - Len(part)
<1>2. spec.precision \in Int /\ spec.width \in Int /\ spec.padc \in Letters
  BY DEF Escapes
<1>3. part \in Seq(Letters)
  <2>1. CASE spec.precision < 0
    BY <2>1
  <2>2. CASE ~(spec.precision < 0)
    <3> DEFINE m == Min({spec.precision, Len(p)})
    <3>1. m = IF spec.precision <= Len(p) THEN spec.precision ELSE Len(p)
      BY <1>2, Smaller
    <3> HIDE DEF m
    <3>2. m \in 0..Len(p)
      BY <1>2, <2>2, <3>1
    <3>3. SubSeq(p, 1, m) \in Seq(Letters)
      BY <3>2, PartTyped
    <3> QED
      BY <2>2, <3>3 DEF m
  <2> QED
    BY <2>1, <2>2
<1> HIDE DEF part
<1>4. pads \in Int
  BY <1>2, <1>3
<1> HIDE DEF pads
<1>5. Repeat(spec.padc, pads) \in Seq(Letters) /\ Repeat(" ", pads) \in Seq(Letters)
  BY <1>1, <1>2, <1>4, Repeated
<1>6. /\ Repeat(spec.padc, pads) \o part \in Seq(Letters)
      /\ part \o Repeat(" ", pads) \in Seq(Letters)
  BY <1>3, <1>5, Joined
<1> QED
  BY <1>6 DEF Padded, part, pads

-----------------------------------------------------------------------------
LEMMA ReadOn ==
  ASSUME Reading
  PROVE  /\ at \in Nat /\ at \in DOMAIN fmt /\ Char \in Letters
         /\ Char # NUL => at + 1 \in 1..Len(fmt)
<1>1. /\ fmt \in Seq(Letters) /\ at \in 1..Len(fmt) /\ Len(fmt) \in Nat
      /\ fmt[Len(fmt)] = NUL
  BY FormatTyped DEF Reading
<1> HIDE DEF Letters
<1>2. at \in Nat /\ at \in DOMAIN fmt /\ fmt[at] \in Letters
  BY <1>1
<1>3. fmt[at] # NUL => at + 1 \in 1..Len(fmt)
  BY <1>1
<1> QED
  BY <1>2, <1>3 DEF Char

(* While vprintfmt puts characters it has not returned.                    *)
LEMMA PutIIInv ==
  ASSUME PrintIInv, ret = Running, b.n >= 1, NEW s \in Seq(Letters), Put(s),
         UNCHANGED <<fmt, ret>>, Reading'
  PROVE  PrintIInv'
<1>1. Buffered'
  BY PutBuffered DEF PrintIInv
<1>2. Answered'
  BY DEF Answered
<1> QED
  BY <1>1, <1>2 DEF PrintIInv

LEMMA ConvertIInv ==
  ASSUME PrintIInv, ret = Running, b.n >= 1, Char # NUL,
         NEW s \in Seq(Letters), NEW r, Convert(s, r)
  PROVE  PrintIInv'
<1>1. Reading'
  BY ReadOn DEF PrintIInv, Reading, Convert, Go
<1> QED
  BY <1>1, PutIIInv DEF Convert

LEMMA ReaderIInv ==
  ASSUME PrintIInv, ret = Running, Reading', UNCHANGED <<b, buffer, ret, out>>
  PROVE  PrintIInv'
BY DEF PrintIInv, Buffered, Answered

LEMMA RefuseIInv == PrintIInv /\ Refuse => PrintIInv'
<1> SUFFICES ASSUME PrintIInv, Refuse PROVE PrintIInv'
  OBVIOUS
<1>1. /\ ret = Running /\ b.n < 1 /\ ret' = <<-E_INVAL>>
      /\ fmt' = fmt /\ at' = at /\ escape' = escape
      /\ b' = b /\ buffer' = buffer /\ out' = out
  BY DEF Refuse
<1>2. Reading'
  BY <1>1 DEF PrintIInv, Reading
<1>3. b.n \in Int
  BY Sizes DEF PrintIInv, Buffered
<1> HIDE DEF Letters
<1>4. \A i \in Cells : buffer[i] = IF i < b.next THEN out[i + 1] ELSE Old
  BY <1>1 DEF PrintIInv, Buffered
<1>5. Buffered'
  BY <1>1, <1>3, <1>4 DEF PrintIInv, Buffered
<1>6. Answered'
  BY <1>1 DEF Answered
<1> QED
  BY <1>2, <1>5, <1>6 DEF PrintIInv

LEMMA LiteralIInv ==
  ASSUME PrintIInv, ret = Running, b.n >= 1, escape = None, Literal
  PROVE  PrintIInv'
<1>1. Char \in Letters /\ Char # NUL
  BY ReadOn DEF PrintIInv, Literal
<1>2. Reading'
  BY <1>1, ReadOn DEF PrintIInv, Reading, Literal, Go
<1>3. <<Char>> \in Seq(Letters)
  BY <1>1, Single
<1> QED
  BY <1>2, <1>3, PutIIInv DEF Literal

LEMMA PercentIInv ==
  ASSUME PrintIInv, ret = Running, b.n >= 1, escape = None, Percent
  PROVE  PrintIInv'
<1>1. Fresh \in Escapes
  BY DEF Fresh, Escapes, Letters, Own
<1>2. Char # NUL /\ Char = "%"
  BY DEF Percent, NUL
<1>3. at' = at + 1 /\ at + 1 \in 1..Len(fmt) /\ at \in Nat /\ fmt[at] = "%"
  BY <1>2, ReadOn DEF PrintIInv, Percent, Go, Char
<1>4. fmt' = fmt /\ escape' \in Escapes /\ fmt \in Formats /\ at \in 1..Len(fmt)
  BY <1>1 DEF PrintIInv, Reading, Percent
<1>5. at \in 1..(at' - 1) /\ fmt'[at] = "%"
  BY <1>3, <1>4
<1>6. Reading'
  BY <1>3, <1>4, <1>5 DEF Reading
<1> QED
  BY <1>6, ReaderIInv DEF Percent

LEMMA ReturnIInv ==
  ASSUME PrintIInv, ret = Running, b.n >= 1, escape = None, Return
  PROVE  PrintIInv'
<1> HIDE DEF Letters
<1>1. b.n \in Int /\ b.n < LastCell /\ b.n \in BufferSizes /\ Len(out) \in Nat
  BY Sizes DEF PrintIInv, Buffered
<1>2. b.next \in Cells
  BY <1>1, Sizes DEF PrintIInv, Buffered, Cells
<1>3. ret' # Running /\ ret' = <<b.cnt>>
  BY DEF Return, Running
<1>4. UNCHANGED <<fmt, at, escape, b, out>> /\ buffer' = [buffer EXCEPT ![b.next] = NUL]
  BY DEF Return
<1>5. Buffered'
  <2>1. buffer \in [Cells -> Letters \cup {NUL, Old}]
    BY DEF PrintIInv, Buffered
  <2>2. buffer' \in [Cells -> Letters \cup {NUL, Old}]
    BY <1>2, <1>4, <2>1
  <2>3. ASSUME NEW i \in Cells
        PROVE  buffer'[i] = IF i < b.next THEN out[i + 1]
                            ELSE IF i = b.next THEN NUL ELSE Old
    <3>1. buffer[i] = IF i < b.next THEN out[i + 1] ELSE Old
      BY DEF PrintIInv, Buffered
    <3>2. i \in Int /\ b.next \in Int
      BY <1>2, Sizes
    <3> QED
      BY <1>4, <2>1, <3>1, <3>2
  <2> QED
    BY <1>3, <1>4, <2>2, <2>3 DEF PrintIInv, Buffered
<1>6. Reading' /\ Answered'
  BY <1>3, <1>4 DEF PrintIInv, Reading, Answered
<1> QED
  BY <1>5, <1>6 DEF PrintIInv

(* Within an escape                                                        *)
Inside == PrintIInv /\ ret = Running /\ b.n >= 1 /\ escape # None

(* A step that reads a character of an escape keeps its '%' behind it.     *)
LEMMA FieldIInv ==
  ASSUME Inside, escape' \in Escapes, UNCHANGED <<fmt, b, buffer, ret, out>>,
         at' = at \/ (Char # NUL /\ at' = at + 1)
  PROVE  PrintIInv'
<1>1. PICK i \in 1..(at - 1) : fmt[i] = "%"
  BY DEF Inside, PrintIInv, Reading
<1>2. at \in Nat /\ at' \in 1..Len(fmt)
  BY ReadOn DEF Inside, PrintIInv, Reading
<1>3. i \in 1..(at' - 1) /\ fmt'[i] = "%"
  <2>1. at' \in Int /\ at' >= at
    BY <1>2
  <2>2. \A k \in Int : k >= at => i \in 1..(k - 1)
    BY <1>1, <1>2
  <2>3. i \in 1..(at' - 1)
    BY <2>1, <2>2
  <2> QED
    BY <1>1, <2>3
<1>4. Reading'
  BY <1>2, <1>3 DEF Inside, PrintIInv, Reading
<1> QED
  BY <1>4, ReaderIInv DEF Inside

LEMMA EscapeFields ==
  ASSUME Inside
  PROVE  /\ escape \in Escapes
         /\ escape.padc \in Letters /\ escape.width \in Int /\ escape.precision \in Int
         /\ escape.lflag \in Nat /\ escape.altflag \in BOOLEAN
BY DEF Inside, PrintIInv, Reading, Escapes

LEMMA FlagIInv ==
  ASSUME Inside, Flag
  PROVE  PrintIInv'
<1>1. Char \in Letters
  BY ReadOn DEF Inside, PrintIInv
<1> HIDE DEF Letters
<1>2. escape \in Escapes
  BY EscapeFields
<1>3. escape' \in Escapes /\ Char # NUL
  <2>1. CASE Char \in {"-", "0"} /\ escape' = [escape EXCEPT !.padc = Char]
    BY <1>1, <1>2, <2>1 DEF Escapes, NUL
  <2>2. CASE Char = "l" /\ escape' = [escape EXCEPT !.lflag = @ + 1]
    BY <1>2, <2>2 DEF Escapes, NUL
  <2>3. CASE Char = "#" /\ escape' = [escape EXCEPT !.altflag = TRUE]
    BY <1>2, <2>3 DEF Escapes, NUL
  <2>4. CASE Char = "." /\ escape' = [escape EXCEPT !.width = IF @ < 0 THEN 0 ELSE @]
    <3>1. (IF escape.width < 0 THEN 0 ELSE escape.width) \in Int
      BY EscapeFields
    <3> QED
      BY <1>2, <2>4, <3>1 DEF Escapes, NUL
  <2> QED
    BY <2>1, <2>2, <2>3, <2>4 DEF Flag
<1> QED
  BY <1>3, FieldIInv DEF Flag, Go

LEMMA FieldsTyped ==
  ASSUME NEW e \in Escapes, NEW p \in Int, NEW q \in Int
  PROVE  /\ [e EXCEPT !.precision = p] \in Escapes
         /\ [e EXCEPT !.width = p, !.precision = q] \in Escapes
<1> HIDE DEF Letters
<1>1. [e EXCEPT !.precision = p] \in Escapes
  BY Zenon DEF Escapes
<1>2. [e EXCEPT !.width = p, !.precision = q] \in Escapes
  BY Zenon DEF Escapes
<1> QED
  BY <1>1, <1>2

LEMMA PrecisionTyped ==
  ASSUME Inside, NEW p \in Int, process_precision(p)
  PROVE  escape' \in Escapes
<1>1. escape \in Escapes
  BY EscapeFields
<1> HIDE DEF Letters
<1> DEFINE read == [escape EXCEPT !.counting = FALSE]
<1>2. read \in Escapes
  BY <1>1 DEF Escapes
<1>3. \/ escape' = [read EXCEPT !.width = p, !.precision = -1]
      \/ escape' = [read EXCEPT !.precision = p]
  BY DEF process_precision
<1> HIDE DEF read
<1>4. [read EXCEPT !.width = p, !.precision = -1] \in Escapes
  <2>1. -1 \in Int
    OBVIOUS
  <2> QED
    BY <1>2, <2>1, FieldsTyped
<1>5. [read EXCEPT !.precision = p] \in Escapes
  BY <1>2, FieldsTyped
<1> QED
  BY <1>3, <1>4, <1>5

LEMMA StarIInv ==
  ASSUME Inside, Star
  PROVE  PrintIInv'
<1>1. PICK v \in StarArgs : process_precision(v)
  BY DEF Star
<1>2. v \in Int
  BY PrintAssumption
<1>3. escape' \in Escapes
  BY <1>1, <1>2, PrecisionTyped
<1> QED
  BY <1>3, FieldIInv DEF Star, Go, NUL

LEMMA WidthFieldIInv ==
  ASSUME Inside, WidthField
  PROVE  PrintIInv'
<1>1. DigitValue[Char] \in 0..15
  BY DecimalValue DEF WidthField
<1>2. Char # NUL
  <2>1. PICK i \in 1..10 : Char = Digit[i]
    BY DEF WidthField, Decimal
  <2>2. i \in {1, 2, 3, 4, 5, 6, 7, 8, 9, 10}
    OBVIOUS
  <2>3. /\ Digit[1] = "0" /\ Digit[2] = "1" /\ Digit[3] = "2" /\ Digit[4] = "3"
        /\ Digit[5] = "4" /\ Digit[6] = "5" /\ Digit[7] = "6" /\ Digit[8] = "7"
        /\ Digit[9] = "8" /\ Digit[10] = "9"
    BY DEF Digit
  <2> QED
    BY <2>1, <2>2, <2>3 DEF NUL
<1>3. escape' \in Escapes
  <2> DEFINE p == (IF escape.counting THEN escape.precision * 10 ELSE 0) + DigitValue[Char]
  <2>1. p \in Int
    BY <1>1, EscapeFields
  <2>2. escape' = [escape EXCEPT !.precision = p, !.counting = TRUE]
    BY DEF WidthField
  <2> HIDE DEF p, Letters
  <2> QED
    BY <2>1, <2>2, EscapeFields DEF Escapes
<1> QED
  BY <1>2, <1>3, FieldIInv DEF WidthField, Go

LEMMA WidthReadIInv ==
  ASSUME Inside, WidthRead
  PROVE  PrintIInv'
<1>1. escape' \in Escapes
  BY EscapeFields, PrecisionTyped DEF WidthRead
<1> QED
  BY <1>1, FieldIInv DEF WidthRead

(* v % LongRange and v % IntRange                                          *)
LEMMA ArgumentTyped ==
  ASSUME NEW v \in Int, NEW lflag
  PROVE  /\ getint(v, lflag) \in Nat /\ getuint(v, lflag) \in Nat /\ v % IntRange \in Nat
         /\ \A u \in Int : u % LongRange \in Nat
<1>1. IntRange \in Nat \ {0} /\ LongRange \in Nat \ {0}
  BY PrintAssumption
<1>2. \A u \in Int : u % LongRange \in Nat /\ u % IntRange \in Nat
  BY <1>1, Remainder
<1> QED
  BY <1>2 DEF getint, getuint

LEMMA NumberIInv ==
  ASSUME Inside, Number
  PROVE  PrintIInv'
<1>1. PICK v \in Arguments(IF Char = "p" THEN 0 ELSE escape.lflag) :
        LET signed == Char = "d"
            base == IF Char \in {"d", "u"} THEN 10 ELSE 16
            raw == CASE signed -> getint(v, escape.lflag)
                     [] Char = "p" -> v % IntRange
                     [] OTHER -> getuint(v, escape.lflag)
            negative == signed /\ raw >= LongRange \div 2
            num == IF negative THEN (-raw) % LongRange ELSE raw
            prefix == CASE negative -> <<"-">>
                        [] Char = "p" -> <<"0", "x">>
                        [] OTHER -> <<>>
            s == prefix \o printnum(num, base, escape.width, escape.padc)
        IN  /\ Char \in {"d", "u", "x", "p"}
            /\ Convert(s, [verb |-> Char, spec |-> escape, arg |-> v, text |-> s])
  BY DEF Number
<1> DEFINE signed == Char = "d"
           base == IF Char \in {"d", "u"} THEN 10 ELSE 16
           raw == CASE signed -> getint(v, escape.lflag)
                    [] Char = "p" -> v % IntRange
                    [] OTHER -> getuint(v, escape.lflag)
           negative == signed /\ raw >= LongRange \div 2
           num == IF negative THEN (-raw) % LongRange ELSE raw
           prefix == CASE negative -> <<"-">>
                       [] Char = "p" -> <<"0", "x">>
                       [] OTHER -> <<>>
           digits == printnum(num, base, escape.width, escape.padc)
<1>2. v \in Int
  BY PrintAssumption DEF Arguments
<1>3. raw \in Nat
  BY <1>2, ArgumentTyped
<1> HIDE DEF raw
<1>4. num \in Nat
  BY <1>2, <1>3, ArgumentTyped
<1> HIDE DEF num
<1>5. digits \in Seq(Letters)
  BY <1>4, EscapeFields, NumberTyped
<1>6. prefix \in Seq(Letters)
  <2>1. "-" \in Letters /\ "0" \in Letters /\ "x" \in Letters
    BY DEF Letters, Own
  <2> HIDE DEF Letters
  <2>2. <<"-">> \in Seq(Letters) /\ <<"0", "x">> \in Seq(Letters) /\ <<>> \in Seq(Letters)
    BY <2>1
  <2> HIDE DEF negative
  <2> QED
    BY <2>2
<1> HIDE DEF digits, prefix
<1>7. prefix \o digits \in Seq(Letters)
  BY <1>5, <1>6, Joined
<1>8. Char # NUL
  BY <1>1 DEF NUL
<1>9. \E r : Convert(prefix \o digits, r)
  BY <1>1 DEF prefix, digits, num, raw
<1> QED
  BY <1>7, <1>8, <1>9, ConvertIInv DEF Inside

LEMMA TextPut ==
  ASSUME Inside, Text
  PROVE  \E q \in Seq(Letters) :
           /\ Padded(q, escape) \in Seq(Letters)
           /\ Convert(Padded(q, escape),
                      [verb |-> "s", spec |-> escape, arg |-> q, text |-> Padded(q, escape)])
<1> DEFINE null == <<"(", "n", "u", "l", "l", ")">>
<1>1. PICK p \in Strings \cup {null} :
        LET q == IF escape.altflag THEN [i \in DOMAIN p |-> Visible(p[i])] ELSE p
        IN  Convert(Padded(q, escape),
                    [verb |-> "s", spec |-> escape, arg |-> q, text |-> Padded(q, escape)])
  BY DEF Text
<1> DEFINE q == IF escape.altflag THEN [i \in DOMAIN p |-> Visible(p[i])] ELSE p
<1>2. p \in Seq(Letters)
  <2>1. null \in Seq(Letters)
    <3>1. /\ "(" \in Letters /\ "n" \in Letters /\ "u" \in Letters
          /\ "l" \in Letters /\ ")" \in Letters
      BY DEF Letters, Own
    <3> HIDE DEF Letters
    <3> QED
      BY <3>1, SixTyped
  <2>2. p \in Strings => p \in Seq(Letters)
    BY WordTyped DEF Words
  <2> QED
    BY <2>1, <2>2
<1>3. q \in Seq(Letters)
  <2>1. "?" \in Letters
    BY DEF Letters, Own
  <2> HIDE DEF Letters
  <2>2. [i \in DOMAIN p |-> Visible(p[i])] \in Seq(Letters)
    BY <1>2, <2>1 DEF Visible
  <2> QED
    BY <1>2, <2>2
<1> HIDE DEF q, null
<1>4. Padded(q, escape) \in Seq(Letters)
  BY <1>3, EscapeFields, PaddedTyped
<1>5. Convert(Padded(q, escape),
              [verb |-> "s", spec |-> escape, arg |-> q, text |-> Padded(q, escape)])
  BY <1>1 DEF q
<1> QED
  BY <1>3, <1>4, <1>5

LEMMA TextIInv ==
  ASSUME Inside, Text
  PROVE  PrintIInv'
<1>1. Char # NUL
  BY DEF Text, NUL
<1> QED
  BY <1>1, TextPut, ConvertIInv DEF Inside

LEMMA ErrorIInv ==
  ASSUME Inside, Error
  PROVE  PrintIInv'
<1>1. PICK err \in 0..(MAXERROR + 1) :
        Convert(IF err \in DOMAIN ErrorString THEN ErrorString[err]
                ELSE <<"e", "r", "r", "o", "r", " ">> \o printnum(err, 10, -1, " "),
                field)
  BY DEF Error
<1>2. "e" \in Letters /\ "r" \in Letters /\ "o" \in Letters /\ " " \in Letters
  BY DEF Letters, Own
<1>3. err \in DOMAIN ErrorString => ErrorString[err] \in Seq(Letters)
  BY WordTyped DEF Words
<1> HIDE DEF Letters
<1>4. <<"e", "r", "r", "o", "r", " ">> \o printnum(err, 10, -1, " ") \in Seq(Letters)
  <2>1. printnum(err, 10, -1, " ") \in Seq(Letters)
    <3>1. err \in Nat /\ -1 \in Int /\ 10 \in {10, 16}
      BY DEF MAXERROR
    <3> QED
      BY <1>2, <3>1, NumberTyped
  <2>2. <<"e", "r", "r", "o", "r", " ">> \in Seq(Letters)
    BY <1>2, SixTyped
  <2> QED
    BY <2>1, <2>2, Joined
<1>5. Char # NUL
  BY DEF Error, NUL
<1> QED
  BY <1>1, <1>3, <1>4, <1>5, ConvertIInv DEF Inside

LEMMA PlainIInv ==
  ASSUME Inside, Plain
  PROVE  PrintIInv'
<1> DEFINE s == CASE Char = "c" -> <<"a">> [] Char = "o" -> <<"X", "X", "X">>
                  [] Char = "%" -> <<"%">>
<1>1. {"a", "X", "%"} \subseteq Letters
  BY DEF Letters, Own
<1> HIDE DEF Letters
<1>2. Char \in {"c", "o", "%"} /\ Convert(s, field)
  BY DEF Plain
<1>3. s \in Seq(Letters)
  BY <1>1, <1>2
<1>4. Char # NUL
  BY <1>2 DEF NUL
<1> HIDE DEF s
<1> QED
  BY <1>2, <1>3, <1>4, ConvertIInv DEF Inside

(* What is no escape is put from its '%' on: the next character to be read *)
(* is one that the escape has passed already, its NUL at the latest.       *)
LEMMA UnknownIInv ==
  ASSUME Inside, Unknown
  PROVE  PrintIInv'
<1> DEFINE starts == {i \in 1..(at - 1) : fmt[i] = "%"}
<1>1. at \in Nat /\ at \in 1..Len(fmt) /\ fmt \in Formats /\ Len(fmt) \in Nat
  BY ReadOn, FormatTyped DEF Inside, PrintIInv, Reading
<1>2. starts # {}
  BY DEF Inside, PrintIInv, Reading
<1>3. Max(starts) \in starts
  <2>1. at - 1 \in Nat /\ starts \in SUBSET (1..(at - 1))
    BY <1>1
  <2> HIDE DEF starts
  <2> QED
    BY <1>2, <2>1, LastMember
<1>4. Max(starts) \in 1..(at - 1)
  BY <1>3
<1> HIDE DEF starts
<1>5. at' = Max(starts) + 1 /\ fmt' = fmt /\ escape' = None /\ ret' = ret /\ Put(<<"%">>)
  BY DEF Unknown, starts
<1>6. at' \in 1..Len(fmt)
  BY <1>1, <1>4, <1>5
<1>7. Reading'
  BY <1>1, <1>5, <1>6 DEF Reading
<1>8. <<"%">> \in Seq(Letters)
  <2>1. "%" \in Letters
    BY DEF Letters, Own
  <2> QED
    BY <2>1, Single
<1> QED
  BY <1>5, <1>7, <1>8, PutIIInv DEF Inside

-----------------------------------------------------------------------------
LEMMA PrintIInvInit == PrintInit => PrintIInv
<1> SUFFICES ASSUME PrintInit PROVE PrintIInv
  OBVIOUS
<1>1. Reading
  <2>1. fmt \in Formats /\ at = 1 /\ escape = None
    BY DEF PrintInit
  <2>2. Len(fmt) \in Nat /\ Len(fmt) >= 1
    BY <2>1, FormatTyped
  <2> QED
    BY <2>1, <2>2 DEF Reading
<1>2. Buffered
  <2>1. b \in [n : BufferSizes, next : {0}, cnt : {0}] /\ out = <<>> /\ ret = Running
        /\ buffer = [i \in Cells |-> Old]
    BY DEF PrintInit
  <2>2. b \in [n : BufferSizes, next : Int, cnt : Nat] /\ b.next = 0 /\ b.cnt = 0 /\ b.n \in Int
    BY <2>1, Sizes
  <2> HIDE DEF Letters
  <2>3. out \in Seq(Letters) /\ Len(out) = 0
    BY <2>1
  <2>4. \A i \in Cells : i \in Nat
    BY Sizes
  <2> QED
    BY <2>1, <2>2, <2>3, <2>4 DEF Buffered
<1>3. Answered
  BY DEF PrintInit, Answered
<1> QED
  BY <1>1, <1>2, <1>3 DEF PrintIInv

LEMMA PrintIInvStep == PrintIInv /\ [PrintNext]_printing => PrintIInv'
<1> SUFFICES ASSUME PrintIInv, [PrintNext]_printing PROVE PrintIInv'
  OBVIOUS
<1>1. CASE Refuse
  BY <1>1, RefuseIInv
<1>2. CASE vprintfmt
  <2>1. ret = Running /\ b.n >= 1
    BY <1>2 DEF vprintfmt
  <2>2. CASE escape = None /\ (Literal \/ Percent \/ Return)
    BY <2>1, <2>2, LiteralIInv, PercentIInv, ReturnIInv
  <2>3. CASE escape # None /\ (WidthField \/ WidthRead)
    BY <2>1, <2>3, WidthFieldIInv, WidthReadIInv DEF Inside
  <2>4. CASE /\ escape # None
             /\ Flag \/ Star \/ Number \/ Text \/ Error \/ Plain \/ Unknown
    <3>1. Inside
      BY <2>1, <2>4 DEF Inside
    <3> QED
      BY <2>4, <3>1, FlagIInv, StarIInv, NumberIInv, TextIInv, ErrorIInv, PlainIInv, UnknownIInv
  <2> QED
    BY <1>2, <2>2, <2>3, <2>4 DEF vprintfmt
<1>3. CASE UNCHANGED printing
  BY <1>3 DEF printing, PrintIInv, Reading, Buffered, Answered
<1> QED
  BY <1>1, <1>2, <1>3 DEF PrintNext

THEOREM PrintInvariant == PrintSpec => []PrintIInv
<1> QED
  BY PrintIInvInit, PrintIInvStep, PTL DEF PrintSpec

LEMMA BufferContract == PrintIInv => SnprintfContract
<1> SUFFICES ASSUME PrintIInv PROVE SnprintfContract
  OBVIOUS
<1> HIDE DEF Letters
<1>1. b.n \in Int /\ Len(out) \in Nat /\ b.next \in Int /\ b.cnt = Len(out)
      /\ b.n < LastCell /\ LastCell \in Nat
      /\ b.next = IF b.n < 1 THEN 0 ELSE IF Len(out) <= b.n - 1 THEN Len(out) ELSE b.n - 1
  BY Sizes DEF PrintIInv, Buffered
<1>2. \A i \in Cells :
        i \in Nat /\ buffer[i] = IF i < b.next THEN out[i + 1]
                                 ELSE IF ret # Running /\ b.n >= 1 /\ i = b.next THEN NUL
                                 ELSE Old
  BY Sizes DEF PrintIInv, Buffered
<1>3. ASSUME NEW i \in Cells, i >= b.n PROVE buffer[i] = Old
  BY <1>1, <1>2, <1>3
<1>4. ASSUME ret # Running, b.n < 1 PROVE ret = <<-E_INVAL>>
  BY <1>1, <1>4 DEF PrintIInv, Answered
<1>5. ASSUME ret # Running, ~(b.n < 1)
      PROVE  LET kept == Min({Len(out), b.n - 1})
             IN  /\ ret = <<Len(out)>>
                 /\ \A i \in 0..(kept - 1) : buffer[i] = out[i + 1]
                 /\ buffer[kept] = NUL
  <2> DEFINE kept == Min({Len(out), b.n - 1})
  <2>1. kept = b.next
    BY <1>1, <1>5, Smaller
  <2> HIDE DEF kept
  <2>2. ret = <<Len(out)>>
    BY <1>1, <1>5 DEF PrintIInv, Answered
  <2>3. b.next \in Cells /\ \A i \in 0..(b.next - 1) : i \in Cells /\ i < b.next
    BY <1>1, <1>5 DEF Cells
  <2>4. \A i \in 0..(b.next - 1) : buffer[i] = out[i + 1]
    BY <1>2, <2>3
  <2>5. buffer[b.next] = NUL
    BY <1>1, <1>2, <1>5, <2>3
  <2> QED
    BY <2>1, <2>2, <2>4, <2>5 DEF kept
<1> QED
  BY <1>3, <1>4, <1>5 DEF SnprintfContract

(* Whatever the format, the arguments and the size of the buffer,          *)
(* vsnprintf writes nothing at or behind buf + n, leaves the start of the  *)
(* text and a NUL, and returns the whole text's length.                    *)
THEOREM BufferKept == PrintSpec => []SnprintfContract
<1> QED
  BY PrintInvariant, BufferContract, PTL

(* No format that ends in a NUL makes vprintfmt read behind it, one that   *)
(* ends within an escape included.                                         *)
THEOREM FormatRead == PrintSpec => []FormatKept
<1>1. PrintIInv => FormatKept
  BY ReadOn DEF PrintIInv, FormatKept
<1> QED
  BY <1>1, PrintInvariant, PTL

-----------------------------------------------------------------------------
(* The fields of strings                                                   *)
LEMMA Larger ==
  ASSUME NEW x \in Int, NEW y \in Int
  PROVE  Max({x, y}) = IF x >= y THEN x ELSE y
<1>1. PICK z \in {x, y} : \A w \in {x, y} : z >= w
  OBVIOUS
<1>2. Max({x, y}) \in {x, y} /\ \A w \in {x, y} : Max({x, y}) >= w
  BY <1>1 DEF Max
<1> QED
  BY <1>2

LEMMA Piece ==
  ASSUME NEW S, NEW s \in Seq(S), NEW m \in Nat, NEW k \in Nat, m + k <= Len(s)
  PROVE  /\ SubSeq(s, m + 1, m + k) \in Seq(S)
         /\ Len(SubSeq(s, m + 1, m + k)) = k
         /\ \A i \in 1..k : SubSeq(s, m + 1, m + k)[i] = s[m + i]
OBVIOUS

LEMMA SameSeq ==
  ASSUME NEW S, NEW s \in Seq(S), NEW t \in Seq(S), Len(s) = Len(t),
         \A i \in 1..Len(s) : s[i] = t[i]
  PROVE  s = t
OBVIOUS

LEMMA Pieces ==
  ASSUME NEW S, NEW s \in Seq(S), NEW t \in Seq(S)
  PROVE  /\ SubSeq(s \o t, Len(s) + 1, Len(s) + Len(t)) = t
         /\ SubSeq(s \o t, 0 + 1, 0 + Len(s)) = s
<1> DEFINE u == s \o t
           m == Len(s)
           k == Len(t)
<1>1. /\ u \in Seq(S) /\ Len(u) = m + k /\ m \in Nat /\ k \in Nat
      /\ \A i \in 1..(m + k) : u[i] = IF i <= m THEN s[i] ELSE t[i - m]
  BY Joined
<1> HIDE DEF u
<1>2. SubSeq(u, m + 1, m + k) = t
  <2> DEFINE v == SubSeq(u, m + 1, m + k)
  <2>1. v \in Seq(S) /\ Len(v) = k /\ \A i \in 1..k : v[i] = u[m + i]
    BY <1>1, Piece
  <2> HIDE DEF v
  <2>2. ASSUME NEW i \in 1..k PROVE v[i] = t[i]
    <3>1. m + i \in 1..(m + k) /\ ~(m + i <= m) /\ (m + i) - m = i
      BY <1>1
    <3> QED
      BY <1>1, <2>1, <3>1
  <2>3. v = t
    BY <2>1, <2>2, SameSeq
  <2> QED
    BY <2>3 DEF v
<1>3. SubSeq(u, 0 + 1, 0 + m) = s
  <2> DEFINE v == SubSeq(u, 0 + 1, 0 + m)
  <2>1. v \in Seq(S) /\ Len(v) = m /\ \A i \in 1..m : v[i] = u[0 + i]
    BY <1>1, Piece
  <2> HIDE DEF v
  <2>2. ASSUME NEW i \in 1..m PROVE v[i] = s[i]
    <3>1. 0 + i = i /\ i \in 1..(m + k) /\ i <= m
      BY <1>1
    <3> QED
      BY <1>1, <2>1, <3>1
  <2>3. v = s
    BY <2>1, <2>2, SameSeq
  <2> QED
    BY <2>3 DEF v
<1> QED
  BY <1>2, <1>3 DEF u

(* t shows the first k characters of p.                                    *)
Shows(t, p, k) == \E i \in 0..(Len(t) - k) : SubSeq(t, i + 1, i + k) = SubSeq(p, 1, k)

LEMMA Around ==
  ASSUME NEW S, NEW part \in Seq(S), NEW r \in Seq(S), NEW p, part = SubSeq(p, 1, Len(part))
  PROVE  /\ Len(r \o part) = Len(r) + Len(part) /\ Shows(r \o part, p, Len(part))
         /\ Len(part \o r) = Len(r) + Len(part) /\ Shows(part \o r, p, Len(part))
<1> DEFINE k == Len(part)
           l == Len(r)
           u == r \o part
           v == part \o r
<1>1. k \in Nat /\ l \in Nat
  OBVIOUS
<1>2. Len(u) = l + k /\ Len(v) = k + l
  BY Joined
<1>3. SubSeq(u, l + 1, l + k) = part /\ SubSeq(v, 0 + 1, 0 + k) = part
  BY Pieces
<1>4. part = SubSeq(p, 1, k)
  OBVIOUS
<1> HIDE DEF k, l, u, v
<1>5. l \in 0..(Len(u) - k) /\ 0 \in 0..(Len(v) - k) /\ k + l = l + k
  BY <1>1, <1>2
<1>6. Shows(u, p, k) /\ Shows(v, p, k)
  BY <1>3, <1>4, <1>5 DEF Shows
<1> QED
  BY <1>2, <1>5, <1>6 DEF k, l, u, v

LEMMA PaddedShows ==
  ASSUME NEW p \in Seq(Letters), NEW spec \in Escapes
  PROVE  LET k == IF spec.precision < 0 THEN Len(p) ELSE Min({spec.precision, Len(p)})
         IN  Len(Padded(p, spec)) = Max({spec.width, k}) /\ Shows(Padded(p, spec), p, k)
<1> DEFINE k == IF spec.precision < 0 THEN Len(p) ELSE Min({spec.precision, Len(p)})
           part == IF spec.precision < 0 THEN p ELSE SubSeq(p, 1, Min({spec.precision, Len(p)}))
           pads == spec.width - Len(part)
<1>1. " " \in Letters
  BY DEF Letters, Own
<1> HIDE DEF Letters
<1>2. /\ spec.precision \in Int /\ spec.width \in Int /\ spec.padc \in Letters
      /\ Len(p) \in Nat
  BY DEF Escapes
<1>3. k \in 0..Len(p)
  BY <1>2, Smaller
<1>4. part = SubSeq(p, 1, k)
  <2>1. CASE spec.precision < 0
    <3>1. SubSeq(p, 1, Len(p)) = p
      <4>1. /\ SubSeq(p, 0 + 1, 0 + Len(p)) \in Seq(Letters)
            /\ Len(SubSeq(p, 0 + 1, 0 + Len(p))) = Len(p)
            /\ \A i \in 1..Len(p) : SubSeq(p, 0 + 1, 0 + Len(p))[i] = p[0 + i]
        BY <1>2, Piece
      <4>2. 0 + 1 = 1 /\ 0 + Len(p) = Len(p) /\ \A i \in 1..Len(p) : 0 + i = i
        BY <1>2
      <4> DEFINE v == SubSeq(p, 1, Len(p))
      <4>3. v \in Seq(Letters) /\ Len(v) = Len(p) /\ \A i \in 1..Len(v) : v[i] = p[i]
        BY <4>1, <4>2
      <4> HIDE DEF v
      <4>4. v = p
        BY <4>3, SameSeq
      <4> QED
        BY <4>4 DEF v
    <3> QED
      BY <2>1, <3>1
  <2>2. CASE ~(spec.precision < 0)
    BY <2>2
  <2> QED
    BY <2>1, <2>2
<1> HIDE DEF k
<1>5. part \in Seq(Letters) /\ Len(part) = k
  <2>1. 0 \in Nat /\ k \in Nat /\ 0 + k <= Len(p) /\ 0 + 1 = 1 /\ 0 + k = k
    BY <1>2, <1>3
  <2>2. /\ SubSeq(p, 0 + 1, 0 + k) \in Seq(Letters)
        /\ Len(SubSeq(p, 0 + 1, 0 + k)) = k
    BY <2>1, Piece
  <2> HIDE DEF part
  <2> QED
    BY <1>4, <2>1, <2>2
<1>6. Padded(p, spec) = IF spec.padc # "-" THEN Repeat(spec.padc, pads) \o part
                                           ELSE part \o Repeat(" ", pads)
  BY DEF Padded
<1> HIDE DEF part
<1>7. pads = spec.width - k /\ pads \in Int /\ k \in Nat
  BY <1>2, <1>3, <1>5
<1> HIDE DEF pads
<1> DEFINE l == IF pads < 0 THEN 0 ELSE pads
<1>8. l \in Nat /\ l + k = IF spec.width >= k THEN spec.width ELSE k
  BY <1>2, <1>7
<1> HIDE DEF l
<1>9. Max({spec.width, k}) = l + k
  BY <1>2, <1>7, <1>8, Larger
<1>10. ASSUME NEW c \in Letters
       PROVE  Repeat(c, pads) \in Seq(Letters) /\ Len(Repeat(c, pads)) = l
  BY <1>7, Repeated DEF l
<1>11. ASSUME NEW r \in Seq(Letters), Len(r) = l
       PROVE  /\ Len(r \o part) = l + k /\ Shows(r \o part, p, k)
              /\ Len(part \o r) = l + k /\ Shows(part \o r, p, k)
  <2>1. l = Len(r) /\ k = Len(part) /\ part = SubSeq(p, 1, k)
    BY <1>4, <1>5, <1>11
  <2> QED
    BY <1>5, <2>1, Around
<1>12. CASE spec.padc # "-"
  BY <1>2, <1>6, <1>9, <1>10, <1>11, <1>12 DEF k
<1>13. CASE ~(spec.padc # "-")
  BY <1>1, <1>6, <1>9, <1>10, <1>11, <1>13 DEF k
<1> QED
  BY <1>12, <1>13

(* The last string's field is what Padded makes of its argument.           *)
FieldShown == field.verb = "s" => /\ field.spec \in Escapes /\ field.arg \in Seq(Letters)
                                 /\ field.text = Padded(field.arg, field.spec)

LEMMA FieldStep == PrintIInv /\ FieldShown /\ [PrintNext]_printing => FieldShown'
<1> SUFFICES ASSUME PrintIInv, FieldShown, [PrintNext]_printing, field' # field PROVE FieldShown'
  BY DEF FieldShown
<1>1. Inside /\ (Number \/ Text \/ Error \/ Plain)
  BY DEF PrintNext, printing, Refuse, vprintfmt, Inside, Literal, Percent, Return, WidthField,
         WidthRead, Flag, Star, Unknown
<1>2. CASE Number
  <2>1. PICK v, t : field' = [verb |-> Char, spec |-> escape, arg |-> v, text |-> t]
                    /\ Char \in {"d", "u", "x", "p"}
    BY <1>2 DEF Number, Convert
  <2>2. field'.verb # "s"
    BY <2>1
  <2> QED
    BY <2>2 DEF FieldShown
<1>3. CASE Text
  <2>1. PICK q \in Seq(Letters) :
          field' = [verb |-> "s", spec |-> escape, arg |-> q, text |-> Padded(q, escape)]
    BY <1>1, <1>3, TextPut DEF Convert
  <2>2. escape \in Escapes
    BY <1>1, EscapeFields
  <2> HIDE DEF Letters
  <2> QED
    BY <2>1, <2>2 DEF FieldShown
<1>4. CASE Error
  BY <1>4 DEF Error, Convert
<1>5. CASE Plain
  BY <1>5 DEF Plain, Convert
<1> QED
  BY <1>1, <1>2, <1>3, <1>4, <1>5

(* A string's field is padded to its width around what its precision shows *)
(* of it, for every string, width and precision, '-' or another padding.   *)
THEOREM StringsFielded == PrintSpec => []StringFields
<1>1. PrintInit => FieldShown
  BY DEF PrintInit, FieldShown, None
<1>2. FieldShown => StringFields
  BY PaddedShows DEF FieldShown, StringFields, Shows
<1> QED
  BY <1>1, <1>2, FieldStep, PrintInvariant, PTL DEF PrintSpec
=============================================================================
