---------------------------- MODULE PuzzleProofs ----------------------------
(***************************************************************************)
(* Theorems about the puzzle for every picture, block and screen size: its *)
(* blocks stay a permutation, and the game ends exactly when it is solved. *)
(*                                                                         *)
(* check_valid only compares neighbours.  That this is enough rests on two *)
(* facts: the blocks are a permutation, kept by every exchange (Swap is in *)
(* bounds because the cursor and the selection are), and a permutation     *)
(* whose neighbours ascend is the identity (AscendingIsSolved).            *)
(***************************************************************************)
EXTENDS Puzzle, TLAPS, WellFoundedInduction

(* A set of naturals with a member has a least one.                        *)
LEMMA LeastMember ==
  ASSUME NEW T \in SUBSET Nat, T # {}
  PROVE  \E x \in T : \A y \in T : x <= y
<1> DEFINE Below == {ss \in Nat \X Nat : ss[1] < ss[2]}
<1>1. IsWellFoundedOn(Below, Nat)
  BY NatLessThanWellFounded DEF OpToRel
<1>2. \E x \in T : \A y \in T : <<y, x>> \notin Below
  <2> HIDE DEF Below
  <2> QED
    BY <1>1, WFMin
<1> PICK x \in T : \A y \in T : <<y, x>> \notin Below
  BY <1>2
<1>3. ASSUME NEW y \in T PROVE x <= y
  <2>1. <<y, x>> \in Nat \X Nat /\ ~(<<y, x>>[1] < <<y, x>>[2])
    OBVIOUS
  <2> QED
    BY <2>1
<1> QED
  BY <1>3

IInv == TypeOK /\ BlocksPermuted /\ EndsWhenSolved

-----------------------------------------------------------------------------
(* The numbers of blocks are positive.                                     *)
LEMMA Sizes == /\ NrBlockH \in Nat /\ NrBlockH > 0
               /\ NrBlockV \in Nat /\ NrBlockV > 0
               /\ NrBlock \in Nat /\ NrBlock > 0
<1>1. NrBlockH \in Nat /\ NrBlockV \in Nat
  BY PuzzleAssumption, SMT DEF NrBlockH, NrBlockV
<1>2. NrBlockH # 0 /\ NrBlockV # 0
  BY <1>1, PuzzleAssumption, SMT DEF NrBlock
<1>3. NrBlock \in Nat
  BY <1>1, SMT DEF NrBlock
<1> QED
  BY <1>1, <1>2, <1>3, PuzzleAssumption

(* A column and a row make a place.                                        *)
LEMMA PlaceInRange ==
  ASSUME NEW x \in 0..(NrBlockH - 1), NEW y \in 0..(NrBlockV - 1)
  PROVE  y * NrBlockH + x \in Places
<1> USE Sizes
<1> DEFINE h == NrBlockH
           v == NrBlockV
<1>1. h \in Nat /\ v \in Nat /\ x \in Int /\ y \in Int
  OBVIOUS
<1>2. 0 <= x /\ x <= h - 1 /\ 0 <= y /\ y <= v - 1
  OBVIOUS
<1> HIDE DEF h, v
<1>3. y * h >= 0
  BY <1>1, <1>2, SMT
<1>4. (v - 1 - y) * h >= 0
  BY <1>1, <1>2, SMT
<1>5. (v - 1 - y) * h = h * v - h - y * h
  BY <1>1, SMT
<1>6. y * h + x \in 0..(h * v - 1)
  BY <1>1, <1>2, <1>3, <1>4, <1>5, SMT
<1> QED
  BY <1>6 DEF h, v, Places, NrBlock

(* A permutation of the places whose neighbours ascend is the identity:    *)
(* the least place with a smaller block would have a predecessor with too  *)
(* large a block, and so on from the other end.                            *)
LEMMA AscendingIsSolved ==
  ASSUME block \in [Places -> Places], BlocksPermuted, InOrder
  PROVE  Solved
<1> USE Sizes
<1> DEFINE n == NrBlock
<1>1. n \in Nat /\ n > 0 /\ Places = 0..(n - 1)
  BY DEF Places
<1>2. \A i \in Places : block[i] \in Int /\ 0 <= block[i] /\ block[i] <= n - 1
  BY <1>1
<1>3. ASSUME NEW i \in Places, i + 1 \in Places PROVE block[i] < block[i + 1]
  <2>1. i \in 0..(NrBlock - 2) /\ i # i + 1
    BY <1>1, <1>3
  <2>2. block[i] <= block[i + 1] /\ block[i] # block[i + 1]
    BY <1>3, <2>1 DEF InOrder, BlocksPermuted
  <2> QED
    BY <1>2, <1>3, <2>2
<1> HIDE DEF n
<1>4. ASSUME NEW i \in Places PROVE block[i] >= i
  <2> DEFINE S == {k \in Places : block[k] < k}
  <2>1. ASSUME S # {} PROVE FALSE
    <3>1. S \in SUBSET Nat
      BY <1>1
    <3>2. PICK m \in S : \A k \in S : m <= k
      <4> HIDE DEF S
      <4> QED
        BY <2>1, <3>1, LeastMember
    <3>3. m - 1 \in Places /\ m - 1 + 1 = m
      BY <1>1, <1>2, <3>2
    <3>4. block[m - 1] >= m - 1
      BY <1>1, <1>2, <3>2, <3>3
    <3>5. block[m - 1] < block[m]
      BY <1>3, <3>2, <3>3
    <3> QED
      BY <1>1, <1>2, <3>2, <3>3, <3>4, <3>5
  <2> QED
    BY <1>1, <1>2, <2>1
<1>5. ASSUME NEW i \in Places PROVE block[i] <= i
  <2> DEFINE S == {k \in Places : block[n - 1 - k] > n - 1 - k}
  <2>1. ASSUME S # {} PROVE FALSE
    <3>1. S \in SUBSET Nat
      BY <1>1
    <3>2. PICK m \in S : \A k \in S : m <= k
      <4> HIDE DEF S
      <4> QED
        BY <2>1, <3>1, LeastMember
    <3>3. /\ n - 1 - m \in Places
          /\ block[n - 1 - m] > n - 1 - m
          /\ m \in Places
      BY <1>1, <3>2
    <3>4. m > 0
      BY <1>1, <1>2, <3>3
    <3>5. m - 1 \in Places /\ n - 1 - (m - 1) = n - 1 - m + 1 /\ n - 1 - m + 1 \in Places
      BY <1>1, <3>3, <3>4
    <3>6. block[n - 1 - m + 1] <= n - 1 - m + 1
      <4>1. m - 1 \notin S
        <5>1. m \in Int
          BY <1>1, <3>3
        <5> HIDE DEF S
        <5> QED
          BY <3>2, <5>1
      <4>2. ~(block[n - 1 - (m - 1)] > n - 1 - (m - 1))
        BY <3>5, <4>1
      <4>3. ~(block[n - 1 - m + 1] > n - 1 - m + 1)
        BY <3>5, <4>2
      <4> QED
        BY <1>1, <1>2, <3>3, <3>5, <4>3
    <3>7. block[n - 1 - m] < block[n - 1 - m + 1]
      BY <1>3, <3>3, <3>5
    <3> QED
      BY <1>1, <1>2, <3>3, <3>5, <3>6, <3>7
  <2>2. n - 1 - i \in Places /\ n - 1 - (n - 1 - i) = i
    BY <1>1
  <2>3. n - 1 - i \notin S
    BY <2>1
  <2>4. ~(block[n - 1 - (n - 1 - i)] > n - 1 - (n - 1 - i))
    BY <2>2, <2>3
  <2>5. ~(block[i] > i)
    BY <2>2, <2>4
  <2> QED
    BY <1>1, <1>2, <2>5
<1>6. ASSUME NEW i \in Places PROVE block[i] = i
  BY <1>1, <1>2, <1>4, <1>5
<1> QED
  BY <1>6 DEF Solved

(* A solved puzzle passes check_valid.                                     *)
LEMMA SolvedIsInOrder == Solved => InOrder
BY Sizes DEF Solved, InOrder, Places

(* game_mainloop starts with the blocks in reverse order.                  *)
LEMMA InitIInv == Init => IInv
<1> SUFFICES ASSUME Init PROVE IInv
  OBVIOUS
<1>1. \A i \in Places : block[i] = NrBlock - 1 - i /\ NrBlock - 1 - i \in Places
  BY Sizes DEF Init, Places
<1>2. TypeOK
  BY <1>1, Sizes DEF Init, TypeOK
<1>3. BlocksPermuted
  BY <1>1, Sizes DEF BlocksPermuted, Places
<1> QED
  BY <1>2, <1>3 DEF IInv, EndsWhenSolved, Init

(* update_game_state for the space bar: the exchange is within the array   *)
(* and keeps the permutation.                                              *)
LEMMA SpaceIInv == IInv /\ Space => IInv'
<1> SUFFICES ASSUME IInv, Space PROVE IInv'
  OBVIOUS
<1>1. pc' = "frame" /\ UNCHANGED <<cursor, screen>>
  BY DEF Space
<1>2. CASE Select
  <2>1. TypeOK'
    BY <1>1, <1>2 DEF IInv, TypeOK, Select, cursor
  <2>2. BlocksPermuted'
    BY <1>2 DEF IInv, BlocksPermuted, Select
  <2> QED
    BY <1>1, <2>1, <2>2 DEF IInv, EndsWhenSolved
<1>3. CASE Exchange
  <2> DEFINE first == block_y * NrBlockH + block_x
             second == select_block_y * NrBlockH + select_block_x
  <2>1. first \in Places /\ second \in Places
    BY PlaceInRange DEF IInv, TypeOK
  <2>2. block' = [block EXCEPT ![first] = block[second], ![second] = block[first]]
    BY <1>3 DEF Exchange, Swap
  <2>3. block \in [Places -> Places]
    BY DEF IInv, TypeOK
  <2> HIDE DEF first, second
  <2>4. block' \in [Places -> Places]
    BY <2>1, <2>2, <2>3
  <2>5. BlocksPermuted'
    <3> SUFFICES ASSUME NEW i \in Places, NEW k \in Places, block'[i] = block'[k]
                 PROVE  i = k
      BY DEF BlocksPermuted, Places
    <3>1. \A l \in Places : block'[l] = IF l = second THEN block[first]
                                        ELSE IF l = first THEN block[second]
                                        ELSE block[l]
      BY <2>1, <2>2, <2>3
    <3>2. \A l, m \in Places : block[l] = block[m] => l = m
      BY DEF IInv, BlocksPermuted
    <3> QED
      BY <2>1, <3>1, <3>2
  <2>6. TypeOK'
    BY <1>1, <1>3, <2>4 DEF IInv, TypeOK, Exchange, cursor, Places
  <2> QED
    BY <1>1, <2>5, <2>6 DEF IInv, EndsWhenSolved
<1> QED
  BY <1>2, <1>3 DEF Space

(* A coordinate is back in its range after it has wrapped.                 *)
LEMMA WrapInRange ==
  ASSUME NEW n \in Nat, n > 0, NEW v \in 0..(n - 1), NEW d \in {-1, 0, 1}
  PROVE  Wrap(v + d, n) \in 0..(n - 1)
BY DEF Wrap

(* update_game_state for the other keys                                    *)
LEMMA MoveIInv ==
  ASSUME NEW key, IInv, Move(key)
  PROVE  IInv'
<1>1. Step(key)[1] \in {-1, 0, 1} /\ Step(key)[2] \in {-1, 0, 1}
  BY DEF Step
<1>2. block_x' \in 0..(NrBlockH - 1) /\ block_y' \in 0..(NrBlockV - 1)
  BY <1>1, WrapInRange, Sizes DEF Move, IInv, TypeOK
<1>3. pc' = "frame" /\ UNCHANGED <<block, selection, screen>>
  BY DEF Move
<1>4. TypeOK'
  BY <1>2, <1>3 DEF IInv, TypeOK, selection
<1> QED
  BY <1>3, <1>4 DEF IInv, BlocksPermuted, EndsWhenSolved

(* check_valid's comparison of neighbours is exact.                        *)
LEMMA CheckIInv == IInv /\ check_valid => IInv'
<1> SUFFICES ASSUME IInv, check_valid PROVE IInv'
  OBVIOUS
<1>1. /\ pc' = IF InOrder THEN "success" ELSE "key"
      /\ UNCHANGED <<block, cursor, selection, screen>>
  BY DEF check_valid
<1>2. TypeOK' /\ BlocksPermuted'
  BY <1>1 DEF IInv, TypeOK, BlocksPermuted, cursor, selection
<1>3. InOrder <=> Solved
  BY AscendingIsSolved, SolvedIsInOrder DEF IInv, TypeOK
<1>4. EndsWhenSolved'
  BY <1>1, <1>3 DEF EndsWhenSolved, Solved
<1> QED
  BY <1>2, <1>4 DEF IInv

(* Every step keeps the invariant.                                         *)
LEMMA NextIInv == IInv /\ [Next]_vars => IInv'
<1> SUFFICES ASSUME IInv, [Next]_vars PROVE IInv'
  OBVIOUS
<1>1. CASE update_frame
  <2>1. DOMAIN screen' = Pixels /\ pc' = "check" /\ UNCHANGED <<block, cursor, selection>>
    BY <1>1 DEF update_frame, Frame
  <2> QED
    BY <2>1 DEF IInv, TypeOK, BlocksPermuted, EndsWhenSolved, cursor, selection
<1>2. CASE check_valid
  BY <1>2, CheckIInv
<1>3. CASE Space
  BY <1>3, SpaceIInv
<1>4. ASSUME NEW key \in Keys \ {"space"}, Move(key) PROVE IInv'
  BY <1>4, MoveIInv
<1>5. CASE Success
  <2>1. /\ DOMAIN screen' = Pixels
        /\ pc = "success" /\ pc' = "over"
        /\ UNCHANGED <<block, cursor, selection>>
    BY <1>5 DEF Success
  <2> QED
    BY <2>1 DEF IInv, TypeOK, BlocksPermuted, EndsWhenSolved, Solved, cursor, selection
<1>6. CASE UNCHANGED vars
  BY <1>6 DEF IInv, TypeOK, BlocksPermuted, EndsWhenSolved, Solved, vars, cursor, selection
<1> QED
  BY <1>1, <1>2, <1>3, <1>4, <1>5, <1>6 DEF Next

-----------------------------------------------------------------------------
(* Pixels and places                                                       *)

(* Division rounds down, ...                                               *)
LEMMA Quotient ==
  ASSUME NEW d \in Nat \ {0}, NEW a \in Nat
  PROVE  /\ a \div d \in Nat
         /\ a % d \in 0..(d - 1)
         /\ a = (a \div d) * d + (a % d)
BY SMT

(* ... and this is the only way to write a number.                         *)
LEMMA QuotientIs ==
  ASSUME NEW d \in Nat \ {0}, NEW q \in Nat, NEW r \in 0..(d - 1)
  PROVE  /\ q * d + r \in Nat
         /\ (q * d + r) \div d = q
         /\ (q * d + r) % d = r
<1>1. q * d \in Nat
  BY SMT
<1>2. q * d + r \in Nat
  BY <1>1, SMT
<1>3. (q * d + r) \div d = q
  BY <1>1, <1>2, SMT
<1>4. (q * d + r) % d = r
  BY <1>1, <1>2, <1>3, Quotient, SMT
<1> QED
  BY <1>2, <1>3, <1>4

LEMMA MultiplesAscend ==
  ASSUME NEW d \in Nat \ {0}, NEW a \in Int, NEW b \in Int
  PROVE  /\ a * d \in Int /\ b * d \in Int
         /\ a <= b => a * d <= b * d
         /\ a * d < b * d => a < b
         /\ (a + 1) * d = a * d + d
BY SMT

LEMMA Geometry ==
  /\ {PicW, PicH, BlockW, BlockH, Xres, Yres, LineWidth, Thick} \subseteq Nat \ {0}
  /\ NrBlockH * BlockW \in Nat /\ NrBlockH * BlockW <= Xres
  /\ NrBlockV * BlockH \in Nat /\ NrBlockV * BlockH <= Yres
  /\ 2 * Thick < BlockW /\ 2 * Thick < BlockH
  /\ LineWidth <= 2 * Thick
<1>1. PicW = NrBlockH * BlockW + (PicW % BlockW) /\ PicW % BlockW \in 0..(BlockW - 1)
  BY PuzzleAssumption, Quotient DEF NrBlockH
<1>2. PicH = NrBlockV * BlockH + (PicH % BlockH) /\ PicH % BlockH \in 0..(BlockH - 1)
  BY PuzzleAssumption, Quotient DEF NrBlockV
<1>3. NrBlockH * BlockW \in Nat /\ NrBlockV * BlockH \in Nat
  BY Sizes, PuzzleAssumption, SMT
<1>4. NrBlockH * BlockW <= PicW /\ NrBlockV * BlockH <= PicH
  BY <1>1, <1>2, <1>3, PuzzleAssumption, SMT
<1> QED
  BY <1>3, <1>4, PuzzleAssumption, SMT

(* The column and the row of a place                                       *)
Column(i) == i % NrBlockH
Row(i) == i \div NrBlockH
Left(i) == Column(i) * BlockW
Upper(i) == Row(i) * BlockH

LEMMA PlaceIs ==
  ASSUME NEW i \in Places
  PROVE  /\ Column(i) \in 0..(NrBlockH - 1) /\ Row(i) \in 0..(NrBlockV - 1)
         /\ i = Row(i) * NrBlockH + Column(i)
<1> DEFINE h == NrBlockH
           v == NrBlockV
           c == Column(i)
           r == Row(i)
<1>1. i \in Nat /\ i < h * v /\ h \in Nat \ {0} /\ v \in Nat \ {0}
  BY Sizes, SMT DEF Places, NrBlock
<1>2. c \in 0..(h - 1) /\ r \in Nat /\ i = r * h + c
  BY <1>1, Quotient DEF Column, Row
<1> HIDE DEF h, v, c, r
<1>3. r * h \in Int /\ v * h \in Int /\ v * h = h * v
  BY <1>1, <1>2, SMT
<1>4. r * h < v * h
  BY <1>1, <1>2, <1>3, SMT
<1>5. r < v
  BY <1>1, <1>2, <1>4, MultiplesAscend
<1>6. r \in 0..(v - 1)
  BY <1>1, <1>2, <1>5, SMT
<1> QED
  BY <1>2, <1>6 DEF h, v, c, r

LEMMA PlaceFrom ==
  ASSUME NEW x \in 0..(NrBlockH - 1), NEW y \in 0..(NrBlockV - 1)
  PROVE  /\ y * NrBlockH + x \in Places
         /\ Column(y * NrBlockH + x) = x /\ Row(y * NrBlockH + x) = y
<1>1. NrBlockH \in Nat \ {0} /\ y \in Nat
  BY Sizes
<1>2. (y * NrBlockH + x) \div NrBlockH = y /\ (y * NrBlockH + x) % NrBlockH = x
  BY <1>1, QuotientIs
<1> QED
  BY <1>2, PlaceInRange DEF Column, Row

(* A place is on the screen, whole.                                        *)
LEMMA PlaceOnScreen ==
  ASSUME NEW i \in Places
  PROVE  /\ Left(i) \in Nat /\ Left(i) + BlockW <= NrBlockH * BlockW
         /\ Upper(i) \in Nat /\ Upper(i) + BlockH <= NrBlockV * BlockH
<1>1. /\ Column(i) \in Nat /\ Column(i) + 1 <= NrBlockH
      /\ Row(i) \in Nat /\ Row(i) + 1 <= NrBlockV
  BY PlaceIs, Sizes, SMT
<1>2. BlockW \in Nat \ {0} /\ BlockH \in Nat \ {0} /\ NrBlockH \in Int /\ NrBlockV \in Int
  BY Geometry, Sizes
<1>3. /\ (Column(i) + 1) * BlockW <= NrBlockH * BlockW
      /\ (Row(i) + 1) * BlockH <= NrBlockV * BlockH
  <2>1. Column(i) + 1 \in Int /\ Row(i) + 1 \in Int
    BY <1>1
  <2> QED
    BY <1>1, <1>2, <2>1, MultiplesAscend
<1>4. /\ (Column(i) + 1) * BlockW = Left(i) + BlockW
      /\ (Row(i) + 1) * BlockH = Upper(i) + BlockH
  BY <1>1, <1>2, MultiplesAscend DEF Left, Upper
<1>5. Left(i) \in Nat /\ Upper(i) \in Nat
  BY <1>1, <1>2, SMT DEF Left, Upper
<1> QED
  BY <1>3, <1>4, <1>5

(* The pixels of different places are different.                           *)
Inside(i, p) == /\ Left(i) <= p[1] /\ p[1] < Left(i) + BlockW
                /\ Upper(i) <= p[2] /\ p[2] < Upper(i) + BlockH

LEMMA InsideIs ==
  ASSUME NEW i \in Places, NEW p \in Nat \X Nat, Inside(i, p)
  PROVE  p[1] \div BlockW = Column(i) /\ p[2] \div BlockH = Row(i)
         /\ p[1] % BlockW = p[1] - Left(i) /\ p[2] % BlockH = p[2] - Upper(i)
<1>1. /\ Column(i) \in Nat /\ Row(i) \in Nat
      /\ BlockW \in Nat \ {0} /\ BlockH \in Nat \ {0}
      /\ Left(i) \in Nat /\ Upper(i) \in Nat
  BY PlaceIs, PlaceOnScreen, Geometry, Sizes
<1> DEFINE r == p[1] - Left(i)
           s == p[2] - Upper(i)
<1>2. r \in 0..(BlockW - 1) /\ s \in 0..(BlockH - 1)
  BY <1>1 DEF Inside
<1>3. p[1] = Left(i) + r /\ p[2] = Upper(i) + s
  BY <1>1
<1> HIDE DEF r, s
<1>4. p[1] \div BlockW = Column(i) /\ p[1] % BlockW = r
  <2>1. /\ (Column(i) * BlockW + r) \div BlockW = Column(i)
        /\ (Column(i) * BlockW + r) % BlockW = r
    BY <1>1, <1>2, QuotientIs
  <2>2. p[1] = Column(i) * BlockW + r
    BY <1>3 DEF Left
  <2> QED
    BY <2>1, <2>2
<1>5. p[2] \div BlockH = Row(i) /\ p[2] % BlockH = s
  <2>1. /\ (Row(i) * BlockH + s) \div BlockH = Row(i)
        /\ (Row(i) * BlockH + s) % BlockH = s
    BY <1>1, <1>2, QuotientIs
  <2>2. p[2] = Row(i) * BlockH + s
    BY <1>3 DEF Upper
  <2> QED
    BY <2>1, <2>2
<1> QED
  BY <1>4, <1>5 DEF r, s

LEMMA PlacesApart ==
  ASSUME NEW i \in Places, NEW k \in Places, NEW p \in Nat \X Nat,
         Inside(i, p), Inside(k, p)
  PROVE  i = k
<1>1. Column(i) = Column(k) /\ Row(i) = Row(k)
  BY InsideIs
<1> QED
  BY <1>1, PlaceIs

(* A border is drawn where the pixels within Thick of the edge are.        *)
LEMMA BorderIs ==
  ASSUME NEW x \in Int, NEW y \in Int, NEW w \in Nat, NEW h \in Nat, NEW t \in Nat,
         2 * t < w, 2 * t < h
  PROVE  draw_border(x, y, w, h, t) =
            Rectangle(x, y, w, h) \ Rectangle(x + t, y + t, w - 2 * t, h - 2 * t)
<1> DEFINE u == t \div 2
<1>1. u \in Nat
  BY SMT
<1>2. /\ y + u - u = y /\ y + h - t + u - u = y + h - t
      /\ x + u - u = x /\ x + w - t + u - u = x + w - t
  BY <1>1, SMT
<1>3. draw_border(x, y, w, h, t) =
         UNION {Rectangle(x, y, w, t), Rectangle(x, y + h - t, w, t),
                Rectangle(x, y + t, t, h - t * 2),
                Rectangle(x + w - t, y + t, t, h - t * 2)}
  BY <1>2 DEF draw_border, draw_row, draw_column
<1>4. \A p \in Pixels : p[1] \in Int /\ p[2] \in Int
  BY Geometry DEF Pixels
<1>5. ASSUME NEW p \in Pixels
      PROVE  \/ p \in Rectangle(x, y, w, t) \/ p \in Rectangle(x, y + h - t, w, t)
             \/ p \in Rectangle(x, y + t, t, h - t * 2)
             \/ p \in Rectangle(x + w - t, y + t, t, h - t * 2)
             <=> /\ p \in Rectangle(x, y, w, h)
                 /\ p \notin Rectangle(x + t, y + t, w - 2 * t, h - 2 * t)
  <2>0. p[1] \in Int /\ p[2] \in Int
    BY <1>4
  <2> PICK a \in Int, b \in Int : a = p[1] /\ b = p[2]
    BY <2>0, Zenon
  <2>1. \A c, d, e, f \in Int : p \in Rectangle(c, d, e, f) <=>
           c <= a /\ a < c + e /\ d <= b /\ b < d + f
    BY DEF Rectangle
  <2>2. /\ p \in Rectangle(x, y, w, t) <=> x <= a /\ a < x + w /\ y <= b /\ b < y + t
        /\ p \in Rectangle(x, y + h - t, w, t)
              <=> x <= a /\ a < x + w /\ y + h - t <= b /\ b < y + h - t + t
        /\ p \in Rectangle(x, y + t, t, h - t * 2)
              <=> x <= a /\ a < x + t /\ y + t <= b /\ b < y + t + (h - t * 2)
        /\ p \in Rectangle(x + w - t, y + t, t, h - t * 2)
              <=> /\ x + w - t <= a /\ a < x + w - t + t
                  /\ y + t <= b /\ b < y + t + (h - t * 2)
    <3>1. /\ y + h - t \in Int /\ y + t \in Int /\ h - t * 2 \in Int
          /\ x + w - t \in Int /\ {x, y, w, h, t} \subseteq Int
      OBVIOUS
    <3> QED
      BY <2>1, <3>1, Zenon
  <2>3. /\ p \in Rectangle(x, y, w, h) <=> x <= a /\ a < x + w /\ y <= b /\ b < y + h
        /\ p \in Rectangle(x + t, y + t, w - 2 * t, h - 2 * t)
              <=> /\ x + t <= a /\ a < x + t + (w - 2 * t)
                  /\ y + t <= b /\ b < y + t + (h - 2 * t)
    BY <2>1
  <2> QED
    BY <2>2, <2>3, SMT
<1> QED
  BY <1>3, <1>5 DEF Rectangle

LEMMA BorderIsRim ==
  ASSUME NEW x \in 0..(NrBlockH - 1), NEW y \in 0..(NrBlockV - 1)
  PROVE  Border(x, y) = Rim(y * NrBlockH + x)
<1> DEFINE i == y * NrBlockH + x
<1>1. i % NrBlockH = x /\ i \div NrBlockH = y
  BY PlaceFrom DEF Column, Row
<1>2. x * BlockW \in Int /\ y * BlockH \in Int
  BY Geometry, Sizes, SMT
<1>3. Border(x, y) = Rectangle(x * BlockW, y * BlockH, BlockW, BlockH)
                     \ Rectangle(x * BlockW + Thick, y * BlockH + Thick,
                                 BlockW - 2 * Thick, BlockH - 2 * Thick)
  <2> PICK l \in Int, u \in Int : l = x * BlockW /\ u = y * BlockH
    BY <1>2
  <2>1. draw_border(l, u, BlockW, BlockH, Thick)
          = Rectangle(l, u, BlockW, BlockH)
            \ Rectangle(l + Thick, u + Thick, BlockW - 2 * Thick, BlockH - 2 * Thick)
    <3>1. /\ BlockW \in Nat /\ BlockH \in Nat /\ Thick \in Nat
          /\ 2 * Thick < BlockW /\ 2 * Thick < BlockH
      BY Geometry
    <3> QED
      BY <3>1, BorderIs
  <2> QED
    BY <2>1 DEF Border
<1> HIDE DEF i
<1> QED
  BY <1>1, <1>3 DEF Rim, i

(* What is in the rim of a place is in the place; its corner is.           *)
LEMMA RimIs ==
  ASSUME NEW i \in Places
  PROVE  /\ \A p \in Rim(i) : p \in Pixels /\ p \in Nat \X Nat /\ Inside(i, p)
         /\ <<Left(i), Upper(i)>> \in Rim(i)
<1>1. Pixels \subseteq Nat \X Nat
  BY Geometry DEF Pixels
<1>2. \A p \in Rim(i) : p \in Pixels /\ Inside(i, p)
  BY DEF Rim, Rectangle, Inside, Left, Upper, Column, Row
<1> DEFINE c == <<Left(i), Upper(i)>>
<1>3. /\ Left(i) \in Nat /\ Upper(i) \in Nat
      /\ Left(i) + BlockW <= Xres /\ Upper(i) + BlockH <= Yres
      /\ {BlockW, BlockH, Xres, Yres, Thick} \subseteq Nat \ {0}
  BY PlaceOnScreen, Geometry
<1>4. c \in Pixels
  BY <1>3 DEF Pixels
<1>5. c \in Rectangle(Left(i), Upper(i), BlockW, BlockH)
  BY <1>3, <1>4 DEF Rectangle
<1>6. c \notin Rectangle(Left(i) + Thick, Upper(i) + Thick,
                         BlockW - 2 * Thick, BlockH - 2 * Thick)
  BY <1>3 DEF Rectangle
<1>7. c \in Rim(i)
  BY <1>5, <1>6 DEF Rim, Left, Upper, Column, Row
<1> QED
  BY <1>1, <1>2, <1>7

LEMMA RimsApart ==
  ASSUME NEW i \in Places, NEW k \in Places, NEW p \in Rim(i), p \in Rim(k)
  PROVE  i = k
BY RimIs, PlacesApart

(* The middle of a place                                                   *)
LEMMA MiddleIs ==
  ASSUME NEW i \in Places
  PROVE  /\ Middle(i) = <<Left(i) + (BlockW \div 2), Upper(i) + (BlockH \div 2)>>
         /\ Middle(i) \in Pixels /\ Middle(i) \in Nat \X Nat
         /\ Inside(i, Middle(i))
         /\ (BlockW \div 2) \in Thick..(BlockW - 1 - Thick)
         /\ (BlockH \div 2) \in Thick..(BlockH - 1 - Thick)
<1> DEFINE u == BlockW \div 2
           v == BlockH \div 2
<1>1. /\ Left(i) \in Nat /\ Upper(i) \in Nat
      /\ Left(i) + BlockW <= Xres /\ Upper(i) + BlockH <= Yres
      /\ {BlockW, BlockH, Xres, Yres, Thick} \subseteq Nat \ {0}
      /\ 2 * Thick < BlockW /\ 2 * Thick < BlockH
  BY PlaceOnScreen, Geometry
<1>2. u \in Thick..(BlockW - 1 - Thick) /\ v \in Thick..(BlockH - 1 - Thick)
  BY <1>1, SMT
<1>3. Middle(i) = <<Left(i) + u, Upper(i) + v>>
  BY DEF Middle, Left, Upper, Column, Row
<1> HIDE DEF u, v
<1>4. Left(i) + u \in 0..(Xres - 1) /\ Upper(i) + v \in 0..(Yres - 1)
  BY <1>1, <1>2, SMT
<1>5. Middle(i) \in Pixels /\ Middle(i) \in Nat \X Nat
  BY <1>3, <1>4 DEF Pixels
<1>6. Inside(i, Middle(i))
  BY <1>1, <1>2, <1>3 DEF Inside
<1> QED
  BY <1>2, <1>3, <1>5, <1>6 DEF u, v

(* No border and no line is drawn there.                                   *)
LEMMA MiddleNotInRim ==
  ASSUME NEW i \in Places, NEW k \in Places
  PROVE  Middle(i) \notin Rim(k)
<1> SUFFICES ASSUME Middle(i) \in Rim(k) PROVE FALSE
  OBVIOUS
<1>1. i = k
  BY MiddleIs, RimIs, PlacesApart
<1>2. /\ Left(i) \in Nat /\ Upper(i) \in Nat
      /\ {BlockW, BlockH, Thick} \subseteq Nat \ {0}
  BY PlaceOnScreen, Geometry
<1>3. Middle(i) \in Rectangle(Left(i) + Thick, Upper(i) + Thick,
                              BlockW - 2 * Thick, BlockH - 2 * Thick)
  <2> PICK u \in Int, v \in Int : u = BlockW \div 2 /\ v = BlockH \div 2
    BY MiddleIs
  <2>1. /\ u \in Thick..(BlockW - 1 - Thick) /\ v \in Thick..(BlockH - 1 - Thick)
        /\ Middle(i) = <<Left(i) + u, Upper(i) + v>> /\ Middle(i) \in Pixels
    BY MiddleIs
  <2> QED
    BY <1>2, <2>1 DEF Rectangle
<1> QED
  BY <1>1, <1>3 DEF Rim, Left, Upper, Column, Row

(* A coordinate in the middle of a block is off the lines along its edges. *)
LEMMA OffTheLines ==
  ASSUME NEW b \in Nat \ {0}, NEW c \in Int, NEW k \in Int, NEW u \in Int,
         2 * Thick < b, u \in Thick..(b - 1 - Thick)
  PROVE  ~(/\ k * b - (LineWidth \div 2) <= c * b + u
           /\ c * b + u < k * b - (LineWidth \div 2) + LineWidth)
<1> PICK l \in Nat : l = LineWidth \div 2
  BY Geometry, SMT
<1>1. /\ Thick \in Nat /\ LineWidth \in Nat
      /\ l <= Thick /\ LineWidth - l <= Thick
  BY Geometry, SMT
<1>2. CASE k <= c
  <2>1. k * b <= c * b /\ k * b \in Int /\ c * b \in Int
    BY <1>2, MultiplesAscend
  <2> QED
    BY <1>1, <2>1, SMT
<1>3. CASE c + 1 <= k
  <2>1. c + 1 \in Int
    OBVIOUS
  <2>2. (c + 1) * b <= k * b /\ k * b \in Int /\ c * b \in Int
        /\ (c + 1) * b = c * b + b
    BY <1>3, <2>1, MultiplesAscend
  <2> QED
    BY <1>1, <2>2, SMT
<1> QED
  BY <1>2, <1>3, SMT

LEMMA MiddleNotInLines ==
  ASSUME NEW i \in Places
  PROVE  Middle(i) \notin Lines
<1> DEFINE m == Middle(i)
<1>1. /\ m[1] = Column(i) * BlockW + (BlockW \div 2)
      /\ m[2] = Row(i) * BlockH + (BlockH \div 2)
      /\ Column(i) \in Int /\ Row(i) \in Int
      /\ (BlockW \div 2) \in Thick..(BlockW - 1 - Thick)
      /\ (BlockH \div 2) \in Thick..(BlockH - 1 - Thick)
      /\ (BlockW \div 2) \in Int /\ (BlockH \div 2) \in Int
      /\ BlockW \in Nat \ {0} /\ BlockH \in Nat \ {0}
      /\ 2 * Thick < BlockW /\ 2 * Thick < BlockH
  BY MiddleIs, PlaceIs, Geometry DEF Left, Upper
<1>2. \A k \in 0..NrBlockH : m \notin draw_column(k * BlockW, 0, LineWidth, Yres)
  <2> SUFFICES ASSUME NEW k \in 0..NrBlockH,
                      m \in draw_column(k * BlockW, 0, LineWidth, Yres)
               PROVE  FALSE
    OBVIOUS
  <2>1. /\ k * BlockW - (LineWidth \div 2) <= m[1]
        /\ m[1] < k * BlockW - (LineWidth \div 2) + LineWidth
    BY DEF draw_column, Rectangle
  <2>2. k \in Int
    OBVIOUS
  <2> HIDE DEF m
  <2> QED
    BY <1>1, <2>1, <2>2, OffTheLines
<1>3. \A k \in 0..NrBlockV : m \notin draw_row(0, k * BlockH, LineWidth, Xres)
  <2> SUFFICES ASSUME NEW k \in 0..NrBlockV,
                      m \in draw_row(0, k * BlockH, LineWidth, Xres)
               PROVE  FALSE
    OBVIOUS
  <2>1. /\ k * BlockH - (LineWidth \div 2) <= m[2]
        /\ m[2] < k * BlockH - (LineWidth \div 2) + LineWidth
    BY DEF draw_row, Rectangle
  <2>2. k \in Int
    OBVIOUS
  <2> HIDE DEF m
  <2> QED
    BY <1>1, <2>1, <2>2, OffTheLines
<1> HIDE DEF m
<1>4. m \notin Lines
  BY <1>2, <1>3 DEF Lines
<1> QED
  BY <1>4 DEF m

(* The pixel of the picture that is drawn there is the block's middle, ... *)
LEMMA DrawnMiddle ==
  ASSUME TypeOK, NEW i \in Places
  PROVE  InBlocks(Middle(i)) /\ Drawn(Middle(i)) = Middle(block[i])
<1> DEFINE m == Middle(i)
<1>1. /\ m \in Nat \X Nat /\ Inside(i, m)
      /\ m[1] = Left(i) + (BlockW \div 2) /\ m[2] = Upper(i) + (BlockH \div 2)
      /\ (BlockW \div 2) \in Int /\ (BlockH \div 2) \in Int
  BY MiddleIs
<1>2. /\ Left(i) \in Nat /\ Left(i) + BlockW <= NrBlockH * BlockW
      /\ Upper(i) \in Nat /\ Upper(i) + BlockH <= NrBlockV * BlockH
      /\ BlockW \in Nat /\ BlockH \in Nat
      /\ NrBlockH * BlockW \in Nat /\ NrBlockV * BlockH \in Nat
  BY PlaceOnScreen, Geometry
<1>3. block[i] \in Places
  BY DEF TypeOK
<1> HIDE DEF m
<1>4. /\ m[1] \div BlockW = Column(i) /\ m[2] \div BlockH = Row(i)
      /\ m[1] % BlockW = m[1] - Left(i) /\ m[2] % BlockH = m[2] - Upper(i)
  BY <1>1, InsideIs
<1>5. /\ m[1] % BlockW = BlockW \div 2 /\ m[2] % BlockH = BlockH \div 2
  BY <1>1, <1>2, <1>4
<1>6. PlaceOf(m) = i
  BY <1>4, PlaceIs DEF PlaceOf
<1>7. Drawn(m) = Middle(block[i])
  BY <1>5, <1>6 DEF Drawn, Middle
<1>8. m[1] \in Int /\ m[2] \in Int
  BY <1>1
<1>9. InBlocks(m)
  BY <1>1, <1>2, <1>8, SMT DEF Inside, InBlocks
<1> QED
  BY <1>7, <1>9 DEF m

(* ... and nothing of the picture has a colour of the borders.             *)
LEMMA DrawnIsPicture ==
  ASSUME TypeOK, NEW p \in Pixels, InBlocks(p)
  PROVE  Drawn(p)[1] >= 0
<1>1. /\ p[1] \in Nat /\ p[2] \in Nat
      /\ p[1] < NrBlockH * BlockW /\ p[2] < NrBlockV * BlockH
  BY Geometry DEF Pixels, InBlocks
<1>2. /\ BlockW \in Nat \ {0} /\ BlockH \in Nat \ {0}
      /\ NrBlockH \in Nat \ {0} /\ NrBlockV \in Nat \ {0}
  BY Geometry, Sizes
<1> DEFINE x == p[1] \div BlockW
           y == p[2] \div BlockH
<1>3. /\ x \in Nat /\ p[1] % BlockW \in Nat /\ p[1] = x * BlockW + (p[1] % BlockW)
      /\ y \in Nat /\ p[2] % BlockH \in Nat /\ p[2] = y * BlockH + (p[2] % BlockH)
  <2>1. x \in Nat /\ p[1] % BlockW \in 0..(BlockW - 1) /\ p[1] = x * BlockW + (p[1] % BlockW)
    BY <1>1, <1>2, Quotient
  <2>2. y \in Nat /\ p[2] % BlockH \in 0..(BlockH - 1) /\ p[2] = y * BlockH + (p[2] % BlockH)
    BY <1>1, <1>2, Quotient
  <2> HIDE DEF x, y
  <2> QED
    BY <1>2, <2>1, <2>2
<1> HIDE DEF x, y
<1>4. x * BlockW < NrBlockH * BlockW /\ y * BlockH < NrBlockV * BlockH
  BY <1>1, <1>2, <1>3, MultiplesAscend, SMT
<1>5. x < NrBlockH /\ y < NrBlockV
  BY <1>2, <1>3, <1>4, MultiplesAscend
<1>6. x \in 0..(NrBlockH - 1) /\ y \in 0..(NrBlockV - 1)
  BY <1>2, <1>3, <1>5
<1>7. PlaceOf(p) \in Places
  BY <1>6, PlaceInRange DEF PlaceOf, x, y
<1>8. block[PlaceOf(p)] \in Places
  BY <1>7 DEF TypeOK
<1>9. Left(block[PlaceOf(p)]) \in Nat
  BY <1>8, PlaceOnScreen
<1>10. Drawn(p)[1] = Left(block[PlaceOf(p)]) + (p[1] % BlockW)
  BY DEF Drawn, Left, Column
<1> QED
  BY <1>3, <1>9, <1>10, SMT

LEMMA Colours ==
  /\ CursorColour # SelectColour /\ Black # SelectColour /\ Black # CursorColour
  /\ ~(CursorColour[1] >= 0) /\ ~(SelectColour[1] >= 0)
BY DEF CursorColour, SelectColour, Black

-----------------------------------------------------------------------------
(* What a frame tells                                                      *)
Cursor == block_y * NrBlockH + block_x
Selected == select_block_y * NrBlockH + select_block_x
SelectRim == IF select = 1 THEN Rim(Selected) ELSE {}

LEMMA FrameIs ==
  ASSUME TypeOK
  PROVE  /\ Cursor \in Places /\ Selected \in Places
         /\ \A p \in Pixels :
               /\ Frame[p] = SelectColour <=> p \in SelectRim
               /\ Frame[p] = CursorColour <=> p \in Rim(Cursor) /\ p \notin SelectRim
         /\ \A i \in Places : Frame[Middle(i)] = Middle(block[i])
<1>1. /\ block_x \in 0..(NrBlockH - 1) /\ block_y \in 0..(NrBlockV - 1)
      /\ select_block_x \in 0..(NrBlockH - 1) /\ select_block_y \in 0..(NrBlockV - 1)
  BY DEF TypeOK
<1>2. Cursor \in Places /\ Selected \in Places
  BY <1>1, PlaceInRange DEF Cursor, Selected
<1>3. Border(block_x, block_y) = Rim(Cursor)
  BY <1>1, BorderIsRim DEF Cursor
<1>4. Border(select_block_x, select_block_y) = Rim(Selected)
  BY <1>1, BorderIsRim DEF Selected
<1>5. \A p \in Pixels :
         Frame[p] = IF p \in SelectRim THEN SelectColour
                    ELSE IF p \in Rim(Cursor) THEN CursorColour
                    ELSE IF p \in Lines THEN Black
                    ELSE IF InBlocks(p) THEN Drawn(p)
                    ELSE Black
  BY <1>3, <1>4 DEF Frame, SelectRim
<1>6. ASSUME NEW p \in Pixels
      PROVE  /\ Frame[p] = SelectColour <=> p \in SelectRim
             /\ Frame[p] = CursorColour <=> p \in Rim(Cursor) /\ p \notin SelectRim
  <2>1. InBlocks(p) => Drawn(p) # SelectColour /\ Drawn(p) # CursorColour
    BY DrawnIsPicture, Colours
  <2> QED
    BY <1>5, <2>1, Colours
<1>7. ASSUME NEW i \in Places PROVE Frame[Middle(i)] = Middle(block[i])
  <2>1. Middle(i) \notin Rim(Cursor) /\ Middle(i) \notin SelectRim
    BY <1>2, MiddleNotInRim DEF SelectRim
  <2> QED
    BY <1>5, <2>1, MiddleIs, MiddleNotInLines, DrawnMiddle
<1> QED
  BY <1>2, <1>6, <1>7

LEMMA FrameTells ==
  ASSUME TypeOK, screen = Frame
  PROVE  /\ \A i \in Places : screen[Middle(i)] = Middle(block[i])
         /\ Marked(SelectColour) = Chosen
         /\ Marked(CursorColour) = PlaceAt(block_x, block_y) \ Chosen
         /\ \A p \in Pixels : screen[p] \in {CursorColour, SelectColour} =>
               \E i \in Marked(screen[p]) : p \in Rim(i)
<1>1. Cursor \in Places /\ Selected \in Places
  BY FrameIs
<1>2. ASSUME NEW i \in Places
      PROVE  \E p \in Rim(i) : p \in Pixels
  BY RimIs
<1>3. ASSUME NEW i \in Places, NEW p \in Rim(i)
      PROVE  /\ screen[p] = SelectColour <=> select = 1 /\ i = Selected
             /\ screen[p] = CursorColour <=> i = Cursor /\ ~(select = 1 /\ i = Selected)
  <2>1. p \in Pixels
    BY RimIs
  <2>2. p \in SelectRim <=> select = 1 /\ i = Selected
    BY <1>1, RimsApart DEF SelectRim
  <2>3. p \in Rim(Cursor) <=> i = Cursor
    BY <1>1, RimsApart
  <2> QED
    BY <2>1, <2>2, <2>3, FrameIs
<1>4. Chosen = {i \in Places : select = 1 /\ i = Selected}
  BY <1>1 DEF Chosen, PlaceAt, Selected
<1>5. PlaceAt(block_x, block_y) = {Cursor}
  BY DEF PlaceAt, Cursor
<1>6. Marked(SelectColour) = Chosen
  BY <1>2, <1>3, <1>4 DEF Marked
<1>7. Marked(CursorColour) = PlaceAt(block_x, block_y) \ Chosen
  BY <1>1, <1>2, <1>3, <1>4, <1>5 DEF Marked
<1>8. ASSUME NEW p \in Pixels, screen[p] \in {CursorColour, SelectColour}
      PROVE  \E i \in Marked(screen[p]) : p \in Rim(i)
  <2>1. CASE screen[p] = SelectColour
    <3>1. p \in Rim(Selected) /\ select = 1
      BY <2>1, FrameIs DEF SelectRim
    <3>2. Selected \in Marked(SelectColour)
      BY <1>1, <1>4, <1>6, <3>1
    <3> QED
      BY <2>1, <3>1, <3>2
  <2>2. CASE screen[p] = CursorColour
    <3>1. p \in Rim(Cursor)
      BY <2>2, FrameIs
    <3>2. Cursor \in Marked(CursorColour)
      BY <1>1, <1>3, <2>2, <3>1 DEF Marked
    <3> QED
      BY <2>2, <3>1, <3>2
  <2> QED
    BY <1>8, <2>1, <2>2
<1> QED
  BY <1>6, <1>7, <1>8, FrameIs

-----------------------------------------------------------------------------
(* The inductive invariant                                                 *)
THEOREM Invariant == Spec => []IInv
BY InitIInv, NextIInv, PTL DEF Spec

(* Every variable of the game keeps its type: the cursor and the selection *)
(* always index a block, for every size of the picture.                    *)
THEOREM TypeCorrect == Spec => []TypeOK
<1>1. IInv => TypeOK
  BY DEF IInv
<1> QED
  BY <1>1, Invariant, PTL

(* update_game_state only ever reorders the blocks.                        *)
THEOREM Permuted == Spec => []BlocksPermuted
<1>1. IInv => BlocksPermuted
  BY DEF IInv
<1> QED
  BY <1>1, Invariant, PTL

(* check_valid: the game ends exactly when every block is in its place.    *)
THEOREM EndsRight == Spec => []EndsWhenSolved
<1>1. IInv => EndsWhenSolved
  BY DEF IInv
<1> QED
  BY <1>1, Invariant, PTL

(* From the end of update_frame until a key has been read, the screen      *)
(* shows the game as it is.                                                *)
Current == pc \in {"check", "key"} => screen = Frame

LEMMA CurrentInv == Spec => []Current
<1>1. Init => Current
  BY DEF Init, Current
<1>2. Current /\ [Next]_vars => Current'
  <2> SUFFICES ASSUME Current, [Next]_vars PROVE Current'
    OBVIOUS
  <2>1. UNCHANGED <<block, cursor, selection>> => UNCHANGED Frame
    BY DEF Frame, Drawn, cursor, selection
  <2>2. CASE update_frame
    BY <2>1, <2>2 DEF update_frame, Current
  <2>3. CASE check_valid
    BY <2>1, <2>3 DEF check_valid, Current
  <2>4. CASE Space
    BY <2>4 DEF Space, Current
  <2>5. ASSUME NEW key \in Keys \ {"space"}, Move(key) PROVE Current'
    BY <2>5 DEF Move, Current
  <2>6. CASE Success
    BY <2>6 DEF Success, Current
  <2>7. CASE UNCHANGED vars
    BY <2>1, <2>7 DEF vars, Current
  <2> QED
    BY <2>2, <2>3, <2>4, <2>5, <2>6, <2>7 DEF Next
<1> QED
  BY <1>1, <1>2, PTL DEF Spec

(* update_frame: while a key is waited for, the screen shows each block at *)
(* its place, the cursor's and the selection's borders around the right    *)
(* places and no others, for every size of picture, block, line and border *)
(* that the assumption allows.                                             *)
THEOREM ScreenShows == Spec => []ScreenTells
<1>1. TypeOK /\ Current => ScreenTells
  BY FrameTells DEF Current, ScreenTells
<1> QED
  BY <1>1, TypeCorrect, CurrentInv, PTL

(* update_game_state: the space bar exchanges the two blocks that the      *)
(* screen marks, and no key changes the order otherwise.                   *)
THEOREM SwapsMarked == Spec => SwapsWhatIsMarked
<1> DEFINE Marks == \E a \in Marked(CursorColour), b \in Marked(SelectColour) :
                      block' = [block EXCEPT ![a] = block[b], ![b] = block[a]]
<1>1. ASSUME IInv, Current, [Next]_vars, block' # block PROVE Marks
  <2>1. Space /\ Exchange
    BY <1>1 DEF Next, update_frame, check_valid, Space, Select, Move, Success, vars
  <2>2. pc = "key" /\ select = 1
    BY <2>1 DEF Space, Exchange
  <2>3. block' = [block EXCEPT ![Cursor] = block[Selected], ![Selected] = block[Cursor]]
    BY <2>1 DEF Exchange, Swap, Cursor, Selected
  <2>4. TypeOK /\ screen = Frame
    BY <1>1, <2>2 DEF IInv, Current
  <2>5. Cursor \in Places /\ Selected \in Places /\ block \in [Places -> Places]
    BY <2>4, FrameIs DEF TypeOK
  <2>6. Cursor # Selected
    <3> SUFFICES ASSUME Cursor = Selected PROVE block' = block
      BY <1>1
    <3> QED
      BY <2>3, <2>5
  <2>7. Marked(SelectColour) = {Selected} /\ Marked(CursorColour) = {Cursor}
    <3>1. Chosen = {Selected} /\ PlaceAt(block_x, block_y) = {Cursor}
      BY <2>2 DEF Chosen, PlaceAt, Selected, Cursor
    <3> QED
      BY <2>4, <2>6, <3>1, FrameTells
  <2> QED
    BY <2>3, <2>7
<1>2. IInv /\ Current /\ [Next]_vars => [block' # block => Marks]_vars
  BY <1>1
<1> QED
  BY <1>2, Invariant, CurrentInv, PTL DEF Spec, SwapsWhatIsMarked
=============================================================================
