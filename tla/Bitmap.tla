------------------------------- MODULE Bitmap -------------------------------
(***************************************************************************)
(* The bitmap of lib/fs.c at the level of its bytes: fs_get_bit,           *)
(* fs_set_bit and fs_alloc_blk, which looks for the first byte that is not *)
(* all ones, isolates the lowest zero of it with mask & -mask and counts   *)
(* its place by shifting.  A byte has Bits bits (8, and the code shifts by *)
(* 3); it is a number.                                                     *)
(***************************************************************************)
EXTENDS Integers, Bitwise

CONSTANTS NBytes,  \* sizeof(struct bitmap)
          Bits     \* bits of an unsigned char

ASSUME BitmapAssumption == NBytes \in Nat \ {0} /\ Bits \in Nat \ {0}

VARIABLES bm_data,  \* the bytes
          idx       \* the last return value of fs_alloc_blk

bitmapVars == <<bm_data, idx>>

Offsets == 0..(NBytes * Bits - 1)
Byte == 0..(2^Bits - 1)
Complement(byte) == 2^Bits - 1 - byte

fs_get_bit(bm, offset) == (bm[offset \div Bits] \div 2^(offset % Bits)) & 1

(* Mutant: the other bits of the byte are thrown away.                     *)
SetBitAlone(bm, offset, val) ==
    [bm EXCEPT ![offset \div Bits] = (val & 1) * 2^(offset % Bits)]

fs_set_bit(bm, offset, val) ==
    LET map == (val & 1) * 2^(offset % Bits)
        mask == Complement(2^(offset % Bits))
    IN  [bm EXCEPT ![offset \div Bits] = (@ & mask) | map]

BitmapInit == /\ bm_data = [i \in 0..(NBytes - 1) |-> 0]
              /\ idx = -1

(* The value of mask & -mask, in the two's complement of a byte.           *)
LowestOne(mask) == mask & (2^Bits - mask)

(* The number of times the loop shifts mask before it is zero.             *)
Shifts[mask \in Byte] == IF mask = 0 THEN 0 ELSE 1 + Shifts[mask \div 2]

(* The block that the lowest zero of byte i stands for.                    *)
Place(i) == i * Bits + Shifts[LowestOne(Complement(bm_data[i]))] - 1

fs_alloc_blk ==
    \/ \E i \in DOMAIN bm_data :
          /\ bm_data[i] # 2^Bits - 1
          /\ \A h \in 0..(i - 1) : bm_data[h] = 2^Bits - 1
          /\ idx' = Place(i)
          /\ bm_data' = fs_set_bit(bm_data, idx', 1)
    \/ /\ \A i \in DOMAIN bm_data : bm_data[i] = 2^Bits - 1
       /\ idx' = -1
       /\ UNCHANGED bm_data

SetBit(offset, val) == /\ bm_data' = fs_set_bit(bm_data, offset, val)
                       /\ UNCHANGED idx

BitmapNext == \/ fs_alloc_blk
              \/ \E offset \in Offsets, val \in {0, 1} : SetBit(offset, val)

BitmapSpec == BitmapInit /\ [][BitmapNext]_bitmapVars

-----------------------------------------------------------------------------
(* The bytes implement the set of used blocks that fs_get_bit reads:       *)
(* fs_set_bit changes the bit it is given and no other, and fs_alloc_blk   *)
(* returns the first block that is free and marks that one.                *)
Map == INSTANCE BlockMap WITH NBlocks <- NBytes * Bits,
                              ALL1 <- -1,
                              used <- {o \in Offsets : fs_get_bit(bm_data, o) = 1},
                              result <- idx
MapSpec == Map!MapSpec
=============================================================================
