------------------------------ MODULE Segments ------------------------------
(***************************************************************************)
(* Segment descriptors: set_descriptor of kernel/segment.c and the SEG     *)
(* macro of inc/mmu.h, which write them, and the processor, which reads    *)
(* them.  A 32-bit number is the pair of its halves, <<high, low>>.        *)
(***************************************************************************)
EXTENDS Integers

Half == {h \in Nat : h < 65536}
Word == Half \X Half

Zero == <<0, 0>>
AllOnes == <<65535, 65535>>

STA_X == 8
STA_W == 2
STA_R == 2
STS_T32A == 9    \* an available TSS

(* Mutant: the byte that follows the low half is taken from the top.       *)
set_descriptor_top(type, dpl, base, limit) ==
    [sd_lim_15_0   |-> (limit[1] % 4096) * 16 + limit[2] \div 4096,
     sd_lim_19_16  |-> limit[1] \div 4096,
     sd_base_15_0  |-> base[2],
     sd_base_23_16 |-> base[1] \div 256,
     sd_base_31_24 |-> base[1] \div 256,
     sd_type |-> type, sd_dpl |-> dpl,
     sd_s |-> 1, sd_p |-> 1, sd_g |-> 1, sd_db |-> 1]

(* The limit is given in bytes and stored in pages of 4 KB, rounded down.  *)
set_descriptor(type, dpl, base, limit) ==
    [sd_lim_15_0   |-> (limit[1] % 4096) * 16 + limit[2] \div 4096,
     sd_lim_19_16  |-> limit[1] \div 4096,
     sd_base_15_0  |-> base[2],
     sd_base_23_16 |-> base[1] % 256,
     sd_base_31_24 |-> base[1] \div 256,
     sd_type |-> type, sd_dpl |-> dpl,
     sd_s |-> 1, sd_p |-> 1, sd_g |-> 1, sd_db |-> 1]

(* The assembler's macro stores the same fields.                           *)
SEG(type, base, lim) == set_descriptor(type, 0, base, lim)

-----------------------------------------------------------------------------
(* What the processor takes a descriptor for: its base, and the offset of  *)
(* the last byte; a page of the limit stands for all its bytes.            *)
Base(d) == <<d.sd_base_31_24 * 256 + d.sd_base_23_16, d.sd_base_15_0>>

Limit(d) == IF d.sd_g = 1
            THEN <<d.sd_lim_19_16 * 4096 + d.sd_lim_15_0 \div 16,
                   (d.sd_lim_15_0 % 16) * 4096 + 4095>>
            ELSE <<d.sd_lim_19_16, d.sd_lim_15_0>>

Flat(d) == Base(d) = Zero /\ Limit(d) = AllOnes

(* Code of the kernel can be fetched through d.                            *)
KernelCode(d) == /\ d.sd_p = 1 /\ d.sd_s = 1 /\ d.sd_dpl = 0
                 /\ d.sd_type \div STA_X = 1
                 /\ Flat(d)

FreeTask(d) == d.sd_p = 1 /\ d.sd_s = 0 /\ d.sd_type = STS_T32A
=============================================================================
