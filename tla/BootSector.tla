----------------------------- MODULE BootSector -----------------------------
(***************************************************************************)
(* boot/boot.S: the BIOS is asked for the video mode and its               *)
(* ModeInfoBlock, address line 20 is enabled through the keyboard          *)
(* controller, the processor is switched to protected mode and bootmain    *)
(* is called.                                                              *)
(*                                                                         *)
(* The keyboard controller (an 8042) is external: it has one place for a   *)
(* byte from the processor, which is busy until the controller takes the   *)
(* byte, and puts the byte behind a 0xd1 command on its output port, whose *)
(* bit 1 drives the address line.                                          *)
(***************************************************************************)
EXTENDS Integers

CONSTANTS LineA20,  \* the address bit that A20 drives: 2^20
          ModeInfo  \* addresses of the ModeInfoBlock, from 0xf000

ASSUME SectorAssumption == LineA20 \in Nat \ {0}

VARIABLES pc,    \* where the boot sector or bootmain is
          mem,   \* physical memory
          a20,   \* the address line is driven
          kbc    \* the keyboard controller

sectorVars == <<pc, mem, a20, kbc>>

Mode == -3       \* a byte of the ModeInfoBlock

SectorInit == /\ pc = "vbe"
              /\ a20 \in BOOLEAN     \* some BIOSes enable it
              /\ \E busy \in BOOLEAN :
                    kbc = [full |-> busy, byte |-> "other", output |-> FALSE]

(* The location that an address reaches: with the line off, as if the bit  *)
(* were zero.                                                              *)
Bus(a) == IF ~a20 /\ (a \div LineA20) % 2 = 1 THEN a - LineA20 ELSE a

(* The BIOS calls for the mode                                             *)
SetVideoMode == /\ pc = "vbe"
                /\ mem' = [a \in DOMAIN mem |-> IF a \in ModeInfo THEN Mode ELSE mem[a]]
                /\ pc' = "seta20.1"
                /\ UNCHANGED <<a20, kbc>>

(* seta20.1 and seta20.2 poll the controller's input buffer.               *)
SendCommand == /\ pc = "seta20.1"
               /\ ~kbc.full
               /\ kbc' = [kbc EXCEPT !.full = TRUE, !.byte = "0xd1"]
               /\ pc' = "seta20.2"
               /\ UNCHANGED <<mem, a20>>

(* Mutant: the second wait is left out.                                    *)
SendOutputAtOnce == /\ pc = "seta20.2"
                    /\ kbc' = [kbc EXCEPT !.full = TRUE, !.byte = "0xdf"]
                    /\ pc' = "protected"
                    /\ UNCHANGED <<mem, a20>>

SendOutput == /\ pc = "seta20.2"
              /\ ~kbc.full
              /\ kbc' = [kbc EXCEPT !.full = TRUE, !.byte = "0xdf"]
              /\ pc' = "protected"
              /\ UNCHANGED <<mem, a20>>

(* Flat segments, a stack below 64 KB, and on: nothing waits for the       *)
(* controller to take the last byte.                                       *)
CallBootmain == /\ pc = "protected"
                /\ pc' = "start"
                /\ UNCHANGED <<mem, a20, kbc>>

ControllerTakes == /\ kbc.full
                   /\ kbc' = [kbc EXCEPT !.full = FALSE, !.output = (kbc.byte = "0xd1")]
                   /\ a20' = (a20 \/ (kbc.output /\ kbc.byte = "0xdf"))
                   /\ UNCHANGED <<pc, mem>>

Sector == SetVideoMode \/ SendCommand \/ SendOutput \/ CallBootmain
=============================================================================
