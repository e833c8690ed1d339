------------------------------ MODULE Machine -------------------------------
(***************************************************************************)
(* The kernel's processor from main to the game: init_gdt, init_idt, the   *)
(* memory path of KernelBoot, init_i8259_pic, sti, int $0, test_page and   *)
(* the iret into the game (kernel/main.c), with the interrupt entry of     *)
(* kernel/interrupt/entry.S, which may come between any two statements     *)
(* once interrupts are enabled.                                            *)
(*                                                                         *)
(* The processor pushes the interrupted position on main's stack; entry    *)
(* serves every vector and knows of no error code, so that its iret after  *)
(* a page fault takes the error code for a position.                       *)
(***************************************************************************)
EXTENDS KernelBoot, Segments

CONSTANTS IRQs,      \* lines of the master PIC that have a device
          TssBase,   \* address of tss
          MaxRaised  \* bound on the number of interrupts that devices raise

NGates == 48
Vectors == 0..(NGates - 1)
Cascade == 2         \* the master's line that the slave PIC drives
PageFaultVector == 14

ASSUME MachineAssumption == /\ IRQs \subseteq 0..7
                            /\ TssBase \in Word
                            /\ MaxRaised \in Nat

VARIABLES mpc,     \* statement of main
          at,      \* instruction of entry, "main" when main runs
          intr,    \* EFLAGS.IF
          shadow,  \* the last instruction was sti, which takes effect late
          stack,   \* words on main's stack, the last one is the top
          gdt,     \* the table that lgdt has loaded
          idt,     \* the interrupt descriptors
          idtr,    \* how many of them lidt has made known
          pic,     \* the interrupt controllers
          raised   \* interrupts raised so far

processor == <<at, intr, shadow, stack>>
tables == <<gdt, idt, idtr>>
machineVars == <<bootVars, mpc, processor, tables, pic, raised>>

-----------------------------------------------------------------------------
(* Tables                                                                  *)

BootGdt == <<SEG(STA_X + STA_R, Zero, AllOnes), SEG(STA_W, Zero, AllOnes)>>

(* The descriptors behind the null one; STA_W and STA_R are the same bit.  *)
KernelGdt ==
    <<set_descriptor(STA_X + STA_R, 0, Zero, AllOnes),
      set_descriptor(STA_W, 0, Zero, AllOnes),
      [set_descriptor(STS_T32A, 0, TssBase, <<0, 103>>) EXCEPT !.sd_s = 0]>>

Gate == [gd_p |-> 1, gd_type |-> "STS_IG32", gd_sel |-> 1, off |-> "entry"]

(* .bss is not cleared: a gate holds anything before init_idt.             *)
Absent == [gd_p |-> 0, gd_type |-> "STS_IG32", gd_sel |-> 0, off |-> "junk"]
Junk == [gd_p |-> 1, gd_type |-> "STS_IG32", gd_sel |-> 1, off |-> "junk"]

(* The vector can be delivered; else the processor resets, since the       *)
(* double fault cannot be delivered, either.                               *)
Deliverable(v) == /\ v < idtr
                  /\ idt[v].gd_p = 1
                  /\ idt[v].off = "entry"
                  /\ KernelCode(gdt[idt[v].gd_sel])

Flag == IF intr THEN "IF1" ELSE "IF0"

(* The processor pushes eflags, cs, eip and, for some, an error code.      *)
Deliver(v, error) ==
    IF Deliverable(v)
    THEN /\ stack' = stack \o <<Flag, "cs", at>> \o error
         /\ at' = "cli"
         /\ intr' = (intr /\ idt[v].gd_type # "STS_IG32")
         /\ shadow' = FALSE
    ELSE at' = "reset" /\ UNCHANGED <<stack, intr, shadow>>

-----------------------------------------------------------------------------
(* The interrupt controllers                                               *)

Bit(val, i) == (val \div 2^i) % 2

Restarted == [pic EXCEPT !.imr = {}, !.irr = {}, !.isr = {},
                         !.aeoi = FALSE, !.icw = 2]

(* What a controller does with a byte, by port: after ICW1 the data port   *)
(* takes ICW2 (the offset of the vectors), ICW3 and ICW4 (bit 1: the end   *)
(* of an interrupt is automatic), at other times it sets the masks.        *)
Outb(port, val) ==
    CASE port = "master_cmd"  -> IF Bit(val, 4) = 1 THEN Restarted ELSE pic
      [] port = "slave_data"  -> [pic EXCEPT !.slave = val # 255]
      [] port = "master_data" ->
            CASE pic.icw = 0 -> [pic EXCEPT !.imr = {i \in 0..7 : Bit(val, i) = 1}]
              [] pic.icw = 2 -> [pic EXCEPT !.offset = val - (val % 8), !.icw = 3]
              [] pic.icw = 3 -> [pic EXCEPT !.icw = 4]
              [] pic.icw = 4 -> [pic EXCEPT !.aeoi = Bit(val, 1) = 1, !.icw = 0]

(* The line that the master asks the processor to serve.                   *)
Asking == {i \in pic.irr \ pic.imr :
              /\ \A k \in pic.isr : i < k
              /\ \A k \in pic.irr \ pic.imr : i <= k}

(* A device raises its line; those of the slave are all on one.            *)
Raise(i) == /\ raised < MaxRaised
            /\ i = Cascade => pic.slave
            /\ pic' = [pic EXCEPT !.irr = @ \cup {i}]
            /\ raised' = raised + 1
            /\ UNCHANGED <<bootVars, mpc, processor, tables>>

(* Between two instructions the processor takes an interrupt.              *)
Accept(i) == /\ intr /\ ~shadow
             /\ at # "reset" /\ pc # "derailed"
             /\ i \in Asking
             /\ Deliver(pic.offset + i, <<>>)
             /\ pic' = [pic EXCEPT !.irr = @ \ {i},
                                   !.isr = IF pic.aeoi THEN @ ELSE @ \cup {i}]
             /\ UNCHANGED <<bootVars, mpc, tables, raised>>

-----------------------------------------------------------------------------
(* main, when it runs: its next statement, and what follows it.            *)
At(statement, following) == /\ at = "main" /\ pc # "derailed" /\ panic = "none"
                            /\ mpc = statement
                            /\ mpc' = following

InitGdt == /\ At("gdt", "idt")
           /\ gdt' = KernelGdt
           /\ at' = IF FreeTask(gdt'[3]) THEN at ELSE "reset"   \* ltr
           /\ UNCHANGED <<bootVars, intr, shadow, stack, idt, idtr, pic, raised>>

(* init_idt builds gate 32, copies it to 33 and 0 and that one to all.     *)
InitIdt == /\ At("idt", "page")
           /\ idt' = [v \in Vectors |-> Gate]
           /\ idtr' = NGates
           /\ UNCHANGED <<bootVars, processor, gdt, pic, raised>>

(* init_page and init_video, statement by statement.                       *)
InitMemory == /\ MainStep
              /\ At("page", IF pc' = "test" THEN "pic" ELSE "page")
              /\ shadow' = FALSE
              /\ UNCHANGED <<at, intr, stack, tables, pic, raised>>

(* Mutant: the end of an interrupt is left to the handler.                 *)
PicWritesNoAuto ==
    [pic  |-> <<"pic1", "master_data", 254>>,
     pic1 |-> <<"pic2", "slave_data", 255>>,
     pic2 |-> <<"pic3", "master_cmd", 17>>,
     pic3 |-> <<"pic4", "master_data", 0>>,
     pic4 |-> <<"pic5", "master_data", 16>>,
     pic5 |-> <<"sti", "master_data", 0>>]

(* The bytes that init_i8259_pic writes: 0xFE, 0xFF, 0x11, 0, 0x10, 2.     *)
PicWrites ==
    [pic  |-> <<"pic1", "master_data", 254>>,
     pic1 |-> <<"pic2", "slave_data", 255>>,
     pic2 |-> <<"pic3", "master_cmd", 17>>,
     pic3 |-> <<"pic4", "master_data", 0>>,
     pic4 |-> <<"pic5", "master_data", 16>>,
     pic5 |-> <<"sti", "master_data", 2>>]

InitPic == \E s \in DOMAIN PicWrites :
              /\ At(s, PicWrites[s][1])
              /\ pic' = Outb(PicWrites[s][2], PicWrites[s][3])
              /\ UNCHANGED <<bootVars, processor, tables, raised>>

Sti == /\ At("sti", "int")
       /\ intr' = TRUE
       /\ shadow' = TRUE
       /\ UNCHANGED <<bootVars, at, stack, tables, pic, raised>>

SoftwareInt == /\ At("int", "test")
               /\ Deliver(0, <<>>)
               /\ UNCHANGED <<bootVars, tables, pic, raised>>

TestPage == /\ MainStep
            /\ At("test", IF pc' = "screen" THEN "iret" ELSE "test")
            /\ shadow' = FALSE
            /\ UNCHANGED <<at, intr, stack, tables, pic, raised>>

(* Mutant: the game is entered with interrupts enabled.                    *)
ThreadTaskEnabled == [eip |-> "game", eflags |-> "IF1"]

(* main's own frame for iret; eflags is 0x2.                               *)
thread_task == [eip |-> "game", eflags |-> "IF0"]

EnterGame == /\ At("iret", thread_task.eip)
             /\ intr' = (thread_task.eflags = "IF1")
             /\ shadow' = FALSE
             /\ UNCHANGED <<bootVars, at, stack, tables, pic, raised>>

FirstFrame == /\ At("game", "game")
              /\ MainStep
              /\ shadow' = FALSE
              /\ UNCHANGED <<at, intr, stack, tables, pic, raised>>

(* An access of main that no page table entry translates.                  *)
Fault == /\ At(mpc, mpc)
         /\ Faulting
         /\ Deliver(PageFaultVector, <<"err">>)
         /\ UNCHANGED <<bootVars, tables, pic, raised>>

Main == \/ InitGdt \/ InitIdt \/ InitMemory \/ InitPic
        \/ Sti \/ SoftwareInt \/ TestPage \/ EnterGame \/ FirstFrame
        \/ Fault

-----------------------------------------------------------------------------
(* entry.S                                                                 *)
EntryStep(instruction, following) == /\ at = instruction
                                     /\ at' = following
                                     /\ UNCHANGED <<bootVars, mpc, tables, pic, raised>>

Top == stack[Len(stack)]
Pop(n) == SubSeq(stack, 1, Len(stack) - n)

Cli == EntryStep("cli", "push") /\ intr' = FALSE /\ shadow' = FALSE /\ UNCHANGED stack

PushEsp == /\ EntryStep("push", "call")
           /\ stack' = Append(stack, "esp")
           /\ shadow' = FALSE
           /\ UNCHANGED intr

(* irq_handle is empty: it returns to the next instruction.                *)
CallHandler == EntryStep("call", "add") /\ shadow' = FALSE /\ UNCHANGED <<stack, intr>>

(* Mutant: addl is left out.                                               *)
DropEspForgotten == EntryStep("add", "sti") /\ shadow' = FALSE /\ UNCHANGED <<stack, intr>>

DropEsp == EntryStep("add", "sti") /\ shadow' = FALSE /\ stack' = Pop(1) /\ UNCHANGED intr

StiEntry == EntryStep("sti", "iret") /\ intr' = TRUE /\ shadow' = TRUE /\ UNCHANGED stack

(* The three words on top are taken for eip, cs and eflags.                *)
Frame == /\ Len(stack) >= 3
         /\ Top \notin {"err", "esp"}
         /\ stack[Len(stack) - 1] = "cs"

Iret == /\ at = "iret"
        /\ IF Frame
           THEN /\ at' = Top
                /\ intr' = (stack[Len(stack) - 2] = "IF1")
                /\ stack' = Pop(3)
                /\ UNCHANGED pc
           ELSE /\ at' = "main"
                /\ pc' = "derailed"
                /\ UNCHANGED <<stack, intr>>
        /\ shadow' = FALSE
        /\ UNCHANGED <<vars, end, kpgdir, pg, table, job, vram, test_locals,
                       mpc, tables, pic, raised>>

Entry_S == Cli \/ PushEsp \/ CallHandler \/ DropEsp \/ StiEntry \/ Iret

-----------------------------------------------------------------------------
MachineInit == /\ BootInit
               /\ mpc = "gdt"
               /\ at = "main" /\ intr = FALSE /\ shadow = FALSE /\ stack = <<>>
               /\ gdt = BootGdt
               /\ \E g \in {Absent, Junk} : idt = [v \in Vectors |-> g]
               /\ idtr = 0
               /\ \E irr \in {{}, IRQs} :
                     pic = [imr |-> {}, irr |-> irr, isr |-> {}, icw |-> 0,
                            offset |-> 8, aeoi |-> FALSE, slave |-> TRUE]
               /\ raised = 0

Processor == Main \/ Entry_S \/ \E i \in IRQs : Accept(i)

MachineNext == Processor \/ \E i \in IRQs : Raise(i)

(* The processor runs on; devices need not raise anything.                 *)
MachineSpec == /\ MachineInit /\ [][MachineNext]_machineVars
               /\ WF_machineVars(Processor)

-----------------------------------------------------------------------------
(* entry.S: a handler is never interrupted, since sti takes effect only    *)
(* after its iret; so interrupts need a bounded part of main's stack, and  *)
(* none comes in the game, whose get_key polls.                            *)
HandlerAlone == /\ at \notin {"main", "reset"} => mpc # "game"
                /\ Len(stack) <= 5
                /\ at = "main" /\ pc # "derailed" => stack = <<>>

(* init_i8259_pic: no handler ever sends an end of interrupt, yet once the *)
(* controllers are set up a raised line waits for nothing but its turn:    *)
(* the first of them asks the processor, whatever was taken before, so     *)
(* that neither an unfinished interrupt nor a mask left from the first two *)
(* writes blocks it.                                                       *)
ControllersReady == mpc \in {"sti", "int", "test", "iret", "game"}

NoLineBlocked ==
    ControllersReady =>
        \A i \in pic.irr : (\A k \in pic.irr : i <= k) => i \in Asking

(* init_gdt: ltr looks at the type only and no task switch ever uses the   *)
(* segment, so nothing at run time would show it wrong: it begins at tss   *)
(* and holds all its 104 bytes, and the other two are flat.                *)
TssDescribed ==
    mpc # "gdt" => /\ Base(gdt[3]) = TssBase
                   /\ Limit(gdt[3])[1] > 0 \/ Limit(gdt[3])[2] >= 103
                   /\ Flat(gdt[1]) /\ Flat(gdt[2])

(* main, for all that interrupts do between its statements, is KernelBoot: *)
(* no handler changes what main works on or where it is, the processor     *)
(* never resets, and what a page fault meets ends where KernelBoot says.   *)
MainUndisturbed == BootSpec

(* What the comment of init_i8259_pic (interrupt.c:8-10) says it deals     *)
(* with: the vectors of the devices' interrupts are not those reserved for *)
(* the processor's exceptions.                                             *)
VectorsBeyondReserved == mpc \in {"int", "test"} => pic.offset >= 32
=============================================================================
