---------------------------- MODULE MachineProofs ---------------------------
(***************************************************************************)
(* Theorems about the kernel's processor from main to the game, for every  *)
(* set of devices and any number of interrupts they raise.                 *)
(*                                                                         *)
(* Interrupts and page faults enter entry.S between the statements of      *)
(* main, on main's stack.  The inductive invariant says which statements   *)
(* of main go with which of the boot path, that descriptors and gates are  *)
(* in place before anything is delivered through them, and what the stack  *)
(* holds at each instruction of entry.  From it, main with its interrupts  *)
(* is the boot path without them, so that what KernelBootProofs proves of  *)
(* the boot path holds of the machine.                                     *)
(***************************************************************************)
EXTENDS Machine, KernelBootProofs, SequenceTheorems

-----------------------------------------------------------------------------
(* What the statements of main find.                                       *)
PicSteps == {"pic", "pic1", "pic2", "pic3", "pic4", "pic5"}
Handler == {"cli", "push", "call", "add", "sti", "iret"}

(* The statement of main and the one of the boot path go together.         *)
Stage == /\ mpc \in {"gdt", "idt", "page", "sti", "int", "test", "iret", "game"}
                     \cup PicSteps
         /\ mpc \in {"gdt", "idt"} => pc = "pgdir"
         /\ mpc = "page" => pc \notin AfterVideo
         /\ mpc \in PicSteps \cup {"sti", "int"} => pc = "test"
         /\ mpc = "test" => pc \in {"test", "release", "walk", "derailed"}
         /\ mpc = "iret" => pc = "screen"
         /\ mpc = "game" => pc \in {"screen", "shown"}

(* What an interrupt is delivered through.                                 *)
Loaded == /\ mpc # "gdt" => gdt = KernelGdt
          /\ mpc \notin {"gdt", "idt"} => /\ idt = [v \in Vectors |-> Gate]
                                         /\ idtr = NGates

Controllers == [imr : SUBSET (0..7), irr : SUBSET (0..7), isr : SUBSET (0..7),
                icw : Int, offset : Int, aeoi : BOOLEAN, slave : BOOLEAN]

(* Which of its command words the master expects.                          *)
Programmed == /\ pic \in Controllers
              /\ pic.icw = IF mpc = "pic3" THEN 2 ELSE IF mpc = "pic4" THEN 3
                           ELSE IF mpc = "pic5" THEN 4 ELSE 0
              /\ pic.offset \in {0, 8}

(* Words on main's stack: an interrupt's frame or a page fault's, which    *)
(* nothing repairs.                                                        *)
Flags == {"IF0", "IF1"}

Interrupted(s) == /\ \E f \in Flags : s = <<f, "cs", "main">>
                  /\ mpc \in {"int", "test", "iret"}

Faulted(s) == /\ \E f \in Flags : s = <<f, "cs", "main", "err">>
              /\ Faulting
              /\ mpc \in {"page", "test"}

Stacked == /\ Len(stack) <= 5
           /\ at = "main" /\ pc # "derailed" => stack = <<>>
           /\ at \in {"cli", "push", "sti", "iret"} =>
                 Interrupted(stack) \/ Faulted(stack)
           /\ at \in {"call", "add"} =>
                 \E f \in Flags :
                    \/ /\ stack = <<f, "cs", "main", "esp">>
                       /\ Interrupted(<<f, "cs", "main">>)
                    \/ /\ stack = <<f, "cs", "main", "err", "esp">>
                       /\ Faulted(<<f, "cs", "main", "err">>)

(* Where interrupts are enabled.                                           *)
Masked == /\ intr \in BOOLEAN /\ shadow \in BOOLEAN
          /\ at = "main" /\ intr /\ pc # "derailed" => mpc \in {"int", "test", "iret"}
          /\ at \in Handler => /\ intr => at = "iret" /\ shadow
                               /\ pc # "derailed"

MachineIInv == /\ BootIInv
               /\ at \in Handler \cup {"main"}
               /\ Stage
               /\ Loaded
               /\ Programmed
               /\ Stacked
               /\ Masked

-----------------------------------------------------------------------------
(* Descriptors                                                             *)

(* Twelve bits and four, put together and taken apart.                     *)
LEMMA Join ==
  ASSUME NEW part \in Nat, NEW nibble \in 0..15
  PROVE  (part * 16 + nibble) \div 16 = part /\ (part * 16 + nibble) % 16 = nibble
<1>1. part \in Int /\ 0 <= part /\ nibble \in Int /\ 0 <= nibble /\ nibble <= 15
  BY SMT
<1> QED
  BY <1>1, SMT

(* set_descriptor (kernel/segment.c): the processor finds the base that    *)
(* was asked for, and a limit that is the one asked for up to the end of   *)
(* its page.                                                               *)
THEOREM DescriptorKept ==
  ASSUME NEW type, NEW dpl, NEW base \in Word, NEW limit \in Word
  PROVE  /\ Base(set_descriptor(type, dpl, base, limit)) = base
         /\ Limit(set_descriptor(type, dpl, base, limit))
              = <<limit[1], (limit[2] \div 4096) * 4096 + 4095>>
<1> PICK b1 \in Half, b2 \in Half : base = <<b1, b2>>
  BY DEF Word
<1> PICK l1 \in Half, l2 \in Half : limit = <<l1, l2>>
  BY DEF Word
<1> DEFINE d == set_descriptor(type, dpl, base, limit)
<1> HIDE DEF d
<1>1. Base(d) = <<b1, b2>>
  <2>1. /\ d.sd_base_31_24 = b1 \div 256
        /\ d.sd_base_23_16 = b1 % 256
        /\ d.sd_base_15_0 = b2
    BY DEF set_descriptor, d
  <2>2. (b1 \div 256) * 256 + (b1 % 256) = b1
    BY SMT DEF Half
  <2> QED
    BY <2>1, <2>2 DEF Base
<1>2. Limit(d) = <<l1, (l2 \div 4096) * 4096 + 4095>>
  <2> DEFINE part == l1 % 4096
             high == l1 \div 4096
             nibble == l2 \div 4096
  <2>1. /\ d.sd_g = 1
        /\ d.sd_lim_19_16 = high
        /\ d.sd_lim_15_0 = part * 16 + nibble
    BY DEF set_descriptor, d
  <2>2. part \in Nat
    BY SMT DEF Half
  <2>3. nibble \in 0..15
    BY SMT DEF Half
  <2>4. high * 4096 + part = l1
    BY SMT DEF Half
  <2>5. nibble = l2 \div 4096
    OBVIOUS
  <2> HIDE DEF part, high, nibble
  <2>6. (part * 16 + nibble) \div 16 = part /\ (part * 16 + nibble) % 16 = nibble
    BY <2>2, <2>3, Join
  <2>7. /\ d.sd_lim_19_16 * 4096 + d.sd_lim_15_0 \div 16 = l1
        /\ d.sd_lim_15_0 % 16 = nibble
    BY <2>1, <2>4, <2>6
  <2> QED
    BY <2>1, <2>5, <2>7 DEF Limit
<1>3. limit[1] = l1 /\ limit[2] = l2
  OBVIOUS
<1> QED
  BY <1>1, <1>2, <1>3 DEF d

(* init_gdt's code and data segments are flat: every address of 32 bits is *)
(* inside them and means itself.                                           *)
THEOREM KernelFlat ==
  ASSUME NEW type
  PROVE  Flat(set_descriptor(type, 0, Zero, AllOnes))
<1>1. Zero \in Word /\ AllOnes \in Word
  <2>1. 0 \in Half /\ 65535 \in Half
    BY SMT DEF Half
  <2> QED
    BY <2>1 DEF Zero, AllOnes, Word
<1>2. (65535 \div 4096) * 4096 + 4095 = 65535
  BY SMT
<1> QED
  BY <1>1, <1>2, DescriptorKept DEF Flat, Zero, AllOnes

-----------------------------------------------------------------------------
(* The boot path under the machine                                         *)

(* What interrupts leave alone.                                            *)
LEMMA BootKept ==
  ASSUME BootIInv, UNCHANGED bootVars
  PROVE  BootIInv' /\ pc' = pc /\ panic' = panic /\ (Faulting' <=> Faulting)
<1>1. BootIInv'
  BY BootNextIInv
<1>2. UNCHANGED <<vars, pc, kpgdir, pg, table, job, vram, page>>
  BY DEF bootVars, onlyBoot, test_locals
<1>3. panic' = panic
  BY <1>2 DEF vars
<1>4. Touched' = Touched
  BY <1>2 DEF Touched
<1>5. \A v : Phys(v)' = Phys(v)
  BY <1>2 DEF Phys, Translate
<1> QED
  BY <1>1, <1>2, <1>3, <1>4, <1>5 DEF Faulting

(* main faults in init_page, init_video or test_page.                      *)
LEMMA WhereFaults ==
  ASSUME BootIInv, Stage, Faulting
  PROVE  mpc \in {"page", "test"} /\ pc # "derailed"
<1>1. pc \in {"clearDir", "link", "clearTab", "fill", "screen", "walk"}
  BY DEF Faulting, Touched
<1>2. pc # "screen"
  BY FaultsJustified
<1> QED
  BY <1>1, <1>2 DEF Stage, PicSteps

(* Once main is past init_idt the processor delivers every vector through  *)
(* an interrupt gate.                                                      *)
LEMMA Delivered ==
  ASSUME Loaded, mpc \notin {"gdt", "idt"}, NEW v \in Vectors
  PROVE  Deliverable(v) /\ idt[v].gd_type = "STS_IG32"
<1>1. gdt = KernelGdt /\ idt[v] = Gate /\ idtr = 48 /\ v < 48
  BY DEF Loaded, NGates, Vectors
<1>2. KernelCode(gdt[1])
  <2>1. gdt[1] = set_descriptor(10, 0, Zero, AllOnes)
    BY <1>1 DEF KernelGdt, STA_X, STA_R
  <2>2. Flat(gdt[1])
    BY <2>1, KernelFlat
  <2>3. /\ gdt[1].sd_p = 1 /\ gdt[1].sd_s = 1 /\ gdt[1].sd_dpl = 0
        /\ gdt[1].sd_type = 10
    BY <2>1 DEF set_descriptor
  <2> QED
    BY <2>2, <2>3 DEF KernelCode, STA_X
<1> QED
  BY <1>1, <1>2 DEF Deliverable, Gate

(* A word more on the stack.                                               *)
LEMMA OnTop ==
  ASSUME NEW S, NEW s \in Seq(S), NEW word \in S, NEW u \in Seq(S),
         Len(u) = Len(s) + 1, \A i \in 1..Len(s) : u[i] = s[i],
         u[Len(s) + 1] = word
  PROVE  Append(s, word) = u /\ s \o <<word>> = u
<1> DEFINE n == Len(s)
<1>1. /\ Append(s, word) \in Seq(S) /\ Len(Append(s, word)) = n + 1
      /\ Append(s, word)[n + 1] = word
      /\ \A i \in 1..n : Append(s, word)[i] = s[i]
  BY AppendProperties
<1>2. Append(s, word) = u
  <2> DEFINE v == Append(s, word)
  <2>1. v \in Seq(S) /\ Len(v) = n + 1 /\ \A i \in 1..(n + 1) : v[i] = u[i]
    BY <1>1
  <2> HIDE DEF v
  <2>2. v = u
    BY <2>1, SeqEqual
  <2> QED
    BY <2>2 DEF v
<1>3. s \o <<word>> = Append(s, word)
  BY AppendIsConcat
<1> QED
  BY <1>2, <1>3

(* What is under the words on top.                                         *)
LEMMA Under ==
  ASSUME NEW S, NEW s \in Seq(S), NEW u \in Seq(S),
         Len(s) <= Len(u), \A i \in 1..Len(s) : u[i] = s[i]
  PROVE  SubSeq(u, 1, Len(s)) = s
<1> DEFINE v == SubSeq(u, 1, Len(s))
<1>1. Len(s) \in Nat /\ Len(u) \in Nat /\ \A i \in 1..Len(s) : u[i] \in S
  OBVIOUS
<1>2. /\ v \in Seq(S) /\ Len(v) = IF 1 <= Len(s) THEN Len(s) ELSE 0
      /\ \A i \in 1..Len(s) : v[i] = u[i]
  BY <1>1, SubSeqProperties
<1> HIDE DEF v
<1>3. v = s
  BY <1>1, <1>2, SeqEqual
<1> QED
  BY <1>3 DEF v

(* The words of an interrupt's frame and of a fault's.                     *)
LEMMA Words ==
  ASSUME NEW f \in Flags
  PROVE  /\ <<>> \o <<f, "cs", "main">> = <<f, "cs", "main">>
         /\ <<f, "cs", "main">> \o <<>> = <<f, "cs", "main">>
         /\ <<f, "cs", "main">> \o <<"err">> = <<f, "cs", "main", "err">>
         /\ Append(<<f, "cs", "main">>, "esp") = <<f, "cs", "main", "esp">>
         /\ Append(<<f, "cs", "main", "err">>, "esp")
              = <<f, "cs", "main", "err", "esp">>
         /\ SubSeq(<<f, "cs", "main", "esp">>, 1, 3) = <<f, "cs", "main">>
         /\ SubSeq(<<f, "cs", "main", "err", "esp">>, 1, 4)
              = <<f, "cs", "main", "err">>
<1> DEFINE S == Flags \cup {"cs", "main", "err", "esp"}
           err == "err"
           esp == "esp"
           irq == <<f, "cs", "main">>
           irqesp == <<f, "cs", "main", "esp">>
           fault == <<f, "cs", "main", "err">>
           faultesp == <<f, "cs", "main", "err", "esp">>
<1>1. f \in S /\ "cs" \in S /\ "main" \in S /\ err \in S /\ esp \in S
  OBVIOUS
<1> HIDE DEF S
<1>2. /\ irq \in Seq(S) /\ irqesp \in Seq(S)
      /\ fault \in Seq(S) /\ faultesp \in Seq(S)
      /\ Len(irq) = 3 /\ Len(irqesp) = 3 + 1 /\ Len(fault) = 3 + 1
      /\ Len(fault) = 4 /\ Len(faultesp) = 4 + 1
  BY <1>1
<1>3. /\ \A i \in 1..3 : irqesp[i] = irq[i]
      /\ \A i \in 1..3 : fault[i] = irq[i]
      /\ \A i \in 1..4 : faultesp[i] = fault[i]
      /\ irqesp[3 + 1] = esp /\ fault[3 + 1] = err /\ faultesp[4 + 1] = esp
  OBVIOUS
<1> HIDE DEF irq, irqesp, fault, faultesp, err, esp
<1>4. <<>> \o irq = irq /\ irq \o <<>> = irq
  BY <1>2, ConcatEmptySeq
<1>5. irq \o <<err>> = fault
  <2>1. /\ err \in S /\ Len(fault) = Len(irq) + 1
        /\ \A i \in 1..Len(irq) : fault[i] = irq[i]
        /\ fault[Len(irq) + 1] = err
    BY <1>1, <1>2, <1>3
  <2> QED
    BY <1>2, <2>1, OnTop
<1>6. Append(irq, esp) = irqesp
  <2>1. /\ esp \in S /\ Len(irqesp) = Len(irq) + 1
        /\ \A i \in 1..Len(irq) : irqesp[i] = irq[i]
        /\ irqesp[Len(irq) + 1] = esp
    BY <1>1, <1>2, <1>3
  <2> QED
    BY <1>2, <2>1, OnTop
<1>7. Append(fault, esp) = faultesp
  <2>1. /\ esp \in S /\ Len(faultesp) = Len(fault) + 1
        /\ \A i \in 1..Len(fault) : faultesp[i] = fault[i]
        /\ faultesp[Len(fault) + 1] = esp
    BY <1>1, <1>2, <1>3
  <2> QED
    BY <1>2, <2>1, OnTop
<1>8. SubSeq(irqesp, 1, 3) = irq
  <2>1. Len(irq) <= Len(irqesp) /\ \A i \in 1..Len(irq) : irqesp[i] = irq[i]
    BY <1>2, <1>3
  <2> QED
    BY <1>2, <2>1, Under
<1>9. SubSeq(faultesp, 1, 4) = fault
  <2>1. Len(fault) <= Len(faultesp) /\ \A i \in 1..Len(fault) : faultesp[i] = fault[i]
    BY <1>2, <1>3
  <2> QED
    BY <1>2, <2>1, Under
<1> QED
  BY <1>4, <1>5, <1>6, <1>7, <1>8, <1>9 DEF irq, irqesp, fault, faultesp, err, esp

-----------------------------------------------------------------------------
(* The machine, step by step                                               *)

LEMMA MachineInitIInv == MachineInit => MachineIInv
<1> SUFFICES ASSUME MachineInit PROVE MachineIInv
  OBVIOUS
<1>1. BootInit /\ mpc = "gdt" /\ at = "main" /\ intr = FALSE /\ shadow = FALSE
      /\ stack = <<>> /\ pc = "pgdir"
  BY DEF MachineInit, BootInit
<1>2. BootIInv
  BY <1>1, BootInitIInv
<1>3. Stage /\ Loaded
  BY <1>1 DEF Stage, Loaded, PicSteps
<1>4. Programmed
  <2>1. IRQs \in SUBSET (0..7)
    BY MachineAssumption
  <2>2. PICK irr \in SUBSET (0..7) :
           pic = [imr |-> {}, irr |-> irr, isr |-> {}, icw |-> 0,
                  offset |-> 8, aeoi |-> FALSE, slave |-> TRUE]
    BY <2>1 DEF MachineInit
  <2> QED
    BY <1>1, <2>2 DEF Programmed, Controllers
<1>5. Stacked
  BY <1>1 DEF Stacked
<1>6. Masked
  <2>1. at \notin Handler /\ ~intr /\ ~shadow
    BY <1>1 DEF Handler
  <2>2. intr \in BOOLEAN /\ shadow \in BOOLEAN
    BY <1>1, Zenon
  <2> QED
    BY <2>1, <2>2, Zenon DEF Masked
<1> QED
  BY <1>1, <1>2, <1>3, <1>4, <1>5, <1>6 DEF MachineIInv

(* init_gdt: the task register can be loaded, so that the processor goes   *)
(* on.                                                                     *)
LEMMA InitGdtIInv == MachineIInv /\ InitGdt => MachineIInv'
<1> SUFFICES ASSUME MachineIInv, InitGdt PROVE MachineIInv'
  OBVIOUS
<1>1. /\ at = "main" /\ pc # "derailed" /\ mpc = "gdt" /\ mpc' = "idt"
      /\ gdt' = KernelGdt /\ at' = IF FreeTask(gdt'[3]) THEN at ELSE "reset"
      /\ UNCHANGED <<bootVars, intr, shadow, stack, idt, idtr, pic>>
  BY DEF InitGdt, At
<1>2. FreeTask(KernelGdt[3])
  <2>1. KernelGdt[3] = [set_descriptor(9, 0, TssBase, <<0, 103>>) EXCEPT !.sd_s = 0]
    BY DEF KernelGdt, STS_T32A
  <2>2. KernelGdt[3].sd_p = 1 /\ KernelGdt[3].sd_s = 0 /\ KernelGdt[3].sd_type = 9
    BY <2>1 DEF set_descriptor
  <2> QED
    BY <2>2 DEF FreeTask, STS_T32A
<1>3. BootIInv' /\ pc' = pc /\ (Faulting' <=> Faulting) /\ at' = at
  BY <1>1, <1>2, BootKept DEF MachineIInv
<1>4. Stage' /\ Loaded'
  BY <1>1, <1>3 DEF MachineIInv, Stage, Loaded, PicSteps
<1>5. Programmed' /\ Stacked' /\ Masked'
  BY <1>1, <1>3 DEF MachineIInv, Programmed, Stacked, Masked, Handler
<1> QED
  BY <1>1, <1>3, <1>4, <1>5 DEF MachineIInv

LEMMA InitIdtIInv == MachineIInv /\ InitIdt => MachineIInv'
<1> SUFFICES ASSUME MachineIInv, InitIdt PROVE MachineIInv'
  OBVIOUS
<1>1. /\ at = "main" /\ pc # "derailed" /\ mpc = "idt" /\ mpc' = "page"
      /\ idt' = [v \in Vectors |-> Gate] /\ idtr' = NGates
      /\ UNCHANGED <<bootVars, at, intr, shadow, stack, gdt, pic>>
  BY DEF InitIdt, At, processor
<1>2. BootIInv' /\ pc' = pc /\ (Faulting' <=> Faulting)
  BY <1>1, BootKept DEF MachineIInv
<1>3. Stage' /\ Loaded'
  BY <1>1, <1>2 DEF MachineIInv, Stage, Loaded, PicSteps, AfterVideo
<1>4. Programmed' /\ Stacked' /\ Masked'
  BY <1>1, <1>2 DEF MachineIInv, Programmed, Stacked, Masked, Handler
<1> QED
  BY <1>1, <1>2, <1>3, <1>4 DEF MachineIInv

(* Where main's memory path goes from a statement.                         *)
LEMMA MainPath ==
  ASSUME BootIInv, MainStep
  PROVE  /\ pc' # "derailed" /\ pc # "derailed"
         /\ pc \notin AfterVideo => pc' \notin AfterVideo \ {"test"}
         /\ pc \in {"test", "release", "walk"} =>
               pc' \in {"test", "release", "walk", "screen"}
         /\ pc \in {"screen", "shown"} => pc' \in {"screen", "shown"}
<1>1. pc = "link" => job.ret \in {"enable", "test"}
  BY DEF BootIInv, Progress, InLoop, Job
<1> QED
  BY <1>1
     DEF MainStep, GetPgdir, ClearDir, AllocTab, ClearTab, Fill, Link,
         EnablePaging, InitVideo, TestAlloc, TestRelease, TestWalk, UpdateScreen,
         OutOfPages, Running, AfterVideo, onlyBoot

(* A statement of the memory path, in init_page, init_video, test_page and *)
(* the game.                                                               *)
LEMMA MemoryIInv ==
  MachineIInv /\ (InitMemory \/ TestPage \/ FirstFrame) => MachineIInv'
<1> SUFFICES ASSUME MachineIInv, InitMemory \/ TestPage \/ FirstFrame
             PROVE  MachineIInv'
  OBVIOUS
<1>1. /\ MainStep /\ at = "main" /\ shadow' = FALSE
      /\ UNCHANGED <<at, intr, stack, gdt, idt, idtr, pic>>
      /\ \/ mpc = "page" /\ mpc' = IF pc' = "test" THEN "pic" ELSE "page"
         \/ mpc = "test" /\ mpc' = IF pc' = "screen" THEN "iret" ELSE "test"
         \/ mpc = "game" /\ mpc' = "game"
  BY DEF InitMemory, TestPage, FirstFrame, At, tables
<1>2. BootIInv'
  BY <1>1, MainStepIInv DEF MachineIInv
<1>3. /\ pc' # "derailed" /\ pc # "derailed"
      /\ pc \notin AfterVideo => pc' \notin AfterVideo \ {"test"}
      /\ pc \in {"test", "release", "walk"} =>
            pc' \in {"test", "release", "walk", "screen"}
      /\ pc \in {"screen", "shown"} => pc' \in {"screen", "shown"}
  BY <1>1, MainPath DEF MachineIInv
<1>4. Stage'
  BY <1>1, <1>3 DEF MachineIInv, Stage, PicSteps
<1>5. Loaded'
  BY <1>1 DEF MachineIInv, Loaded
<1>6. Programmed'
  BY <1>1 DEF MachineIInv, Programmed
<1>7. Stacked'
  BY <1>1, <1>3 DEF MachineIInv, Stacked
<1>8. Masked'
  BY <1>1, <1>3 DEF MachineIInv, Masked, Handler
<1> QED
  BY <1>1, <1>2, <1>4, <1>5, <1>6, <1>7, <1>8 DEF MachineIInv

(* One field of the controllers at a time.                                 *)
LEMMA FieldSet ==
  ASSUME NEW p \in Controllers
  PROVE  /\ \A n \in Int : /\ [p EXCEPT !.icw = n] \in Controllers
                          /\ [p EXCEPT !.icw = n].icw = n
                          /\ [p EXCEPT !.icw = n].offset = p.offset
         /\ \A n \in Int : /\ [p EXCEPT !.offset = n] \in Controllers
                          /\ [p EXCEPT !.offset = n].offset = n
         /\ \A s \in SUBSET (0..7) : /\ [p EXCEPT !.imr = s] \in Controllers
                                     /\ [p EXCEPT !.imr = s].icw = p.icw
                                     /\ [p EXCEPT !.imr = s].offset = p.offset
                                     /\ [p EXCEPT !.irr = s] \in Controllers
                                     /\ [p EXCEPT !.irr = s].icw = p.icw
                                     /\ [p EXCEPT !.irr = s].offset = p.offset
                                     /\ [p EXCEPT !.isr = s] \in Controllers
                                     /\ [p EXCEPT !.isr = s].icw = p.icw
                                     /\ [p EXCEPT !.isr = s].offset = p.offset
         /\ \A b \in BOOLEAN : /\ [p EXCEPT !.aeoi = b] \in Controllers
                               /\ [p EXCEPT !.aeoi = b].icw = p.icw
                               /\ [p EXCEPT !.aeoi = b].offset = p.offset
                               /\ [p EXCEPT !.slave = b] \in Controllers
                               /\ [p EXCEPT !.slave = b].icw = p.icw
                               /\ [p EXCEPT !.slave = b].offset = p.offset
BY DEF Controllers

(* What the master makes of a byte, by the command word it expects.        *)
LEMMA MasterData ==
  ASSUME NEW val
  PROVE  /\ pic.icw = 0 => \E s \in SUBSET (0..7) :
                Outb("master_data", val) = [pic EXCEPT !.imr = s]
         /\ pic.icw = 2 => Outb("master_data", val)
                = [pic EXCEPT !.offset = val - (val % 8), !.icw = 3]
         /\ pic.icw = 3 => Outb("master_data", val) = [pic EXCEPT !.icw = 4]
         /\ pic.icw = 4 => Outb("master_data", val)
                = [pic EXCEPT !.aeoi = Bit(val, 1) = 1, !.icw = 0]
<1> DEFINE command == IF Bit(val, 4) = 1 THEN Restarted ELSE pic
           slave == [pic EXCEPT !.slave = val # 255]
           masks == [pic EXCEPT !.imr = {i \in 0..7 : Bit(val, i) = 1}]
           icw2 == [pic EXCEPT !.offset = val - (val % 8), !.icw = 3]
           icw3 == [pic EXCEPT !.icw = 4]
           icw4 == [pic EXCEPT !.aeoi = Bit(val, 1) = 1, !.icw = 0]
<1>1. Outb("master_data", val) =
        CASE "master_data" = "master_cmd" -> command
          [] "master_data" = "slave_data" -> slave
          [] "master_data" = "master_data" ->
               (CASE pic.icw = 0 -> masks [] pic.icw = 2 -> icw2
                  [] pic.icw = 3 -> icw3 [] pic.icw = 4 -> icw4)
  BY Zenon DEF Outb
<1> HIDE DEF command, slave, masks, icw2, icw3, icw4
<1>2. /\ pic.icw = 0 => Outb("master_data", val) = masks
      /\ pic.icw = 2 => Outb("master_data", val) = icw2
      /\ pic.icw = 3 => Outb("master_data", val) = icw3
      /\ pic.icw = 4 => Outb("master_data", val) = icw4
  BY <1>1
<1>3. \E s \in SUBSET (0..7) : masks = [pic EXCEPT !.imr = s]
  <2> DEFINE ones == {i \in 0..7 : Bit(val, i) = 1}
  <2>1. ones \in SUBSET (0..7)
    OBVIOUS
  <2>2. masks = [pic EXCEPT !.imr = ones]
    BY DEF masks
  <2> HIDE DEF ones
  <2> QED
    BY <2>1, <2>2
<1> QED
  BY <1>2, <1>3, Zenon DEF icw2, icw3, icw4

LEMMA OtherPorts ==
  /\ Outb("slave_data", 255) = [pic EXCEPT !.slave = FALSE]
  /\ Outb("master_cmd", 17) = Restarted
<1>1. Bit(17, 4) = 1
  BY DEF Bit
<1> HIDE DEF Bit
<1>2. Outb("master_cmd", 17) = Restarted
  BY <1>1 DEF Outb
<1>3. Outb("slave_data", 255) = [pic EXCEPT !.slave = FALSE]
  BY DEF Outb
<1> QED
  BY <1>2, <1>3

(* init_i8259_pic: six bytes take the master from its masks through its    *)
(* four command words.                                                     *)
LEMMA PicWritten ==
  ASSUME Programmed, mpc \in PicSteps, pic' = Outb(PicWrites[mpc][2], PicWrites[mpc][3]),
         mpc' = PicWrites[mpc][1]
  PROVE  Programmed' /\ mpc' \in (PicSteps \ {"pic"}) \cup {"sti"}
<1>1. pic \in Controllers /\ pic.offset \in {0, 8}
  BY DEF Programmed
<1>2. CASE mpc = "pic"
  <2>1. mpc' = "pic1" /\ pic' = Outb("master_data", 254) /\ pic.icw = 0
    BY <1>2 DEF PicWrites, Programmed
  <2>2. PICK s \in SUBSET (0..7) : pic' = [pic EXCEPT !.imr = s]
    <3>1. \E s \in SUBSET (0..7) : Outb("master_data", 254) = [pic EXCEPT !.imr = s]
      <4>1. pic.icw = 0
        BY <2>1
      <4>2. \A v : pic.icw = 0 => \E s \in SUBSET (0..7) :
                     Outb("master_data", v) = [pic EXCEPT !.imr = s]
        BY MasterData, Zenon
      <4> QED
        BY <4>1, <4>2
    <3> HIDE DEF Outb
    <3> QED
      BY <2>1, <3>1
  <2>3. pic' \in Controllers /\ pic'.icw = 0 /\ pic'.offset = pic.offset
    BY <1>1, <2>1, <2>2 DEF Controllers
  <2> QED
    BY <1>1, <2>1, <2>3 DEF Programmed, PicSteps
<1>3. CASE mpc = "pic1"
  <2>1. mpc' = "pic2" /\ pic' = [pic EXCEPT !.slave = FALSE] /\ pic.icw = 0
    BY <1>3, OtherPorts DEF PicWrites, Programmed
  <2>2. pic' \in Controllers /\ pic'.icw = 0 /\ pic'.offset = pic.offset
    BY <1>1, <2>1 DEF Controllers
  <2> QED
    BY <1>1, <2>1, <2>2 DEF Programmed, PicSteps
<1>4. CASE mpc = "pic2"
  <2> DEFINE p1 == [pic EXCEPT !.imr = {}]
             p2 == [p1 EXCEPT !.irr = {}]
             p3 == [p2 EXCEPT !.isr = {}]
             p4 == [p3 EXCEPT !.aeoi = FALSE]
             p5 == [p4 EXCEPT !.icw = 2]
  <2>1. mpc' = "pic3" /\ pic' = Restarted
    BY <1>4, OtherPorts DEF PicWrites
  <2>2. Restarted = p5
    BY <1>1 DEF Restarted
  <2>3. {} \in SUBSET (0..7) /\ FALSE \in BOOLEAN
    OBVIOUS
  <2>4. p1 \in Controllers /\ p1.offset = pic.offset
    BY <1>1, <2>3, FieldSet
  <2>5. p2 \in Controllers /\ p2.offset = pic.offset
    <3> HIDE DEF p1
    <3> QED
      BY <2>3, <2>4, FieldSet
  <2>6. p3 \in Controllers /\ p3.offset = pic.offset
    <3> HIDE DEF p2
    <3> QED
      BY <2>3, <2>5, FieldSet
  <2>7. p4 \in Controllers /\ p4.offset = pic.offset
    <3> HIDE DEF p3
    <3> QED
      BY <2>3, <2>6, FieldSet
  <2>8. p5 \in Controllers /\ p5.icw = 2 /\ p5.offset = pic.offset
    <3> HIDE DEF p4
    <3> QED
      BY <2>7, FieldSet
  <2> HIDE DEF p1, p2, p3, p4, p5
  <2> QED
    BY <1>1, <2>1, <2>2, <2>8 DEF Programmed, PicSteps
<1>5. CASE mpc = "pic3"
  <2> DEFINE p1 == [pic EXCEPT !.offset = 0]
             p2 == [p1 EXCEPT !.icw = 3]
  <2>1. mpc' = "pic4" /\ pic' = Outb("master_data", 0) /\ pic.icw = 2
    BY <1>5 DEF PicWrites, Programmed
  <2>2. pic' = [pic EXCEPT !.offset = 0 - (0 % 8), !.icw = 3]
    BY <2>1, MasterData, Zenon
  <2>3. pic' = p2
    BY <1>1, <2>2
  <2>4. p1 \in Controllers /\ p1.offset = 0
    BY <1>1, FieldSet
  <2>5. p2 \in Controllers /\ p2.icw = 3 /\ p2.offset = 0
    <3> HIDE DEF p1
    <3> QED
      BY <2>4, FieldSet
  <2> HIDE DEF p1, p2
  <2> QED
    BY <1>1, <2>1, <2>3, <2>5 DEF Programmed, PicSteps
<1>6. CASE mpc = "pic4"
  <2>1. mpc' = "pic5" /\ pic' = Outb("master_data", 16) /\ pic.icw = 3
    BY <1>6 DEF PicWrites, Programmed
  <2>2. pic' = [pic EXCEPT !.icw = 4]
    BY <2>1, MasterData, Zenon
  <2>3. pic' \in Controllers /\ pic'.icw = 4 /\ pic'.offset = pic.offset
    BY <1>1, <2>2, FieldSet
  <2> QED
    BY <1>1, <2>1, <2>3 DEF Programmed, PicSteps
<1>7. CASE mpc = "pic5"
  <2> DEFINE p1 == [pic EXCEPT !.aeoi = Bit(2, 1) = 1]
             p2 == [p1 EXCEPT !.icw = 0]
  <2>1. mpc' = "sti" /\ pic' = Outb("master_data", 2) /\ pic.icw = 4
    BY <1>7 DEF PicWrites, Programmed
  <2>2. pic' = [pic EXCEPT !.aeoi = Bit(2, 1) = 1, !.icw = 0]
    <3> HIDE DEF Bit
    <3> QED
      BY <2>1, MasterData, Zenon
  <2>3. pic' = p2
    <3> HIDE DEF Bit
    <3> QED
      BY <1>1, <2>2
  <2>4. p1 \in Controllers /\ p1.offset = pic.offset
    <3>1. (Bit(2, 1) = 1) \in BOOLEAN
      BY Zenon
    <3> QED
      BY <1>1, <3>1, FieldSet, Zenon
  <2>5. p2 \in Controllers /\ p2.icw = 0 /\ p2.offset = pic.offset
    <3> HIDE DEF p1
    <3> QED
      BY <2>4, FieldSet
  <2> HIDE DEF p1, p2
  <2> QED
    BY <1>1, <2>1, <2>3, <2>5 DEF Programmed, PicSteps
<1> QED
  BY <1>2, <1>3, <1>4, <1>5, <1>6, <1>7 DEF PicSteps

LEMMA InitPicIInv == MachineIInv /\ InitPic => MachineIInv'
<1> SUFFICES ASSUME MachineIInv, InitPic PROVE MachineIInv'
  OBVIOUS
<1>1. /\ mpc \in PicSteps
      /\ at = "main" /\ pc # "derailed"
      /\ mpc' = PicWrites[mpc][1] /\ pic' = Outb(PicWrites[mpc][2], PicWrites[mpc][3])
      /\ UNCHANGED <<bootVars, at, intr, shadow, stack, gdt, idt, idtr>>
  <2>1. DOMAIN PicWrites = PicSteps
    BY DEF PicWrites, PicSteps
  <2> QED
    BY <2>1 DEF InitPic, At, tables, processor
<1>2. BootIInv' /\ pc' = pc /\ (Faulting' <=> Faulting)
  BY <1>1, BootKept DEF MachineIInv
<1>3. Programmed' /\ mpc' \in (PicSteps \ {"pic"}) \cup {"sti"}
  BY <1>1, PicWritten DEF MachineIInv
<1>4. Stage' /\ Loaded'
  BY <1>1, <1>2, <1>3 DEF MachineIInv, Stage, Loaded, PicSteps
<1>5. Stacked'
  BY <1>1, <1>2 DEF MachineIInv, Stacked
<1>6. Masked'
  BY <1>1, <1>2 DEF MachineIInv, Masked, Handler, PicSteps
<1> QED
  BY <1>1, <1>2, <1>3, <1>4, <1>5, <1>6 DEF MachineIInv

LEMMA StiIInv == MachineIInv /\ Sti => MachineIInv'
<1> SUFFICES ASSUME MachineIInv, Sti PROVE MachineIInv'
  OBVIOUS
<1>1. /\ at = "main" /\ pc # "derailed" /\ mpc = "sti" /\ mpc' = "int"
      /\ intr' = TRUE /\ shadow' = TRUE
      /\ UNCHANGED <<bootVars, at, stack, gdt, idt, idtr, pic>>
  BY DEF Sti, At, tables
<1>2. BootIInv' /\ pc' = pc /\ (Faulting' <=> Faulting)
  BY <1>1, BootKept DEF MachineIInv
<1>3. Stage' /\ Loaded'
  BY <1>1, <1>2 DEF MachineIInv, Stage, Loaded, PicSteps
<1>4. Programmed' /\ Stacked'
  BY <1>1, <1>2 DEF MachineIInv, Programmed, Stacked
<1>5. Masked'
  <2>1. intr' \in BOOLEAN /\ shadow' \in BOOLEAN
    BY <1>1, Zenon
  <2>2. at' \notin Handler
    BY <1>1 DEF Handler
  <2> QED
    BY <1>1, <2>1, <2>2, Zenon DEF Masked
<1> QED
  BY <1>1, <1>2, <1>3, <1>4, <1>5 DEF MachineIInv

(* The frame that iret takes into the game has interrupts disabled.        *)
LEMMA EnterGameIInv == MachineIInv /\ EnterGame => MachineIInv'
<1> SUFFICES ASSUME MachineIInv, EnterGame PROVE MachineIInv'
  OBVIOUS
<1>1. /\ at = "main" /\ pc # "derailed" /\ mpc = "iret" /\ mpc' = "game"
      /\ intr' = FALSE /\ shadow' = FALSE
      /\ UNCHANGED <<bootVars, at, stack, gdt, idt, idtr, pic>>
  <2>1. thread_task.eip = "game" /\ (thread_task.eflags = "IF1") = FALSE
    BY DEF thread_task
  <2> QED
    BY <2>1 DEF EnterGame, At, tables
<1>2. BootIInv' /\ pc' = pc /\ (Faulting' <=> Faulting)
  BY <1>1, BootKept DEF MachineIInv
<1>3. Stage' /\ Loaded'
  BY <1>1, <1>2 DEF MachineIInv, Stage, Loaded, PicSteps
<1>4. Programmed' /\ Stacked'
  BY <1>1, <1>2 DEF MachineIInv, Programmed, Stacked
<1>5. Masked'
  <2>1. intr' \in BOOLEAN /\ shadow' \in BOOLEAN
    BY <1>1, Zenon
  <2>2. at' \notin Handler
    BY <1>1 DEF Handler
  <2> QED
    BY <1>1, <2>1, <2>2, Zenon DEF Masked
<1> QED
  BY <1>1, <1>2, <1>3, <1>4, <1>5 DEF MachineIInv

-----------------------------------------------------------------------------
(* Interrupts and faults                                                   *)

(* The processor enters entry with interrupts disabled and a frame on the  *)
(* stack of main, which was empty.                                         *)
LEMMA DeliverMain ==
  ASSUME MachineIInv, at = "main", pc # "derailed", mpc \notin {"gdt", "idt"},
         NEW v \in Vectors, NEW error, Deliver(v, error)
  PROVE  /\ at' = "cli" /\ intr' = FALSE /\ shadow' = FALSE
         /\ error = <<>> => \E f \in Flags : stack' = <<f, "cs", "main">>
         /\ error = <<"err">> => \E f \in Flags : stack' = <<f, "cs", "main", "err">>
<1>1. Deliverable(v) /\ idt[v].gd_type = "STS_IG32" /\ stack = <<>>
  BY Delivered DEF MachineIInv, Stacked
<1>2. /\ stack' = stack \o <<Flag, "cs", at>> \o error
      /\ at' = "cli" /\ shadow' = FALSE
      /\ intr' = (intr /\ idt[v].gd_type # "STS_IG32")
  BY <1>1, Zenon DEF Deliver
<1>3. intr' = FALSE
  <2>1. (intr /\ idt[v].gd_type # "STS_IG32") = FALSE
    BY <1>1, Zenon
  <2> QED
    BY <1>2, <2>1, Zenon
<1>4. Flag \in Flags
  BY DEF Flag, Flags
<1>5. stack' = <<>> \o <<Flag, "cs", "main">> \o error
  BY <1>1, <1>2
<1>6. <<>> \o <<Flag, "cs", "main">> = <<Flag, "cs", "main">>
  BY <1>4, Words
<1>7. stack' = <<Flag, "cs", "main">> \o error
  BY <1>5, <1>6, Zenon
<1>8. error = <<>> => stack' = <<Flag, "cs", "main">>
  <2>1. <<Flag, "cs", "main">> \o <<>> = <<Flag, "cs", "main">>
    BY <1>4, Words
  <2> QED
    BY <1>7, <2>1, Zenon
<1>9. error = <<"err">> => stack' = <<Flag, "cs", "main", "err">>
  <2>1. <<Flag, "cs", "main">> \o <<"err">> = <<Flag, "cs", "main", "err">>
    BY <1>4, Words
  <2> QED
    BY <1>7, <2>1, Zenon
<1> QED
  BY <1>2, <1>3, <1>4, <1>8, <1>9, Zenon

(* The statement or the access that is interrupted, and what the handler   *)
(* finds.                                                                  *)
LEMMA EnteredIInv ==
  ASSUME MachineIInv, UNCHANGED <<bootVars, gdt, idt, idtr>>, Programmed',
         at' = "cli", intr' = FALSE, shadow' = FALSE, pc # "derailed",
         Interrupted(stack)' \/ Faulted(stack)', Len(stack') <= 5,
         mpc' = mpc \/ (mpc = "int" /\ mpc' = "test")
  PROVE  MachineIInv'
<1>1. BootIInv' /\ pc' = pc
  BY BootKept DEF MachineIInv
<1>2. Stage' /\ Loaded'
  BY <1>1 DEF MachineIInv, Stage, Loaded, PicSteps
<1>3. Stacked'
  BY <1>1 DEF Stacked
<1>4. Masked'
  <2>1. intr' \in BOOLEAN /\ shadow' \in BOOLEAN
    BY Zenon
  <2> QED
    BY <1>1, <2>1, Zenon DEF Masked
<1>5. at' \in Handler \cup {"main"}
  BY DEF Handler
<1> QED
  BY <1>1, <1>2, <1>3, <1>4, <1>5 DEF MachineIInv

(* How long the frames are.                                                *)
LEMMA Lengths ==
  \A f \in Flags : /\ Len(<<f, "cs", "main">>) <= 5
                   /\ Len(<<f, "cs", "main", "err">>) <= 5
                   /\ Len(<<f, "cs", "main", "esp">>) <= 5
                   /\ Len(<<f, "cs", "main", "err", "esp">>) <= 5
OBVIOUS

LEMMA SoftwareIntIInv == MachineIInv /\ SoftwareInt => MachineIInv'
<1> SUFFICES ASSUME MachineIInv, SoftwareInt PROVE MachineIInv'
  OBVIOUS
<1>1. /\ at = "main" /\ pc # "derailed" /\ mpc = "int" /\ mpc' = "test"
      /\ Deliver(0, <<>>)
      /\ UNCHANGED <<bootVars, gdt, idt, idtr, pic>>
  BY DEF SoftwareInt, At, tables
<1>2. 0 \in Vectors
  BY DEF Vectors, NGates
<1>3. /\ at' = "cli" /\ intr' = FALSE /\ shadow' = FALSE
      /\ \E f \in Flags : stack' = <<f, "cs", "main">>
  BY <1>1, <1>2, DeliverMain
<1>4. Interrupted(stack)' /\ Len(stack') <= 5
  BY <1>1, <1>3, Lengths DEF Interrupted
<1>5. Programmed'
  BY <1>1 DEF MachineIInv, Programmed
<1> QED
  BY <1>1, <1>3, <1>4, <1>5, EnteredIInv

LEMMA FaultIInv == MachineIInv /\ Fault => MachineIInv'
<1> SUFFICES ASSUME MachineIInv, Fault PROVE MachineIInv'
  OBVIOUS
<1>1. /\ at = "main" /\ pc # "derailed" /\ mpc' = mpc /\ Faulting
      /\ Deliver(14, <<"err">>)
      /\ UNCHANGED <<bootVars, gdt, idt, idtr, pic>>
  BY DEF Fault, At, tables, PageFaultVector
<1>2. 14 \in Vectors /\ mpc \in {"page", "test"}
  BY <1>1, WhereFaults DEF Vectors, NGates, MachineIInv
<1>3. /\ at' = "cli" /\ intr' = FALSE /\ shadow' = FALSE
      /\ \E f \in Flags : stack' = <<f, "cs", "main", "err">>
  BY <1>1, <1>2, DeliverMain
<1>4. Faulting'
  BY <1>1, BootKept DEF MachineIInv
<1>5. Faulted(stack)' /\ Len(stack') <= 5
  BY <1>1, <1>2, <1>3, <1>4, Lengths DEF Faulted
<1>6. Programmed'
  BY <1>1 DEF MachineIInv, Programmed
<1> QED
  BY <1>1, <1>3, <1>5, <1>6, EnteredIInv

(* An interrupt is accepted only where main has enabled them: entry's sti  *)
(* takes effect after its iret.                                            *)
LEMMA AcceptIInv ==
  ASSUME MachineIInv, NEW i \in IRQs, Accept(i)
  PROVE  MachineIInv'
<1>1. /\ intr /\ ~shadow /\ pc # "derailed"
      /\ Deliver(pic.offset + i, <<>>)
      /\ pic' = [pic EXCEPT !.irr = @ \ {i},
                            !.isr = IF pic.aeoi THEN @ ELSE @ \cup {i}]
      /\ UNCHANGED <<bootVars, mpc, gdt, idt, idtr>>
  BY DEF Accept, tables
<1>2. at = "main" /\ mpc \in {"int", "test", "iret"}
  <2>1. at \notin Handler
    BY <1>1, Zenon DEF MachineIInv, Masked
  <2>2. at = "main"
    BY <2>1 DEF MachineIInv
  <2> QED
    BY <1>1, <2>2, Zenon DEF MachineIInv, Masked
<1>3. pic.offset + i \in Vectors /\ i \in 0..7
  <2>1. i \in 0..7 /\ pic.offset \in {0, 8}
    BY MachineAssumption DEF MachineIInv, Programmed
  <2> QED
    BY <2>1 DEF Vectors, NGates
<1>4. /\ at' = "cli" /\ intr' = FALSE /\ shadow' = FALSE
      /\ \E f \in Flags : stack' = <<f, "cs", "main">>
  BY <1>1, <1>2, <1>3, DeliverMain
<1>5. Interrupted(stack)' /\ Len(stack') <= 5
  BY <1>1, <1>2, <1>4, Lengths DEF Interrupted
<1>6. Programmed'
  <2> DEFINE s == IF pic.aeoi THEN pic.isr ELSE pic.isr \cup {i}
             p1 == [pic EXCEPT !.irr = pic.irr \ {i}]
             p2 == [p1 EXCEPT !.isr = s]
  <2>1. pic \in Controllers
    BY DEF MachineIInv, Programmed
  <2>2. pic' = p2
    BY <1>1, <2>1
  <2>3. pic.irr \ {i} \in SUBSET (0..7) /\ s \in SUBSET (0..7)
    BY <1>3, <2>1 DEF Controllers
  <2> HIDE DEF s
  <2>4. p1 \in Controllers /\ p1.icw = pic.icw /\ p1.offset = pic.offset
    BY <2>1, <2>3, FieldSet
  <2> HIDE DEF p1
  <2>5. p2 \in Controllers /\ p2.icw = pic.icw /\ p2.offset = pic.offset
    BY <2>3, <2>4, FieldSet
  <2> HIDE DEF p2
  <2> QED
    BY <1>1, <2>2, <2>5 DEF MachineIInv, Programmed
<1> QED
  BY <1>1, <1>4, <1>5, <1>6, EnteredIInv

LEMMA RaiseIInv ==
  ASSUME MachineIInv, NEW i \in IRQs, Raise(i)
  PROVE  MachineIInv'
<1>1. /\ pic' = [pic EXCEPT !.irr = @ \cup {i}]
      /\ UNCHANGED <<bootVars, mpc, at, intr, shadow, stack, gdt, idt, idtr>>
  BY DEF Raise, processor, tables
<1>2. BootIInv' /\ pc' = pc /\ (Faulting' <=> Faulting)
  BY <1>1, BootKept DEF MachineIInv
<1>3. Stage' /\ Loaded'
  BY <1>1, <1>2 DEF MachineIInv, Stage, Loaded
<1>4. Stacked'
  BY <1>1, <1>2 DEF MachineIInv, Stacked, Interrupted, Faulted
<1>5. Masked'
  BY <1>1, <1>2 DEF MachineIInv, Masked
<1>6. Programmed'
  <2>1. pic \in Controllers /\ i \in 0..7
    BY MachineAssumption DEF MachineIInv, Programmed
  <2>2. pic.irr \cup {i} \in SUBSET (0..7)
    BY <2>1 DEF Controllers
  <2>3. pic' \in Controllers /\ pic'.icw = pic.icw /\ pic'.offset = pic.offset
    BY <1>1, <2>1, <2>2, FieldSet
  <2> QED
    BY <1>1, <2>3 DEF MachineIInv, Programmed
<1> QED
  BY <1>1, <1>2, <1>3, <1>4, <1>5, <1>6 DEF MachineIInv

-----------------------------------------------------------------------------
(* entry.S, instruction by instruction                                     *)

(* Nothing but at, the flags and the stack changes.                        *)
LEMMA EntryIInv ==
  ASSUME MachineIInv, UNCHANGED <<bootVars, mpc, tables, pic>>,
         at \in Handler, at' \in Handler, intr' \in BOOLEAN, shadow' \in BOOLEAN,
         intr' => at' = "iret" /\ shadow',
         Len(stack') <= 5,
         at' \in {"cli", "push", "sti", "iret"} =>
             Interrupted(stack') \/ Faulted(stack'),
         at' \in {"call", "add"} =>
             \E f \in Flags : \/ /\ stack' = <<f, "cs", "main", "esp">>
                                 /\ Interrupted(<<f, "cs", "main">>)
                              \/ /\ stack' = <<f, "cs", "main", "err", "esp">>
                                 /\ Faulted(<<f, "cs", "main", "err">>)
  PROVE  MachineIInv'
<1>1. BootIInv' /\ pc' = pc /\ (Faulting' <=> Faulting)
  BY BootKept DEF MachineIInv
<1>2. Stage' /\ Loaded' /\ Programmed'
  BY <1>1 DEF MachineIInv, Stage, Loaded, Programmed, tables
<1>3. at' # "main"
  BY DEF Handler
<1>4. Stacked'
  <2>1. at' \in {"cli", "push", "sti", "iret"} =>
            Interrupted(stack)' \/ Faulted(stack)'
    BY <1>1 DEF Interrupted, Faulted
  <2>2. at' \in {"call", "add"} =>
            \E f \in Flags : \/ /\ stack' = <<f, "cs", "main", "esp">>
                                /\ Interrupted(<<f, "cs", "main">>)'
                             \/ /\ stack' = <<f, "cs", "main", "err", "esp">>
                                /\ Faulted(<<f, "cs", "main", "err">>)'
    BY <1>1, Zenon DEF Interrupted, Faulted
  <2> QED
    BY <1>3, <2>1, <2>2, Zenon DEF Stacked
<1>5. Masked'
  <2>1. pc' # "derailed"
    BY <1>1 DEF MachineIInv, Masked
  <2> QED
    BY <1>3, <2>1, Zenon DEF Masked
<1> QED
  BY <1>1, <1>2, <1>4, <1>5 DEF MachineIInv

LEMMA CliIInv == MachineIInv /\ Cli => MachineIInv'
<1> SUFFICES ASSUME MachineIInv, Cli PROVE MachineIInv'
  OBVIOUS
<1>1. /\ at = "cli" /\ at' = "push" /\ intr' = FALSE /\ shadow' = FALSE
      /\ UNCHANGED <<bootVars, mpc, tables, pic, stack>>
  BY DEF Cli, EntryStep
<1>2. at \in Handler /\ at' \in Handler
  BY <1>1 DEF Handler
<1>3. ~intr' /\ intr' \in BOOLEAN /\ shadow' \in BOOLEAN
  BY <1>1, Zenon
<1>4. Len(stack') <= 5 /\ (Interrupted(stack') \/ Faulted(stack'))
  BY <1>1 DEF MachineIInv, Stacked
<1> QED
  BY <1>1, <1>2, <1>3, <1>4, EntryIInv

LEMMA PushEspIInv == MachineIInv /\ PushEsp => MachineIInv'
<1> SUFFICES ASSUME MachineIInv, PushEsp PROVE MachineIInv'
  OBVIOUS
<1>1. /\ at = "push" /\ at' = "call" /\ shadow' = FALSE
      /\ stack' = Append(stack, "esp")
      /\ UNCHANGED <<bootVars, mpc, tables, pic, intr>>
  BY DEF PushEsp, EntryStep
<1>2. at \in Handler /\ at' \in Handler
  BY <1>1 DEF Handler
<1>3. ~intr' /\ intr' \in BOOLEAN /\ shadow' \in BOOLEAN
  <2>1. ~intr /\ intr \in BOOLEAN
    <3>1. at # "iret"
      BY <1>1
    <3> QED
      BY <1>2, <3>1, Zenon DEF MachineIInv, Masked
  <2> QED
    BY <1>1, <2>1, Zenon
<1>4. PICK f \in Flags : \/ /\ stack' = <<f, "cs", "main", "esp">>
                            /\ Interrupted(<<f, "cs", "main">>)
                         \/ /\ stack' = <<f, "cs", "main", "err", "esp">>
                            /\ Faulted(<<f, "cs", "main", "err">>)
  <2>1. CASE Interrupted(stack)
    <3>1. PICK f \in Flags : stack = <<f, "cs", "main">>
      BY <2>1 DEF Interrupted
    <3>2. stack' = <<f, "cs", "main", "esp">>
      BY <1>1, <3>1, Words
    <3> QED
      BY <2>1, <3>1, <3>2
  <2>2. CASE Faulted(stack)
    <3>1. PICK f \in Flags : stack = <<f, "cs", "main", "err">>
      BY <2>2 DEF Faulted
    <3>2. stack' = <<f, "cs", "main", "err", "esp">>
      BY <1>1, <3>1, Words
    <3> QED
      BY <2>2, <3>1, <3>2
  <2> QED
    BY <1>1, <2>1, <2>2 DEF MachineIInv, Stacked
<1>5. Len(stack') <= 5
  BY <1>4, Lengths
<1>6. at' \notin {"cli", "push", "sti", "iret"}
  BY <1>1
<1> QED
  BY <1>1, <1>2, <1>3, <1>4, <1>5, <1>6, EntryIInv

LEMMA CallHandlerIInv == MachineIInv /\ CallHandler => MachineIInv'
<1> SUFFICES ASSUME MachineIInv, CallHandler PROVE MachineIInv'
  OBVIOUS
<1>1. /\ at = "call" /\ at' = "add" /\ shadow' = FALSE
      /\ UNCHANGED <<bootVars, mpc, tables, pic, stack, intr>>
  BY DEF CallHandler, EntryStep
<1>2. at \in Handler /\ at' \in Handler
  BY <1>1 DEF Handler
<1>3. ~intr' /\ intr' \in BOOLEAN /\ shadow' \in BOOLEAN
  <2>1. ~intr /\ intr \in BOOLEAN
    <3>1. at # "iret"
      BY <1>1
    <3> QED
      BY <1>2, <3>1, Zenon DEF MachineIInv, Masked
  <2> QED
    BY <1>1, <2>1, Zenon
<1>4. Len(stack') <= 5
      /\ \E f \in Flags : \/ /\ stack' = <<f, "cs", "main", "esp">>
                             /\ Interrupted(<<f, "cs", "main">>)
                          \/ /\ stack' = <<f, "cs", "main", "err", "esp">>
                             /\ Faulted(<<f, "cs", "main", "err">>)
  BY <1>1 DEF MachineIInv, Stacked
<1>5. at' \notin {"cli", "push", "sti", "iret"}
  BY <1>1
<1> QED
  BY <1>1, <1>2, <1>3, <1>4, <1>5, EntryIInv

LEMMA DropEspIInv == MachineIInv /\ DropEsp => MachineIInv'
<1> SUFFICES ASSUME MachineIInv, DropEsp PROVE MachineIInv'
  OBVIOUS
<1>1. /\ at = "add" /\ at' = "sti" /\ shadow' = FALSE
      /\ stack' = SubSeq(stack, 1, Len(stack) - 1)
      /\ UNCHANGED <<bootVars, mpc, tables, pic, intr>>
  BY DEF DropEsp, EntryStep, Pop
<1>2. at \in Handler /\ at' \in Handler
  BY <1>1 DEF Handler
<1>3. ~intr' /\ intr' \in BOOLEAN /\ shadow' \in BOOLEAN
  <2>1. ~intr /\ intr \in BOOLEAN
    <3>1. at # "iret"
      BY <1>1
    <3> QED
      BY <1>2, <3>1, Zenon DEF MachineIInv, Masked
  <2> QED
    BY <1>1, <2>1, Zenon
<1>4. PICK f \in Flags : \/ /\ stack = <<f, "cs", "main", "esp">>
                            /\ Interrupted(<<f, "cs", "main">>)
                         \/ /\ stack = <<f, "cs", "main", "err", "esp">>
                            /\ Faulted(<<f, "cs", "main", "err">>)
  BY <1>1 DEF MachineIInv, Stacked
<1>5. Len(stack') <= 5 /\ (Interrupted(stack') \/ Faulted(stack'))
  <2>1. CASE stack = <<f, "cs", "main", "esp">> /\ Interrupted(<<f, "cs", "main">>)
    <3>1. Len(stack) = 4
      BY <2>1
    <3>2. stack' = SubSeq(<<f, "cs", "main", "esp">>, 1, 3)
      BY <1>1, <2>1, <3>1
    <3>3. stack' = <<f, "cs", "main">>
      BY <3>2, Words, Zenon
    <3> QED
      BY <2>1, <3>3, Lengths
  <2>2. CASE /\ stack = <<f, "cs", "main", "err", "esp">>
             /\ Faulted(<<f, "cs", "main", "err">>)
    <3>1. Len(stack) = 5
      BY <2>2
    <3>2. stack' = SubSeq(<<f, "cs", "main", "err", "esp">>, 1, 4)
      BY <1>1, <2>2, <3>1
    <3>3. stack' = <<f, "cs", "main", "err">>
      BY <3>2, Words, Zenon
    <3> QED
      BY <2>2, <3>3, Lengths
  <2> QED
    BY <1>4, <2>1, <2>2
<1>6. at' \notin {"call", "add"}
  BY <1>1
<1> QED
  BY <1>1, <1>2, <1>3, <1>5, <1>6, EntryIInv

LEMMA StiEntryIInv == MachineIInv /\ StiEntry => MachineIInv'
<1> SUFFICES ASSUME MachineIInv, StiEntry PROVE MachineIInv'
  OBVIOUS
<1>1. /\ at = "sti" /\ at' = "iret" /\ intr' = TRUE /\ shadow' = TRUE
      /\ UNCHANGED <<bootVars, mpc, tables, pic, stack>>
  BY DEF StiEntry, EntryStep
<1>2. at \in Handler /\ at' \in Handler
  BY <1>1 DEF Handler
<1>3. shadow' /\ intr' \in BOOLEAN /\ shadow' \in BOOLEAN
  BY <1>1, Zenon
<1>4. Len(stack') <= 5 /\ (Interrupted(stack') \/ Faulted(stack'))
  BY <1>1 DEF MachineIInv, Stacked
<1>5. at' \notin {"call", "add"}
  BY <1>1
<1> QED
  BY <1>1, <1>2, <1>3, <1>4, <1>5, EntryIInv

(* iret takes what an interrupt has saved for a position, and returns to   *)
(* main; an error code is none, and main is lost.                          *)
LEMMA Returns ==
  ASSUME MachineIInv, Iret
  PROVE  \/ /\ at' = "main" /\ pc' = pc /\ stack' = <<>> /\ intr' \in BOOLEAN
            /\ mpc \in {"int", "test", "iret"} /\ UNCHANGED bootVars
         \/ /\ at' = "main" /\ PageFault
            /\ Len(stack') <= 5 /\ intr' \in BOOLEAN
            /\ mpc \in {"page", "test"}
<1>1. /\ at = "iret" /\ (Interrupted(stack) \/ Faulted(stack))
      /\ intr \in BOOLEAN /\ Len(stack) <= 5
  BY DEF Iret, MachineIInv, Stacked, Masked
<1>2. CASE Interrupted(stack)
  <2>1. PICK f \in Flags : stack = <<f, "cs", "main">>
    BY <1>2 DEF Interrupted
  <2>2. Len(stack) = 3 /\ stack[3] = "main" /\ stack[2] = "cs"
    BY <2>1
  <2>3. Frame /\ Top = "main"
    BY <2>2 DEF Frame, Top
  <2>4. /\ at' = "main" /\ UNCHANGED pc /\ stack' = SubSeq(stack, 1, Len(stack) - 3)
        /\ intr' = (stack[Len(stack) - 2] = "IF1")
    BY <2>3, Zenon DEF Iret, Pop
  <2>5. stack' = <<>>
    <3>1. stack' = SubSeq(stack, 1, 0)
      BY <2>2, <2>4
    <3> QED
      BY <3>1, SubSeqEmpty
  <2>6. intr' \in BOOLEAN
    BY <2>4, Zenon
  <2>7. UNCHANGED bootVars
    BY <2>4 DEF Iret, bootVars, onlyBoot
  <2> QED
    BY <1>2, <2>4, <2>5, <2>6, <2>7 DEF Interrupted
<1>3. CASE Faulted(stack)
  <2>1. PICK f \in Flags : stack = <<f, "cs", "main", "err">>
    BY <1>3 DEF Faulted
  <2>2. Len(stack) = 4 /\ stack[4] = "err"
    BY <2>1
  <2>3. ~Frame
    BY <2>2 DEF Frame, Top
  <2>4. at' = "main" /\ pc' = "derailed" /\ UNCHANGED <<stack, intr>>
    BY <2>3, Zenon DEF Iret
  <2>5. PageFault
    BY <1>3, <2>4 DEF Iret, PageFault, Faulted
  <2> QED
    BY <1>1, <1>3, <2>4, <2>5 DEF Faulted
<1> QED
  BY <1>1, <1>2, <1>3

LEMMA IretIInv == MachineIInv /\ Iret => MachineIInv'
<1> SUFFICES ASSUME MachineIInv, Iret PROVE MachineIInv'
  OBVIOUS
<1>1. /\ shadow' = FALSE /\ UNCHANGED <<mpc, gdt, idt, idtr, pic>>
  BY DEF Iret, tables
<1>2. Loaded' /\ Programmed'
  BY <1>1 DEF MachineIInv, Loaded, Programmed
<1>3. shadow' \in BOOLEAN
  BY <1>1, Zenon
<1>4. CASE /\ at' = "main" /\ pc' = pc /\ stack' = <<>> /\ intr' \in BOOLEAN
           /\ mpc \in {"int", "test", "iret"} /\ UNCHANGED bootVars
  <2>1. BootIInv' /\ Stage'
    BY <1>1, <1>4, BootKept DEF MachineIInv, Stage
  <2>2. Stacked'
    BY <1>4 DEF Stacked
  <2>3. Masked'
    <3>1. at' \notin Handler /\ mpc' \in {"int", "test", "iret"}
      BY <1>1, <1>4 DEF Handler
    <3> QED
      BY <1>3, <1>4, <3>1, Zenon DEF Masked
  <2> QED
    BY <1>2, <1>4, <2>1, <2>2, <2>3 DEF MachineIInv
<1>5. CASE /\ at' = "main" /\ PageFault
           /\ Len(stack') <= 5 /\ intr' \in BOOLEAN
           /\ mpc \in {"page", "test"}
  <2>1. BootIInv' /\ pc' = "derailed"
    BY <1>5, PageFaultIInv DEF MachineIInv, PageFault
  <2>2. Stage'
    BY <1>1, <1>5, <2>1 DEF MachineIInv, Stage, PicSteps, AfterVideo
  <2>3. Stacked'
    BY <1>5, <2>1 DEF Stacked
  <2>4. Masked'
    <3>1. at' \notin Handler
      BY <1>5 DEF Handler
    <3> QED
      BY <1>3, <1>5, <2>1, <3>1, Zenon DEF Masked
  <2> QED
    BY <1>2, <1>5, <2>1, <2>2, <2>3, <2>4 DEF MachineIInv
<1> QED
  BY <1>4, <1>5, Returns

LEMMA MachineNextIInv == MachineIInv /\ [MachineNext]_machineVars => MachineIInv'
<1> SUFFICES ASSUME MachineIInv, [MachineNext]_machineVars PROVE MachineIInv'
  OBVIOUS
<1>1. CASE Main
  BY <1>1, InitGdtIInv, InitIdtIInv, MemoryIInv, InitPicIInv, StiIInv,
     SoftwareIntIInv, EnterGameIInv, FaultIInv DEF Main
<1>2. CASE Entry_S
  BY <1>2, CliIInv, PushEspIInv, CallHandlerIInv, DropEspIInv, StiEntryIInv,
     IretIInv DEF Entry_S
<1>3. CASE \E i \in IRQs : Accept(i)
  BY <1>3, AcceptIInv
<1>4. CASE \E i \in IRQs : Raise(i)
  BY <1>4, RaiseIInv
<1>5. CASE UNCHANGED machineVars
  <2>1. UNCHANGED <<bootVars, mpc, at, intr, shadow, stack, gdt, idt, idtr, pic>>
    BY <1>5 DEF machineVars, processor, tables
  <2>2. BootIInv' /\ pc' = pc /\ (Faulting' <=> Faulting)
    BY <2>1, BootKept DEF MachineIInv
  <2>3. Stage' /\ Loaded' /\ Programmed'
    BY <2>1, <2>2 DEF MachineIInv, Stage, Loaded, Programmed
  <2>4. Stacked'
    BY <2>1, <2>2 DEF MachineIInv, Stacked, Interrupted, Faulted
  <2>5. Masked'
    BY <2>1, <2>2 DEF MachineIInv, Masked
  <2> QED
    BY <2>1, <2>2, <2>3, <2>4, <2>5 DEF MachineIInv
<1> QED
  BY <1>1, <1>2, <1>3, <1>4, <1>5 DEF MachineNext, Processor

-----------------------------------------------------------------------------
(* Theorems                                                                *)

(* The invariant holds, whatever devices raise and whenever.               *)
THEOREM MachineInvariant == MachineSpec => []MachineIInv
BY MachineInitIInv, MachineNextIInv, PTL DEF MachineSpec

(* entry.S: no handler is interrupted, main's stack is empty but for one   *)
(* frame, and no handler runs in the game, which is entered with           *)
(* interrupts disabled and cannot fault.                                   *)
THEOREM HandlersAlone == MachineSpec => []HandlerAlone
<1>1. MachineIInv => HandlerAlone
  <2> SUFFICES ASSUME MachineIInv PROVE HandlerAlone
    OBVIOUS
  <2>1. /\ Len(stack) <= 5
        /\ at = "main" /\ pc # "derailed" => stack = <<>>
    BY DEF MachineIInv, Stacked
  <2>2. at \notin {"main", "reset"} => mpc # "game"
    BY DEF MachineIInv, Stacked, Handler, Interrupted, Faulted
  <2> QED
    BY <2>1, <2>2 DEF HandlerAlone
<1> QED
  BY <1>1, MachineInvariant, PTL

(* What the bytes of init_i8259_pic leave of the masks and of interrupts   *)
(* that are not finished: ICW1 clears both, ICW4 makes the end automatic.  *)
Open == /\ mpc \in {"pic3", "pic4", "pic5"} \/ ControllersReady
              => pic.imr = {} /\ pic.isr = {}
        /\ ControllersReady => pic.aeoi = TRUE

LEMMA OpenInit == MachineInit => Open
BY DEF MachineInit, Open, ControllersReady

(* Statement by statement, what is known of main when it has run.          *)
LEMMA OpenPic == MachineIInv /\ Open /\ InitPic => Open'
<1> SUFFICES ASSUME MachineIInv, Open, InitPic PROVE Open'
  OBVIOUS
<1> PICK s \in DOMAIN PicWrites :
       /\ mpc = s /\ mpc' = PicWrites[s][1]
       /\ pic' = Outb(PicWrites[s][2], PicWrites[s][3])
  BY DEF InitPic, At
<1>1. s \in PicSteps
  BY DEF PicWrites, PicSteps
<1>2. pic \in Controllers
  BY DEF MachineIInv, Programmed
<1>3. CASE s \in {"pic", "pic1"}
  <2>1. mpc' \in {"pic1", "pic2"}
    BY <1>3 DEF PicWrites
  <2> QED
    BY <2>1 DEF Open, ControllersReady
<1>4. CASE s = "pic2"
  <2>1. mpc' = "pic3" /\ pic' = Restarted
    BY <1>4, OtherPorts DEF PicWrites
  <2>2. pic'.imr = {} /\ pic'.isr = {}
    BY <1>2, <2>1 DEF Restarted, Controllers
  <2> QED
    BY <2>1, <2>2 DEF Open, ControllersReady
<1>5. CASE s = "pic3"
  <2>1. mpc' = "pic4" /\ pic' = Outb("master_data", 0) /\ pic.icw = 2
    BY <1>5 DEF PicWrites, MachineIInv, Programmed
  <2>2. pic' = [pic EXCEPT !.offset = 0 - (0 % 8), !.icw = 3]
    BY <2>1, MasterData, Zenon
  <2>3. pic'.imr = pic.imr /\ pic'.isr = pic.isr
    BY <1>2, <2>2 DEF Controllers
  <2> QED
    BY <1>5, <2>1, <2>3 DEF Open, ControllersReady
<1>6. CASE s = "pic4"
  <2>1. mpc' = "pic5" /\ pic' = Outb("master_data", 16) /\ pic.icw = 3
    BY <1>6 DEF PicWrites, MachineIInv, Programmed
  <2>2. pic' = [pic EXCEPT !.icw = 4]
    BY <2>1, MasterData, Zenon
  <2>3. pic'.imr = pic.imr /\ pic'.isr = pic.isr
    BY <1>2, <2>2 DEF Controllers
  <2> QED
    BY <1>6, <2>1, <2>3 DEF Open, ControllersReady
<1>7. CASE s = "pic5"
  <2>1. mpc' = "sti" /\ pic' = Outb("master_data", 2) /\ pic.icw = 4
    BY <1>7 DEF PicWrites, MachineIInv, Programmed
  <2>2. pic' = [pic EXCEPT !.aeoi = Bit(2, 1) = 1, !.icw = 0]
    <3> HIDE DEF Bit
    <3> QED
      BY <2>1, MasterData, Zenon
  <2>3. (Bit(2, 1) = 1) = TRUE
    BY DEF Bit
  <2>4. pic' = [pic EXCEPT !.aeoi = TRUE, !.icw = 0]
    <3> HIDE DEF Bit
    <3> QED
      BY <2>2, <2>3, Zenon
  <2>5. pic'.imr = pic.imr /\ pic'.isr = pic.isr /\ pic'.aeoi = TRUE
    BY <1>2, <2>4 DEF Controllers
  <2> QED
    BY <1>7, <2>1, <2>5 DEF Open, ControllersReady
<1> QED
  BY <1>1, <1>3, <1>4, <1>5, <1>6, <1>7 DEF PicSteps

LEMMA OpenStep ==
  MachineIInv /\ Open /\ [MachineNext]_machineVars => Open'
<1> SUFFICES ASSUME MachineIInv, Open, [MachineNext]_machineVars PROVE Open'
  OBVIOUS
<1>1. ASSUME UNCHANGED pic, ControllersReady' => ControllersReady,
             mpc' \notin {"pic3", "pic4", "pic5"} \/ mpc' = mpc
      PROVE  Open'
  BY <1>1 DEF Open, ControllersReady
<1>2. CASE Main
  <2>1. CASE InitPic
    BY <2>1, OpenPic
  <2>2. CASE ~InitPic
    BY <1>1, <1>2, <2>2
       DEF Main, InitGdt, InitIdt, InitMemory, Sti, SoftwareInt, TestPage,
           EnterGame, FirstFrame, Fault, At, ControllersReady, thread_task
  <2> QED
    BY <2>1, <2>2
<1>3. CASE Entry_S
  BY <1>1, <1>3 DEF Entry_S, Cli, PushEsp, CallHandler, DropEsp, StiEntry, Iret,
                    EntryStep, ControllersReady
<1>4. ASSUME NEW i \in IRQs, Accept(i) PROVE Open'
  <2>1. ControllersReady /\ mpc' = mpc
    <3>1. intr /\ ~shadow /\ pc # "derailed" /\ mpc' = mpc
      BY <1>4 DEF Accept
    <3>2. at = "main"
      BY <3>1, Zenon DEF MachineIInv, Masked
    <3>3. mpc \in {"int", "test", "iret"}
      BY <3>1, <3>2, Zenon DEF MachineIInv, Masked
    <3> QED
      BY <3>1, <3>3 DEF ControllersReady
  <2>2. pic \in Controllers /\ pic.aeoi = TRUE
    BY <2>1 DEF MachineIInv, Programmed, Open
  <2>3. pic'.imr = pic.imr /\ pic'.isr = pic.isr /\ pic'.aeoi = pic.aeoi
    <3>1. pic' = [pic EXCEPT !.irr = @ \ {i},
                             !.isr = IF pic.aeoi THEN @ ELSE @ \cup {i}]
      BY <1>4 DEF Accept
    <3> QED
      BY <2>2, <3>1 DEF Controllers
  <2> QED
    BY <2>1, <2>3 DEF Open, ControllersReady
<1>5. ASSUME NEW i \in IRQs, Raise(i) PROVE Open'
  <2>1. pic' = [pic EXCEPT !.irr = @ \cup {i}] /\ mpc' = mpc
    BY <1>5 DEF Raise
  <2>2. pic'.imr = pic.imr /\ pic'.isr = pic.isr /\ pic'.aeoi = pic.aeoi
    BY <2>1 DEF MachineIInv, Programmed, Controllers
  <2> QED
    BY <2>1, <2>2 DEF Open, ControllersReady
<1>6. CASE UNCHANGED machineVars
  BY <1>6 DEF machineVars, Open, ControllersReady
<1> QED
  BY <1>2, <1>3, <1>4, <1>5, <1>6 DEF MachineNext, Processor

(* init_i8259_pic: after its six bytes a raised line waits for its turn    *)
(* only, however many interrupts have been taken without an end being      *)
(* sent.                                                                   *)
THEOREM LinesOpen == MachineSpec => []NoLineBlocked
<1>1. Open => NoLineBlocked
  <2> SUFFICES ASSUME Open, ControllersReady, NEW i \in pic.irr,
                      \A k \in pic.irr : i <= k
               PROVE  i \in Asking
    BY DEF NoLineBlocked
  <2>1. pic.imr = {} /\ pic.isr = {}
    BY DEF Open
  <2> QED
    BY <2>1 DEF Asking
<1> QED
  BY <1>1, OpenInit, OpenStep, MachineInvariant, PTL DEF MachineSpec

(* init_gdt: the TSS's descriptor gives the base and holds the length that *)
(* nothing else checks, wherever the linker puts tss.                      *)
THEOREM TaskSegment == MachineSpec => []TssDescribed
<1>1. MachineIInv => TssDescribed
  <2> SUFFICES ASSUME MachineIInv, mpc # "gdt" PROVE TssDescribed
    BY DEF TssDescribed
  <2> DEFINE d == set_descriptor(STS_T32A, 0, TssBase, <<0, 103>>)
  <2>1. /\ gdt[1] = set_descriptor(STA_X + STA_R, 0, Zero, AllOnes)
        /\ gdt[2] = set_descriptor(STA_W, 0, Zero, AllOnes)
        /\ gdt[3] = [d EXCEPT !.sd_s = 0]
    BY DEF MachineIInv, Loaded, KernelGdt
  <2>2. Flat(gdt[1]) /\ Flat(gdt[2])
    BY <2>1, KernelFlat
  <2>3. TssBase \in Word /\ <<0, 103>> \in Word
    <3>1. 0 \in Half /\ 103 \in Half
      BY SMT DEF Half
    <3> QED
      BY <3>1, MachineAssumption DEF Word
  <2>4. Base(d) = TssBase /\ Limit(d) = <<0, 4095>>
    <3>1. Base(d) = TssBase /\ Limit(d) = <<0, (103 \div 4096) * 4096 + 4095>>
      BY <2>3, DescriptorKept
    <3>2. (103 \div 4096) * 4096 + 4095 = 4095
      BY SMT
    <3> QED
      BY <3>1, <3>2
  <2>5. Base(gdt[3]) = Base(d) /\ Limit(gdt[3]) = Limit(d)
    BY <2>1 DEF set_descriptor, Base, Limit
  <2> HIDE DEF d
  <2> QED
    BY <2>2, <2>4, <2>5 DEF TssDescribed
<1> QED
  BY <1>1, MachineInvariant, PTL

(* One step of the machine is one of the boot path, or none.               *)
LEMMA MachineStep ==
  MachineIInv /\ [MachineNext]_machineVars => [BootNext]_bootVars
<1> SUFFICES ASSUME MachineIInv, MachineNext PROVE [BootNext]_bootVars
  BY DEF machineVars
<1>1. CASE Main
  <2>1. CASE MainStep
    BY <2>1 DEF BootNext
  <2>2. CASE ~MainStep
    BY <1>1, <2>2
       DEF Main, InitGdt, InitIdt, InitMemory, InitPic, Sti, SoftwareInt, TestPage,
           EnterGame, FirstFrame, Fault
  <2> QED
    BY <2>1, <2>2
<1>2. CASE Entry_S
  <2>1. CASE Iret
    BY <2>1, Returns DEF BootNext
  <2>2. CASE ~Iret
    BY <1>2, <2>2 DEF Entry_S, Cli, PushEsp, CallHandler, DropEsp, StiEntry, EntryStep
  <2> QED
    BY <2>1, <2>2
<1>3. CASE \E i \in IRQs : Accept(i) \/ Raise(i)
  BY <1>3 DEF Accept, Raise
<1> QED
  BY <1>1, <1>2, <1>3 DEF MachineNext, Processor

(* kernel/main.c: interrupts and faults between its statements, and        *)
(* whatever entry.S does, leave main what KernelBoot says it is: every     *)
(* step of the machine is one of main on the memory path, a page fault, or *)
(* none.  (That it also runs on is left to TLC.)                           *)
THEOREM Undisturbed == MachineSpec => BootInit /\ [][BootNext]_bootVars
<1>1. MachineInit => BootInit
  BY DEF MachineInit
<1> QED
  BY <1>1, MachineInvariant, MachineStep, PTL DEF MachineSpec

(* init_page and init_video on the machine: the types hold, a fault or a   *)
(* PANIC has its reason, what is mapped is mapped to itself by tables that *)
(* nobody else owns, and stays mapped, interrupts or not.                  *)
THEOREM MachineBoots ==
  MachineSpec => /\ [](BootTypeOK /\ BootOutcome /\ IdentityMap /\ TablesOwned)
                 /\ TranslationsStay
<1>1. MachineIInv => BootIInv
  BY DEF MachineIInv
<1>2. BootIInv => BootTypeOK /\ BootOutcome /\ IdentityMap /\ TablesOwned
  BY DEF BootIInv, BootTyped
<1>3. BootIInv /\ BootIInv' /\ [BootNext]_bootVars
        => [pg /\ pg' => \A v \in 0..(VPages - 1) :
               Translate(v) # NULL => Translate(v)' = Translate(v)]_bootVars
  BY TranslatedStay
<1> QED
  BY <1>1, <1>2, <1>3, MachineInvariant, Undisturbed, PTL DEF TranslationsStay
=============================================================================
