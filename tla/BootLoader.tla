----------------------------- MODULE BootLoader -----------------------------
(***************************************************************************)
(* bootmain of boot/main.c: it reads the start of the kernel's ELF file    *)
(* from the disk, then every segment of its program headers, sector by     *)
(* sector, and calls the entry point.  The boot sector comes before it.    *)
(*                                                                         *)
(* A byte of memory holds the position in the kernel file that it was read *)
(* from, or Old.  The disk controller is external: it takes a command when *)
(* it is not busy, is busy for some time and then has the sector's data.   *)
(***************************************************************************)
EXTENDS BootSector, Sequences

CONSTANTS SectSize,   \* SECTSIZE
          ElfHdr,     \* address of the scratch space, ELFHDR
          HdrSects,   \* sectors read into it: 8
          Segments,   \* records [pa, memsz, offset]
          MaxSegments

RoundDown(a) == (a \div SectSize) * SectSize
RoundUp(a) == RoundDown(a + SectSize - 1)
HdrEnd == ElfHdr + HdrSects * SectSize

(* An ELF file's segments are as far from a sector's start in the file as  *)
(* in memory; the kernel is linked above the scratch space (kernel.ld),    *)
(* and so is the line A20.                                                 *)
ASSUME LoaderAssumption ==
    /\ {SectSize, HdrSects} \subseteq Nat \ {0} /\ MaxSegments \in Nat
    /\ ElfHdr \in Nat /\ ElfHdr % SectSize = 0
    /\ LineA20 % SectSize = 0 /\ LineA20 >= HdrEnd
    /\ ModeInfo \subseteq 0..(ElfHdr - 1)
    /\ \A s \in Segments : /\ {s.pa, s.memsz, s.offset} \subseteq Nat
                           /\ s.pa >= HdrEnd
                           /\ s.pa % SectSize = s.offset % SectSize

VARIABLES phdrs,     \* the kernel file's program headers
          elf,       \* its first word is ELF_MAGIC
          status,    \* of the disk: "ready", "busy"
          requested, \* sector of the disk's last command
          ph,        \* index of the program header at hand, 0 for the ELF header
          pa, end_pa, offset   \* locals of readseg; offset in sectors

disk == <<status, requested>>
readseg_locals == <<pa, end_pa, offset>>
loader == <<phdrs, elf, disk, ph, readseg_locals>>
vars == <<sectorVars, loader>>

Old == -1
Noise == -2   \* what the data port shows while the disk is busy

Addresses == 0..(HdrEnd + SectSize)
             \cup UNION {RoundDown(s.pa)..(RoundUp(s.pa + s.memsz) + SectSize) :
                         s \in Segments}

(* Segments come in ascending order and do not overlap.                    *)
Ascending(t) == \A a, b \in DOMAIN t : a < b => t[a].pa + t[a].memsz <= t[b].pa
Tables == {t \in UNION {[1..n -> Segments] : n \in 0..MaxSegments} : Ascending(t)}

-----------------------------------------------------------------------------
(* Mutant: the end is rounded up and a sector of margin is read.           *)
ReadSegMargin(address, count, position) ==
    /\ pa' = RoundDown(address)
    /\ end_pa' = RoundUp(address + count) + 1
    /\ offset' = position \div SectSize + 1

(* readseg up to its loop                                                  *)
ReadSeg(address, count, position) ==
    /\ pa' = RoundDown(address)
    /\ end_pa' = address + count
    /\ offset' = position \div SectSize + 1

Init == /\ phdrs \in Tables
        /\ elf \in BOOLEAN
        /\ mem = [a \in Addresses |-> Old]
        /\ status \in {"ready", "busy"}
        /\ requested = 0
        /\ SectorInit
        /\ ph = 0
        /\ pa = 0 /\ end_pa = 0 /\ offset = 0

ReadHeader == /\ pc = "start"
              /\ ReadSeg(ElfHdr, HdrSects * SectSize, 0)
              /\ pc' = "loop"
              /\ UNCHANGED <<phdrs, elf, mem, a20, kbc, disk, ph>>

(* readsect: waitdisk, the command, waitdisk again, and the data.          *)
Command == /\ pc = "loop"
           /\ pa < end_pa
           /\ status = "ready"
           /\ status' = "busy"
           /\ requested' = offset
           /\ pc' = "read"
           /\ UNCHANGED <<phdrs, elf, mem, a20, kbc, ph, readseg_locals>>

(* The bytes that insl takes from the disk's port.                         *)
Port(b) == IF status = "ready" THEN (requested - 1) * SectSize + b ELSE Noise

(* Where the bytes go; a sector is on one side of the line's bit.          *)
Target == Bus(pa)..(Bus(pa) + SectSize - 1)
InsertSector == mem' = [a \in Addresses |-> IF a \in Target THEN Port(a - Bus(pa))
                                                            ELSE mem[a]]

(* Mutant: the loop does not advance.                                      *)
TransferInPlace == /\ pc = "read"
                   /\ status = "ready"
                   /\ InsertSector
                   /\ pc' = "loop"
                   /\ UNCHANGED <<phdrs, elf, a20, kbc, disk, ph, readseg_locals>>

Transfer == /\ pc = "read"
            /\ status = "ready"
            /\ InsertSector
            /\ pa' = pa + SectSize
            /\ offset' = offset + 1
            /\ pc' = "loop"
            /\ UNCHANGED <<phdrs, elf, a20, kbc, disk, ph, end_pa>>

(* The scratch space still holds the start of the file.                    *)
HeaderIntact == \A b \in 0..(HdrSects * SectSize - 1) : mem[ElfHdr + b] = b

(* readseg has returned: on to the next program header ...                 *)
NextSegment == /\ pc = "loop"
               /\ pa >= end_pa
               /\ elf
               /\ ph < Len(phdrs)
               /\ ph' = ph + 1
               /\ IF HeaderIntact
                  THEN /\ ReadSeg(phdrs[ph'].pa, phdrs[ph'].memsz, phdrs[ph'].offset)
                       /\ UNCHANGED pc
                  ELSE /\ pc' = "derailed"
                       /\ UNCHANGED readseg_locals
               /\ UNCHANGED <<phdrs, elf, mem, a20, kbc, disk>>

(* ... or to the kernel ...                                                *)
CallEntry == /\ pc = "loop"
             /\ pa >= end_pa
             /\ elf
             /\ ph = Len(phdrs)
             /\ pc' = IF HeaderIntact THEN "entry" ELSE "derailed"
             /\ UNCHANGED <<phdrs, elf, mem, a20, kbc, disk, ph, readseg_locals>>

(* ... or nowhere.                                                         *)
Bad == /\ pc = "loop"
       /\ pa >= end_pa
       /\ ~elf
       /\ pc' = "bad"
       /\ UNCHANGED <<phdrs, elf, mem, a20, kbc, disk, ph, readseg_locals>>

(* The disk has finished what it was doing.  It takes milliseconds, the    *)
(* keyboard controller microseconds: that is all that makes sure the line  *)
(* A20 is on when the first sector is written.                             *)
DiskReady == /\ status = "busy"
             /\ ~kbc.full
             /\ status' = "ready"
             /\ UNCHANGED <<sectorVars, phdrs, elf, requested, ph, readseg_locals>>

Loader == \/ ReadHeader \/ Command \/ Transfer
          \/ NextSegment \/ CallEntry \/ Bad

Next == \/ (Sector \/ ControllerTakes) /\ UNCHANGED loader
        \/ Loader
        \/ DiskReady

(* The boot sector and the loader have the processor for themselves, the   *)
(* controller takes its bytes and the disk answers.                        *)
Spec == /\ Init /\ [][Next]_vars
        /\ WF_vars(Sector /\ UNCHANGED loader)
        /\ WF_vars(ControllerTakes /\ UNCHANGED loader)
        /\ WF_vars(Loader) /\ WF_vars(DiskReady)

-----------------------------------------------------------------------------
(* Segment s is in memory, all p_memsz bytes of it.                        *)
InMemory(s) == \A b \in 0..(s.memsz - 1) : mem[s.pa + b] = s.offset + b

(* readseg reads whole sectors: the first sector of t is also the last one *)
(* of s.  An empty segment is read, too, unless it lies at the start of a  *)
(* sector.                                                                 *)
SharesSector(s, t) ==
    /\ s.memsz > 0
    /\ RoundDown(t.pa) < t.pa + t.memsz
    /\ RoundDown(s.pa + s.memsz - 1) >= RoundDown(t.pa)

(* Segment a is spoilt when the last segment that shares its last sector   *)
(* of memory does not share the sector of the file.                        *)
Spoils(a, b) ==
    /\ a < b
    /\ SharesSector(phdrs[a], phdrs[b])
    /\ \A c \in DOMAIN phdrs : c > b => ~SharesSector(phdrs[a], phdrs[c])
    /\ phdrs[a].pa - phdrs[a].offset # phdrs[b].pa - phdrs[b].offset
Separate == \A a, b \in DOMAIN phdrs : ~Spoils(a, b)

(* bootmain calls the entry point only of an ELF file, and then with every *)
(* segment in memory, exactly if no segment is spoilt by a later one.      *)
KernelLoaded == pc = "entry" =>
    /\ elf
    /\ (\A a \in DOMAIN phdrs : InMemory(phdrs[a])) <=> Separate

(* readseg "might copy more than asked": never beyond the sectors that     *)
(* hold the segment, so nothing below the scratch space (the stack, the    *)
(* boot sector) and nothing between the segments is touched, and the       *)
(* kernel finds the ModeInfoBlock where the boot sector has left it.       *)
NothingElseTouched ==
    \A a \in Addresses :
        \/ mem[a] = IF a \in ModeInfo /\ pc # "vbe" THEN Mode ELSE Old
        \/ a \in ElfHdr..(HdrEnd - 1)
        \/ \E i \in 1..ph : LET s == phdrs[i]
                            IN  a \in RoundDown(s.pa)..(RoundUp(s.pa + s.memsz) - 1)

(* The loader does not wait for ever, nor lose its headers.                *)
LoaderEnds == <>(pc = IF elf THEN "entry" ELSE "bad")
=============================================================================
