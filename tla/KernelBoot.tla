----------------------------- MODULE KernelBoot -----------------------------
(***************************************************************************)
(* The boot path of kernel/main.c through memory: init_page and init_video *)
(* build the page directory with mm_continous_map, init_page switches      *)
(* paging on, test_page exercises the allocator and the game's first       *)
(* update_screen copies the frame buffer to the video memory.              *)
(*                                                                         *)
(* The geometry is scaled: a page has PgSize bytes, a table NPT entries    *)
(* and a directory NPD (0x1000, 1024 and 1024 in the code).  Addresses are *)
(* numbers of bytes.  Once paging is on, every access goes through the     *)
(* tables that the code has written; one that finds no present entry is    *)
(* a page fault, which the interrupt entry (it does not know of error      *)
(* codes) does not survive: the boot is derailed.                          *)
(***************************************************************************)
EXTENDS PageAlloc, FiniteSets, Sequences

CONSTANTS PgSize, NPT, NPD,
          Ends,         \* values of the linker's symbol `end'
          VramBases,    \* values of mode_info.physbase
          VramSizes,    \* values of mode_info.Yres * mode_info.pitch
          BufSize,      \* sizeof(vmem_buffer), 800 * 600 * 3
          TestPages,    \* 0xff in test_page
          WalkPages     \* 0xf, free pages that test_page logs

RoundUp(addr) == ((addr + PgSize - 1) \div PgSize) * PgSize
RoundDown(addr) == (addr \div PgSize) * PgSize
VPages == NPT * NPD
DirIdx(addr) == addr \div (PgSize * NPT)

(* A directory fits into a page, as a table does.  The video memory begins *)
(* where a table does: the adapter's window is aligned to its size, which  *)
(* is more than a table maps.                                              *)
ASSUME BootAssumption ==
    /\ {PgSize, NPT, NPD, TestPages, WalkPages} \subseteq Nat \ {0}
    /\ NPD <= NPT
    /\ Ends \cup VramBases \cup VramSizes \cup {BufSize} \subseteq Nat
    /\ \A e \in Ends : RoundUp(e) \div PgSize \in 1..(NPages - 1)
    /\ NPages <= VPages
    /\ \A b \in VramBases : /\ b % (PgSize * NPT) = 0
                            /\ b >= NPages * PgSize
    /\ \A s \in VramSizes : /\ s >= BufSize
                            /\ \A b \in VramBases : b + s < VPages * PgSize

VARIABLES end,       \* size of the image that was linked
          pc,        \* where main is
          kpgdir,    \* frame of the kernel's page directory
          pg,        \* cr0.PG
          table,     \* contents of each page of RAM, read as a table
          job,       \* arguments and locals of mm_continous_map
          vram,      \* mode_info: base and size of the video memory
          frame_buf, \* local of test_page
          page,      \* local of test_page, or Wild
          logged     \* turns of test_page's last loop

test_locals == <<frame_buf, page, logged>>
onlyBoot == <<end, pc, kpgdir, pg, table, job, vram, test_locals>>
bootVars == <<vars, onlyBoot>>

Wild == -1   \* a PageInfo pointer that was read from a null pointer

Entries == 0..(NPT - 1)
Cleared == [e \in Entries |-> NULL]
Blank == [dir |-> 0, last |-> 0, mapEnd |-> 0, vframe |-> 0, tab |-> 0,
          ret |-> "none"]

(* The page of physical memory that an access to virtual page v reaches,   *)
(* NULL when the processor faults.                                         *)
Translate(v) == IF table[kpgdir][v \div NPT] = NULL THEN NULL
                ELSE table[table[kpgdir][v \div NPT]][v % NPT]

Phys(v) == IF pg THEN Translate(v) ELSE v

PagesOf(base, size) ==
    {p \in 0..(VPages - 1) : p * PgSize < base + size /\ (p + 1) * PgSize > base}

(* The pages that the statement at pc writes through their virtual address *)
Touched == CASE pc \in {"clearDir", "link"} -> {kpgdir}
             [] pc \in {"clearTab", "fill"} -> {job.tab}
             [] pc = "screen" -> PagesOf(vram.base, BufSize)
             [] OTHER -> {}

Running(label) == /\ pc = label
                  /\ \A v \in Touched : Phys(v) # NULL

-----------------------------------------------------------------------------
(* RAM holds whatever it held: absent entries, or entries that are present.*)
BootInit == /\ Init
            /\ end \in Ends
            /\ nr_kernel_page = RoundUp(end) \div PgSize
            /\ pc = "pgdir"
            /\ kpgdir = 0
            /\ pg = FALSE
            /\ \E junk \in {NULL, 0} :
                  table = [p \in Pages |-> [e \in Entries |-> junk]]
            /\ job = Blank
            /\ vram \in [base : VramBases, size : VramSizes]
            /\ frame_buf = <<>> /\ page = NULL /\ logged = 0

(* init_page: the directory's page, still with physical addresses.         *)
GetPgdir == /\ Running("pgdir")
            /\ AllocPage
            /\ kpgdir' = FrameOf(free_page_list)
            /\ pc' = "clearDir"
            /\ UNCHANGED <<end, pg, table, job, vram, test_locals>>

(* Mutant: the directory entries are counted from the start of the range.  *)
MapJobFromZero(paddr, vaddr, size, ret) ==
    [dir |-> 0,
     last |-> DirIdx(RoundDown(RoundUp(paddr) + size)) - DirIdx(RoundUp(paddr)),
     mapEnd |-> RoundDown(RoundUp(paddr) + size) \div PgSize,
     vframe |-> RoundUp(vaddr) \div PgSize,
     tab |-> 0,
     ret |-> ret]

(* Call of mm_continous_map: the range is rounded inwards.                 *)
MapJob(paddr, vaddr, size, ret) ==
    [dir |-> DirIdx(RoundUp(paddr)),
     last |-> DirIdx(RoundDown(RoundUp(paddr) + size)),
     mapEnd |-> RoundDown(RoundUp(paddr) + size) \div PgSize,
     vframe |-> RoundUp(vaddr) \div PgSize,
     tab |-> 0,
     ret |-> ret]

ClearDir == /\ Running("clearDir")
            /\ table' = [table EXCEPT ![Phys(kpgdir)] = Cleared]
            /\ job' = MapJob(0, 0, end, "enable")
            /\ pc' = "tab"
            /\ UNCHANGED <<vars, end, kpgdir, pg, vram, test_locals>>

(* Mutant: one table serves every directory entry of the call.             *)
AllocTabOnce == /\ Running("tab")
                /\ IF job.tab = 0
                   THEN AllocPage /\ job' = [job EXCEPT !.tab = FrameOf(free_page_list)]
                   ELSE UNCHANGED <<vars, job>>
                /\ pc' = "clearTab"
                /\ UNCHANGED <<end, kpgdir, pg, table, vram, test_locals>>

(* mm_continous_map, one turn of its loop: a page for the table ...        *)
AllocTab == /\ Running("tab")
            /\ AllocPage
            /\ job' = [job EXCEPT !.tab = FrameOf(free_page_list)]
            /\ pc' = "clearTab"
            /\ UNCHANGED <<end, kpgdir, pg, table, vram, test_locals>>

(* Mutant: the memset of the table is left out.                            *)
ClearTabSkipped == /\ Running("clearTab")
                   /\ pc' = "fill"
                   /\ UNCHANGED <<vars, end, kpgdir, pg, table, job, vram, test_locals>>

ClearTab == /\ Running("clearTab")
            /\ table' = [table EXCEPT ![Phys(job.tab)] = Cleared]
            /\ pc' = "fill"
            /\ UNCHANGED <<vars, end, kpgdir, pg, job, vram, test_locals>>

(* Mutant: the loop over the entries starts from the directory's address.  *)
FilledFromDir == {e \in Entries : job.dir * NPT + e < job.mapEnd}

(* ... its entries: the loop counts pg_addr up from 0 in every table (the  *)
(* last initialiser of the union, .frame = 0, is the one that holds) and   *)
(* compares it with the end of the range ...                               *)
Filled == {e \in Entries : e < job.mapEnd}

Fill == /\ Running("fill")
        /\ table' = [table EXCEPT ![Phys(job.tab)] =
                        [e \in Entries |-> IF e \in Filled
                                           THEN (job.vframe + e) % VPages
                                           ELSE @[e]]]
        /\ job' = [job EXCEPT !.vframe = @ + Cardinality(Filled)]
        /\ pc' = "link"
        /\ UNCHANGED <<vars, end, kpgdir, pg, vram, test_locals>>

(* ... and the directory entry.  The last directory is included even when  *)
(* the range ends where it begins.                                         *)
Link == /\ Running("link")
        /\ table' = [table EXCEPT ![Phys(kpgdir)][job.dir] = job.tab]
        /\ IF job.dir < job.last
           THEN job' = [job EXCEPT !.dir = @ + 1] /\ pc' = "tab"
           ELSE pc' = job.ret /\ UNCHANGED job
        /\ UNCHANGED <<vars, end, kpgdir, pg, vram, test_locals>>

EnablePaging == /\ Running("enable")
                /\ pg' = TRUE
                /\ pc' = "video"
                /\ UNCHANGED <<vars, end, kpgdir, table, job, vram, test_locals>>

(* init_video maps the video memory onto itself.                           *)
InitVideo == /\ Running("video")
             /\ job' = MapJob(vram.base, vram.base, vram.size, "test")
             /\ pc' = "tab"
             /\ UNCHANGED <<vars, end, kpgdir, pg, table, vram, test_locals>>

(* test_page takes its pages one by one, then releases them in that order. *)
TestAlloc == /\ Running("test")
             /\ AllocPage
             /\ frame_buf' = Append(frame_buf, FrameOf(free_page_list))
             /\ pc' = IF Len(frame_buf') = TestPages THEN "release" ELSE "test"
             /\ UNCHANGED <<end, kpgdir, pg, table, job, vram, page, logged>>

TestRelease == /\ Running("release")
               /\ ReleasePage(Head(frame_buf))
               /\ frame_buf' = Tail(frame_buf)
               /\ IF frame_buf' = <<>> THEN pc' = "walk" /\ page' = free_page_list'
                                       ELSE UNCHANGED <<pc, page>>
               /\ UNCHANGED <<end, kpgdir, pg, table, job, vram, logged>>

(* Mutant: a turn too many.                                                *)
TestWalkLong ==
    /\ Running("walk")
    /\ page' = IF page \in Pages THEN next[page] ELSE Wild
    /\ logged' = IF logged < WalkPages THEN logged + 1 ELSE logged
    /\ pc' = IF logged = WalkPages THEN "screen" ELSE "walk"
    /\ UNCHANGED <<vars, end, kpgdir, pg, table, job, vram, frame_buf>>

(* Then it follows the free list for WalkPages pages, without asking       *)
(* whether there are so many.  A null pointer is the address of mapped     *)
(* memory, whose words are taken for the next pointer.                     *)
TestWalk == /\ Running("walk")
            /\ page' = IF page \in Pages THEN next[page] ELSE Wild
            /\ logged' = logged + 1
            /\ pc' = IF logged' = WalkPages THEN "screen" ELSE "walk"
            /\ UNCHANGED <<vars, end, kpgdir, pg, table, job, vram, frame_buf>>

(* game_mainloop's first update_frame ends in update_screen.               *)
UpdateScreen == /\ Running("screen")
                /\ pc' = "shown"
                /\ UNCHANGED <<vars, end, kpgdir, pg, table, job, vram, test_locals>>

(* alloc_page finds the list empty: PANIC.                                 *)
OutOfPages == /\ pc \in {"pgdir", "tab", "test"}
              /\ AllocNoFree
              /\ UNCHANGED onlyBoot

(* A wild pointer may lead anywhere.                                       *)
Faulting == \/ \E v \in Touched : Phys(v) = NULL
            \/ pc = "walk" /\ page = Wild

PageFault == /\ Faulting
             /\ pc' = "derailed"
             /\ UNCHANGED <<vars, end, kpgdir, pg, table, job, vram, test_locals>>

MainStep == \/ GetPgdir \/ ClearDir
            \/ AllocTab \/ ClearTab \/ Fill \/ Link
            \/ EnablePaging \/ InitVideo
            \/ TestAlloc \/ TestRelease \/ TestWalk
            \/ UpdateScreen
            \/ OutOfPages

BootNext == MainStep \/ PageFault

(* Only main writes these variables: interrupts are off up to init_video,  *)
(* and the handler that they reach after sti (irq_handle) is empty and     *)
(* returns.  So main runs on: weak fairness.                               *)
BootSpec == BootInit /\ [][BootNext]_bootVars /\ WF_bootVars(BootNext)

-----------------------------------------------------------------------------
Labels == {"pgdir", "clearDir", "tab", "clearTab", "fill", "link", "enable",
           "video", "test", "release", "walk", "screen", "shown", "derailed"}
AfterVideo == {"test", "release", "walk", "screen", "shown"}

Entry == 0..(VPages - 1) \cup {NULL}

(* Types of what the boot path writes.                                     *)
BootTypeOK == /\ TypeOK
              /\ pc \in Labels
              /\ kpgdir \in Pages
              /\ pg \in BOOLEAN
              /\ table \in [Pages -> [Entries -> Entry]]
              /\ job.tab \in Pages
              /\ job.dir \in 0..(NPD - 1)
              /\ Len(frame_buf) <= TestPages
              /\ page \in Pages \cup {NULL, Wild}
              /\ logged \in 0..WalkPages

(* Which images boot: the directory, the kernel's tables and the tables of *)
(* the video memory come right after the image, and the last ones are      *)
(* written after paging is on, so they must be among the pages that the    *)
(* call for [0, end) has mapped.                                           *)
KernelTables == DirIdx(RoundDown(end)) + 1
VideoTables == DirIdx(RoundDown(vram.base + vram.size)) - DirIdx(vram.base) + 1
MappedPages == IF RoundDown(end) < PgSize * NPT THEN end \div PgSize
                                                ELSE KernelTables * NPT
TablesReachable == nr_kernel_page + 1 + KernelTables + VideoTables <= MappedPages

PagesNeeded == nr_kernel_page + 1 + KernelTables + VideoTables + TestPages

(* test_page reads that many more pages of the list, the last one's link   *)
(* without following it; a null pointer can be read, what it yields not.   *)
WalkSafe == PagesNeeded + WalkPages <= NPages + 1

(* mm_continous_map after paging is on, alloc_page in test_page: an image  *)
(* derails in a page fault only if it leaves some table out of reach or    *)
(* too few pages for test_page to log, reaches the game only if it does    *)
(* not, and stops in PANIC only when the memory cannot hold it, its tables *)
(* and the pages of test_page.                                             *)
BootOutcome == /\ pc = "derailed" => ~TablesReachable \/ ~WalkSafe
               /\ pc \in AfterVideo => TablesReachable
               /\ panic # "none" => panic = "nofree" /\ PagesNeeded > NPages

(* Code that mixes physical and virtual addresses, as page.c does, needs   *)
(* every translated address to be itself.                                  *)
IdentityMap == pg => \A v \in 0..(VPages - 1) : Translate(v) \in {NULL, v}

(* Every directory entry has a table of its own, in a page that was        *)
(* allocated for it, that nobody else was given, and that is not the       *)
(* directory.                                                              *)
TablesOwned ==
    pg => LET dir == table[kpgdir]
              used == {e \in Entries : dir[e] # NULL}
          IN  /\ \A e \in used : owners[dir[e]] = 1 /\ dir[e] # kpgdir
              /\ \A e, f \in used : dir[e] = dir[f] => e = f

(* Mapping the video memory takes no page away: what is translated stays   *)
(* translated.                                                             *)
TranslationsStay ==
    [][pg /\ pg' => \A v \in 0..(VPages - 1) :
                       Translate(v) # NULL => Translate(v)' = Translate(v)]_bootVars

(* update_screen: the game's first frame is shown for every image whose    *)
(* tables are reachable and that leaves test_page its pages.               *)
FirstFrameShown ==
    (TablesReachable /\ WalkSafe) ~> (pc = "shown")

(* What the comment of mm_continous_map (page.c:102) says of both calls:   *)
(* [start, end) is mapped, every page with a byte of it.                   *)
RangeMapped ==
    /\ pg => \A v \in PagesOf(0, end) : Translate(v) = v
    /\ pc \in AfterVideo =>
          \A v \in PagesOf(vram.base, vram.size) : Translate(v) = v
=============================================================================
