-------------------------------- MODULE Boot --------------------------------
(***************************************************************************)
(* Booting: kernel_main of kernel/src/main.rs with heap.rs, init_memory of *)
(* usermode.rs, gdt.rs and the fast syscall set-up of syscall.rs, and the  *)
(* monitor commands whose fate boot decides (heap, vm, usermode).          *)
(*                                                                         *)
(* kernel_main runs alone, with interrupts off until interrupts::init: one *)
(* action is one call it makes, or one frame it takes for a mapping.  A    *)
(* step that fails is only recorded, and boot goes on with what is left.   *)
(* Before the IDT is loaded any fault resets the machine.                  *)
(***************************************************************************)
EXTENDS Memory

CONSTANTS
  None,
  TICK_TARGET, MAX_SPINS   \* wait_for_ticks

ASSUME BoundsAssumption == TICK_TARGET \in Nat /\ MAX_SPINS \in Nat

VARIABLES
  regions,  \* the memory map
  frames,   \* its usable frames, in the order the allocator counts them
  offset,   \* physical_memory_offset is Some
  pc,       \* the next call of kernel_main; later monitor or how it ended
  page,     \* the next page of the call at pc
  job,      \* the map_to in progress: its frame, level and table; or None
  next,     \* BootInfoFrameAllocator.next
  taken,    \* the frames handed out
  entry,    \* the page tables
  given,    \* the frame each page was mapped to
  result,   \* paging_result, heap_result, usermode_result
  heap,     \* ALLOCATOR has been given its range
  context,  \* USER_MODE_CONTEXT is Some
  cpu,      \* what the CPU has, once asked: syscall, SCE set before, SCE can be set
  msr,      \* STAR, LSTAR and GS base written, SCE set
  stage,    \* FAST_SYSCALL_STATUS.stage
  ticks, spins

machine   == <<regions, frames, offset>>
allocator == <<next, taken>>
outcome   == <<result, heap, context>>
fast      == <<cpu, msr, stage>>
timer     == <<ticks, spins>>
vars == <<machine, pc, page, job, allocator, entry, given, outcome, fast, timer>>

Init ==
  /\ regions \in Regions /\ frames = usable_frames(regions) /\ offset \in BOOLEAN
  /\ pc = "first_frames" /\ page = 1 /\ job = None
  /\ next = 0 /\ taken = <<>> /\ entry = BootEntries /\ given = <<>>
  /\ result = [demo |-> "none", heap |-> "none", user |-> "none"]
  /\ heap = FALSE /\ context = FALSE
  /\ cpu = None /\ stage = "Uninitialized"
  /\ msr = [star |-> FALSE, lstar |-> FALSE, gs |-> FALSE, sce |-> FALSE]
  /\ ticks = 0 /\ spins = 0

-----------------------------------------------------------------------------
(* Memory. *)

\* allocate_frame: the counter advances whether or not a frame is left.
Left      == next < Len(frames)
NextFrame == frames[next + 1]

allocate_frame ==
  /\ next' = next + 1
  /\ taken' = IF Left THEN Append(taken, NextFrame) ELSE taken

\* The three frames kernel_main takes to show them.
first_frames ==
  /\ pc = "first_frames"
  /\ allocate_frame
  /\ page' = IF page = 3 THEN 1 ELSE page + 1
  /\ pc' = IF page < 3 THEN pc ELSE IF offset THEN "demo" ELSE "gdt"
  /\ UNCHANGED <<machine, job, entry, given, outcome, fast, timer>>

After == [demo |-> "heap", heap |-> "user", user |-> "gdt"]

\* The call at pc returns r; kernel_main only notes it and makes the next one.
Return(r, then) ==
  /\ result' = [result EXCEPT ![pc] = r]
  /\ pc' = then /\ page' = 1 /\ job' = None

\* A page that cannot be mapped ends the call: ? in all three of them.
\* Mutants (here and below, named after what they get wrong).
Fail_NextPage ==
  /\ page' = page + 1 /\ job' = None
  /\ UNCHANGED <<pc, entry, given, outcome>>

Fail ==
  /\ Return("err", After[pc])
  /\ UNCHANGED <<entry, given, heap, context>>

\* The frame for the page; only init_heap does not look whether it is mapped.
map_page ==
  /\ pc \in DOMAIN Pages /\ job = None /\ page \in DOMAIN Pages[pc]
  /\ IF pc # "heap" /\ Mapped(entry, Pages[pc][page])
       THEN Fail /\ UNCHANGED allocator
       ELSE /\ allocate_frame
            /\ IF Left THEN /\ job' = [frame |-> NextFrame, level |-> 1, table |-> CR3]
                            /\ UNCHANGED <<pc, page, entry, given, outcome>>
                       ELSE Fail
  /\ UNCHANGED <<machine, fast, timer>>

Slot == <<job.table, Pages[pc][page][job.level]>>

\* mapper.map_to, one level down: follow the entry, or give it a new table, all
\* zeros.  A failure half-way keeps the tables made so far.  (A huge page in the
\* way would fail too; the bootloader puts none in the three areas.)
create_next_table ==
  /\ job # None /\ job.level < 4
  /\ \/ /\ Slot \in DOMAIN entry
        /\ job' = [job EXCEPT !.level = @ + 1, !.table = entry[Slot].frame]
        /\ UNCHANGED <<allocator, entry, pc, page, given, outcome>>
     \/ /\ Slot \notin DOMAIN entry /\ Left
        /\ allocate_frame
        /\ entry' = Put(Zeroed(entry, NextFrame), Slot, [kind |-> "table", frame |-> NextFrame])
        /\ job' = [job EXCEPT !.level = @ + 1, !.table = NextFrame]
        /\ UNCHANGED <<pc, page, given, outcome>>
     \/ Slot \notin DOMAIN entry /\ ~ Left /\ allocate_frame /\ Fail
  /\ UNCHANGED <<machine, fast, timer>>

\* map_to's last step, and the loop's.
set_page ==
  /\ job # None /\ job.level = 4
  /\ entry' = Put(entry, Slot, [kind |-> "page", frame |-> job.frame])
  /\ given' = Put(given, Pages[pc][page], job.frame)
  /\ page' = page + 1 /\ job' = None
  /\ UNCHANGED <<machine, pc, allocator, outcome, fast, timer>>

\* Writing to a page: before the IDT is loaded a fault resets the machine.
Touch(pages, then) == IF \A p \in pages : Mapped(entry, p) THEN then ELSE "reset"

\* map_demo_page writes its page.
demo_done ==
  /\ pc = "demo" /\ page = 2
  /\ Return("ok", Touch({DEMO_PAGE_START}, "heap"))
  /\ UNCHANGED <<machine, allocator, entry, given, heap, context, fast, timer>>

\* ALLOCATOR.init and probe_allocations, which write into the heap.
init_heap_done ==
  /\ pc = "heap" /\ page > HEAP_PAGES
  /\ heap' = TRUE
  /\ Return("ok", Touch({HEAP_PAGE[i] : i \in DOMAIN HEAP_PAGE}, "user"))
  /\ UNCHANGED <<machine, allocator, entry, given, context, fast, timer>>

\* write_demo_code, then the context the monitor checks.
init_memory_done ==
  /\ pc = "user" /\ page > 3
  /\ context' = TRUE
  /\ Return("ok", Touch({USER_CODE_START}, "gdt"))
  /\ UNCHANGED <<machine, allocator, entry, given, heap, fast, timer>>

-----------------------------------------------------------------------------
(* Segments, the syscall instruction, interrupts. *)

\* The descriptors in the order they are appended.
GDT_CodeFirst == <<"kernel_code", "kernel_data", "user_code", "user_data", "tss">>

GDT == <<"kernel_code", "kernel_data", "user_data", "user_code", "tss">>

\* The selector append returns: the index times 8, and ring 3 for user segments.
selector(name) ==
  LET i == CHOOSE i \in DOMAIN GDT : GDT[i] = name
  IN 8 * i + (IF name \in {"user_code", "user_data"} THEN 3 ELSE 0)

\* What Star::write accepts: sysret and syscall derive the stack selector from
\* the code selector.
star_accepts ==
  /\ selector("user_code") - 16 = selector("user_data") - 8
  /\ selector("kernel_code") = selector("kernel_data") - 8

gdt_init ==
  /\ pc = "gdt" /\ pc' = "syscall"
  /\ UNCHANGED <<machine, page, job, allocator, entry, given, outcome, fast, timer>>

\* The CPU has syscall or not; firmware may have set EFER.SCE, and a CPU or
\* hypervisor may ignore setting it.
CPU == {c \in [syscall : BOOLEAN, sce_before : BOOLEAN, sce_sticks : BOOLEAN] :
          c.sce_before => c.syscall /\ c.sce_sticks}

init_fast_syscall_scaffold ==
  /\ pc = "syscall" /\ pc' = "interrupts"
  /\ cpu' \in CPU
  /\ LET programmed == cpu'.syscall /\ star_accepts
         sce        == cpu'.sce_before \/ (programmed /\ cpu'.sce_sticks)
     IN /\ msr' = [star |-> programmed, lstar |-> programmed, gs |-> programmed, sce |-> sce]
        /\ stage' = CASE ~ cpu'.syscall -> "UnsupportedCpu"
                      [] cpu'.syscall /\ ~ star_accepts -> "Scaffolded"
                      [] programmed -> IF sce THEN "SceEnabledExperimental"
                                              ELSE "MsrProgrammedNoSce"
  /\ UNCHANGED <<machine, page, job, allocator, entry, given, outcome, timer>>

\* interrupts::init, task::init, set_monitor_context.
interrupts_init ==
  /\ pc = "interrupts" /\ pc' = "wait"
  /\ UNCHANGED <<machine, page, job, allocator, entry, given, outcome, fast, timer>>

Tick ==
  /\ pc \in {"wait", "monitor"} /\ ticks < TICK_TARGET
  /\ ticks' = ticks + 1
  /\ UNCHANGED <<pc, spins, machine, page, job, allocator, entry, given, outcome, fast>>

wait_for_ticks_Forever ==
  /\ pc = "wait"
  /\ pc' = IF ticks >= TICK_TARGET THEN "monitor" ELSE "wait"
  /\ UNCHANGED <<machine, page, job, allocator, entry, given, outcome, fast, timer>>

wait_for_ticks ==
  /\ pc = "wait"
  /\ \/ spins = MAX_SPINS /\ pc' = "no_ticks" /\ UNCHANGED spins
     \/ spins < MAX_SPINS /\ ticks >= TICK_TARGET /\ pc' = "monitor" /\ UNCHANGED spins
     \/ spins < MAX_SPINS /\ ticks < TICK_TARGET /\ spins' = spins + 1 /\ UNCHANGED pc
  /\ UNCHANGED <<ticks, machine, page, job, allocator, entry, given, outcome, fast>>

-----------------------------------------------------------------------------
(* The monitor: heap, vm and the launch of a ring 3 program. *)

\* An empty allocator fails the first Box::new, and alloc_error_handler panics.
heap_command ==
  /\ pc = "monitor" /\ ~ heap /\ pc' = "panic_heap"
  /\ UNCHANGED <<machine, page, job, allocator, entry, given, outcome, fast, timer>>

\* vm with an address that is not canonical: VirtAddr::new panics, where vmmap's
\* try_new does not.
vm_command ==
  /\ pc = "monitor" /\ offset /\ pc' = "panic_address"
  /\ UNCHANGED <<machine, page, job, allocator, entry, given, outcome, fast, timer>>

run_demo_code ==
  /\ pc = "monitor" /\ context
  /\ pc' = Touch({USER_CODE_START}, "ring3")
  /\ UNCHANGED <<machine, page, job, allocator, entry, given, outcome, fast, timer>>

Step == \/ first_frames \/ map_page \/ create_next_table \/ set_page
        \/ demo_done \/ init_heap_done \/ init_memory_done
        \/ gdt_init \/ init_fast_syscall_scaffold \/ interrupts_init \/ wait_for_ticks

Next == Step \/ Tick \/ heap_command \/ vm_command \/ run_demo_code

\* kernel_main never blocks; the timer and the user owe nothing.
Spec == Init /\ [][Next]_vars /\ WF_vars(Step)

-----------------------------------------------------------------------------
(* Properties. *)

InBoot  == {"first_frames", "demo", "heap", "user", "gdt", "syscall", "interrupts", "wait"}
Settled == {"monitor", "no_ticks", "panic_heap", "panic_address", "ring3"}

\* kernel_main's counters stay in their ranges; a mapping is under way only inside
\* one of the three calls that map, and pages are given only in their areas.
TypeOK ==
  /\ pc \in InBoot \cup Settled \cup {"reset"}
  /\ next \in Nat /\ taken \in Seq(Nat) /\ Len(taken) <= Len(frames)
  /\ job # None => pc \in DOMAIN Pages /\ page \in DOMAIN Pages[pc]
  /\ DOMAIN given \subseteq Areas
  /\ ticks \in 0 .. TICK_TARGET /\ spins \in 0 .. MAX_SPINS

\* The frame allocator never hands out a frame twice, nor one that is not
\* wholly in usable memory above the first megabyte.
FramesAreFreshAndUsable ==
  /\ \A i, j \in DOMAIN taken : taken[i] = taken[j] => i = j
  /\ \A f \in {taken[i] : i \in DOMAIN taken} :
       /\ f * PAGE_SIZE >= MIN_ALLOCATABLE_PHYS_ADDR
       /\ \E i \in DOMAIN regions :
            LET r == regions[i]
            IN r.kind = "Usable" /\ r.start <= f * PAGE_SIZE /\ (f + 1) * PAGE_SIZE <= r.end

\* The counts boot prints: allocated + remaining is the number of frames, at
\* most what the memory summary says is usable, until an allocation fails; then
\* nothing remains and allocated counts the failures too.
CountsAddUp ==
  LET left == remaining_usable_frames_estimate(next, frames)
  IN /\ Len(frames) <= summarize_memory(regions).usable_frames_4k
     /\ left > 0 => next = Len(taken) /\ next + left = Len(frames)
     /\ left = 0 => Len(taken) = Len(frames) /\ next >= Len(frames)

\* What BootInfoFrameAllocator hands out and what boot says of it are right.
FramesAreAccountedFor == TypeOK /\ FramesAreFreshAndUsable /\ CountsAddUp

\* A walk of the tables finds every page mapped so far at the frame it was
\* mapped with, finds nothing at the other pages of the kernel's areas, and the
\* bootloader's own mappings where they were: no table or page frame is ever
\* written over, by a mapping that failed half-way least of all.
WalkFindsWhatWasMapped ==
  /\ \A p \in Areas : \A o \in 0 .. PAGE_SIZE - 1 :
       walk_virtual_address(entry, Address(p, o, TRUE)) =
         IF p \in DOMAIN given THEN [kind |-> "4KiB", phys |-> given[p] * PAGE_SIZE + o]
                               ELSE Unmapped
  /\ \A i2, i1 \in Index : \A o \in 0 .. PAGE_SIZE - 1 : \A i3 \in {0, 1} :
       LET at == ((i3 * ENTRIES + i2) * ENTRIES + i1) * PAGE_SIZE + o
       IN walk_virtual_address(entry, Address(Page(3, i3, i2, i1), o, TRUE)) =
            [kind |-> IF i3 = 0 THEN "1GiB" ELSE "2MiB", phys |-> at]

\* Boot writes only to pages it has mapped: a write before the IDT is loaded
\* that faults resets the machine without a word.
NeverResets == pc # "reset"

\* Frames run out for good: what boot reports ready later was preceded by all
\* that needs frames earlier, so a usable ring 3 implies a usable heap, and a
\* usable heap the demo page.
ReadyInOrder ==
  /\ context <=> result.user = "ok"
  /\ heap <=> result.heap = "ok"
  /\ result.user = "ok" => result.heap = "ok"
  /\ result.heap = "ok" => result.demo = "ok"

\* Once the fast syscall set-up has run, the syscall instruction is live only
\* with STAR, LSTAR and the kernel GS base in place, and the recorded stage
\* says so; on a CPU that has it nothing but EFER keeps it from being live.
SyscallLiveOnlyWhenProgrammed ==
  pc \in Settled \cup {"interrupts", "wait"} =>
    /\ msr.sce => msr.star /\ msr.lstar /\ msr.gs
    /\ msr.sce <=> stage = "SceEnabledExperimental"
    /\ cpu.syscall => msr.lstar

\* What kernel_main calls ready is ready.
ReadyMeansReady == ReadyInOrder /\ SyscallLiveOnlyWhenProgrammed

\* The kernel reaches the monitor or says why not; a timer that never ticks
\* cannot hold it.
BootEnds == <>(pc \in Settled)
=============================================================================
