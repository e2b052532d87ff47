----------------------------- MODULE BootProofs -----------------------------
(***************************************************************************)
(* Proofs about booting, for every memory map, heap size, size of pages    *)
(* and tables, and bootloader that leaves the kernel's areas alone.        *)
(***************************************************************************)
EXTENDS Boot, MemoryProofs

USE SMTT(90)

-----------------------------------------------------------------------------
(* The inductive invariant, part by part. *)

\* kernel_main, being at at, has made the call c, or skipped it.
Passed(c, at) ==
  /\ at # "first_frames" /\ at # c
  /\ c = "heap" => at # "demo"
  /\ c = "user" => at \notin {"demo", "heap"}

\* The allocator hands out the usable frames in order.
FramesInv ==
  /\ regions \in Regions /\ frames = usable_frames(regions) /\ offset \in BOOLEAN
  /\ next \in Nat /\ taken \in Seq(Nat)
  /\ Len(taken) = IF next < Len(frames) THEN next ELSE Len(frames)
  /\ \A i \in DOMAIN taken : taken[i] = frames[i]

\* Where kernel_main is.
PlaceInv ==
  /\ pc \in InBoot \cup Settled
  /\ page \in Nat \ {0} /\ (pc = "first_frames" => page <= 3)
  /\ pc \in Calls => page <= Len(Pages[pc]) + 1
  /\ job # None =>
       /\ pc \in Calls /\ page \in DOMAIN Pages[pc]
       /\ job \in [frame : Nat, level : 1..4, table : Nat]
  /\ ticks \in 0..TICK_TARGET /\ spins \in 0..MAX_SPINS

\* A call fails only when the frames have run out, and a call that got a frame
\* comes after calls that got all of theirs.
ResultInv ==
  /\ result \in [Calls -> {"none", "ok", "err"}] /\ heap \in BOOLEAN /\ context \in BOOLEAN
  /\ \A c \in Calls : result[c] = "err" => ~ Left
  /\ \A c \in Calls : ~ Passed(c, pc) => result[c] = "none"
  /\ pc \in {"heap", "user"} => result["demo"] # "none"
  /\ pc = "user" => result["heap"] # "none"
  /\ pc = "heap" /\ (page > 1 \/ job # None) => result["demo"] = "ok"
  /\ pc = "user" /\ (page > 1 \/ job # None) => result["heap"] = "ok"
  /\ ReadyInOrder

\* Pages are given in the order of the calls, all of them by a call that is ok.
GivenInv ==
  /\ DOMAIN given \subseteq Areas
  /\ \A p \in DOMAIN given : given[p] \in Nat
  /\ \A c \in Calls : \A i \in DOMAIN Pages[c] :
       /\ Pages[c][i] \in DOMAIN given => Passed(c, pc) \/ (c = pc /\ i < page)
       /\ result[c] = "ok" \/ (c = pc /\ i < page) => Pages[c][i] \in DOMAIN given

\* The page tables are in order, and the walk of the map_to in progress is at its
\* table.
TablesInv ==
  /\ Kept(entry)
  /\ \E tab \in Way :
       /\ Linked(tab, entry) /\ Leaves(tab, entry, given) /\ Apart(tab)
       /\ Unused(tab, entry, frames, next)
       /\ job # None => job.table = tab[Pages[pc][page]][job.level] /\ job.table # -1

IInv == FramesInv /\ PlaceInv /\ ResultInv /\ GivenInv /\ TablesInv /\ SyscallLiveOnlyWhenProgrammed

-----------------------------------------------------------------------------
(* The descriptor table. *)

\* The order of the GDT is the one Star::write wants.
LEMMA StarAccepts == star_accepts
<1>1. DOMAIN GDT = 1..5
  BY DEF GDT
<1>2. /\ GDT[1] = "kernel_code" /\ GDT[2] = "kernel_data" /\ GDT[3] = "user_data"
      /\ GDT[4] = "user_code" /\ GDT[5] = "tss"
  BY Zenon DEF GDT
<1>3. ASSUME NEW n \in 1..4 PROVE (CHOOSE i \in DOMAIN GDT : GDT[i] = GDT[n]) = n
  <2> DEFINE c == CHOOSE i \in DOMAIN GDT : GDT[i] = GDT[n]
  <2>1. n \in DOMAIN GDT
    BY <1>1
  <2>2. c \in DOMAIN GDT /\ GDT[c] = GDT[n]
    BY <2>1, Zenon
  <2> HIDE DEF c
  <2>3. c = n
    BY <1>1, <1>2, <2>2
  <2> QED
    BY <2>3, Zenon DEF c
<1> DEFINE place(name) == CHOOSE i \in DOMAIN GDT : GDT[i] = name
<1>4. /\ place("kernel_code") = 1 /\ place("kernel_data") = 2
      /\ place("user_data") = 3 /\ place("user_code") = 4
  BY <1>2, <1>3
<1>5. \A name :
        selector(name) = 8 * place(name) + (IF name \in {"user_code", "user_data"} THEN 3 ELSE 0)
  BY Zenon DEF selector
<1> HIDE DEF place
<1>6. /\ selector("kernel_code") = 8 /\ selector("kernel_data") = 16
      /\ selector("user_code") = 35 /\ selector("user_data") = 27
  BY <1>4, <1>5
<1> QED
  BY <1>6 DEF star_accepts

-----------------------------------------------------------------------------
(* The steps of boot, by what they do to the invariant. *)

Late == {"gdt", "syscall", "interrupts", "wait"} \cup Settled

\* The page being mapped.
Goal == Pages[pc][page]

\* A page gets its frame.
Begin ==
  /\ pc \in Calls /\ job = None /\ page \in DOMAIN Pages[pc] /\ Left /\ allocate_frame
  /\ job' = [frame |-> NextFrame, level |-> 1, table |-> CR3]
  /\ UNCHANGED <<machine, pc, page, entry, given, outcome, fast, timer>>

\* map_to goes down through a table that is there, or through a new one.
Follow ==
  /\ job # None /\ job.level < 4 /\ Slot \in DOMAIN entry
  /\ job' = [job EXCEPT !.level = @ + 1, !.table = entry[Slot].frame]
  /\ UNCHANGED <<machine, allocator, pc, page, entry, given, outcome, fast, timer>>

Grow ==
  /\ job # None /\ job.level < 4 /\ Slot \notin DOMAIN entry /\ Left /\ allocate_frame
  /\ entry' = Put(Zeroed(entry, NextFrame), Slot, [kind |-> "table", frame |-> NextFrame])
  /\ job' = [job EXCEPT !.level = @ + 1, !.table = NextFrame]
  /\ UNCHANGED <<machine, pc, page, given, outcome, fast, timer>>

\* The call ends for want of a frame, or with all its pages mapped.
RunOut ==
  /\ pc \in Calls /\ ~ Left /\ allocate_frame /\ Return("err", After[pc])
  /\ UNCHANGED <<machine, entry, given, heap, context, fast, timer>>

Finish ==
  /\ pc \in Calls /\ page > Len(Pages[pc]) /\ Return("ok", After[pc])
  /\ heap' = (pc = "heap" \/ heap) /\ context' = (pc = "user" \/ context)
  /\ UNCHANGED <<machine, allocator, entry, given, fast, timer>>

\* After the calls that map.
Later ==
  /\ pc \in Late /\ pc' \in Late
  /\ UNCHANGED <<machine, page, job, allocator, entry, given, outcome>>

\* A page about to be mapped is not mapped yet.
LEMMA GoalIsNew ==
  ASSUME IInv, pc \in Calls, page \in DOMAIN Pages[pc]
  PROVE  Goal \in Areas /\ Goal \notin DOMAIN given /\ ~ Mapped(entry, Goal)
<1>1. Goal \in Areas
  BY OnePlace, Zenon DEF Goal
<1>2. page \in Nat
  BY Zenon DEF IInv, PlaceInv
<1>3. Goal \notin DOMAIN given
  BY <1>2 DEF IInv, GivenInv, Goal, Passed
<1>4. PICK tab \in Way : Linked(tab, entry) /\ Leaves(tab, entry, given)
  BY Zenon DEF IInv, TablesInv
<1>5. ~ Mapped(entry, Goal)
  BY <1>1, <1>3, <1>4, MappedIsGiven, Zenon
<1> QED
  BY <1>1, <1>3, <1>5, Zenon

\* What has been given can be written to.
LEMMA TouchGiven ==
  ASSUME IInv, NEW S, S \subseteq DOMAIN given, NEW then
  PROVE  Touch(S, then) = then
<1>1. PICK tab \in Way : Linked(tab, entry) /\ Leaves(tab, entry, given)
  BY Zenon DEF IInv, TablesInv
<1>2. DOMAIN given \subseteq Areas
  BY Zenon DEF IInv, GivenInv
<1>3. \A p \in S : Mapped(entry, p)
  BY <1>1, <1>2, MappedIsGiven, Zenon
<1> QED
  BY <1>3, Zenon DEF Touch

\* At the end of a call all its pages are mapped.
LEMMA AllGiven ==
  ASSUME IInv, pc \in Calls, page > Len(Pages[pc]), NEW i \in DOMAIN Pages[pc]
  PROVE  Pages[pc][i] \in DOMAIN given
<1>1. i < page
  BY OnePlace DEF IInv, PlaceInv
<1> QED
  BY <1>1, Zenon DEF IInv, GivenInv

\* map_page takes a frame, or ends the call for want of one: never because the page
\* was mapped already.
LEMMA MapPage ==
  ASSUME IInv, map_page
  PROVE  Begin \/ RunOut
<1>1. pc \in Calls /\ page \in DOMAIN Pages[pc] /\ job = None
  BY PageLists, Zenon DEF map_page
<1>2. ~ Mapped(entry, Pages[pc][page])
  BY <1>1, GoalIsNew, Zenon DEF Goal
<1>3. /\ allocate_frame
      /\ IF Left THEN /\ job' = [frame |-> NextFrame, level |-> 1, table |-> CR3]
                      /\ UNCHANGED <<pc, page, entry, given, outcome>>
                 ELSE Fail
      /\ UNCHANGED <<machine, fast, timer>>
  BY <1>2, Zenon DEF map_page
<1>4. CASE Left
  BY <1>1, <1>3, <1>4, Zenon DEF Begin
<1>5. CASE ~ Left
  BY <1>1, <1>3, <1>5, Zenon DEF RunOut, Fail
<1> QED
  BY <1>4, <1>5, Zenon

\* create_next_table follows an entry, adds a table, or ends the call.
LEMMA CreateNextTable ==
  ASSUME IInv, create_next_table
  PROVE  Follow \/ Grow \/ RunOut
<1>1. pc \in Calls
  BY Zenon DEF IInv, PlaceInv, create_next_table
<1>2. CASE Slot \in DOMAIN entry
  BY <1>2, Zenon DEF create_next_table, Follow
<1>3. CASE Slot \notin DOMAIN entry /\ Left
  BY <1>3, Zenon DEF create_next_table, Grow
<1>4. CASE Slot \notin DOMAIN entry /\ ~ Left
  BY <1>1, <1>4, Zenon DEF create_next_table, RunOut, Fail
<1> QED
  BY <1>2, <1>3, <1>4, Zenon

\* The last steps of the calls that map touch only mapped pages.
LEMMA Finishes ==
  ASSUME IInv, demo_done \/ init_heap_done \/ init_memory_done
  PROVE  Finish
<1>1. CASE demo_done
  <2>1. pc = "demo" /\ page > Len(Pages[pc]) /\ pc \in Calls
    <3>1. pc = "demo" /\ page = 2
      BY <1>1, Zenon DEF demo_done
    <3> QED
      BY <3>1, PageLists DEF Calls
  <2>2. DEMO_PAGE_START \in DOMAIN given
    <3>1. 1 \in DOMAIN Pages[pc] /\ Pages[pc][1] = DEMO_PAGE_START
      BY <2>1, PageLists
    <3> QED
      BY <2>1, <3>1, AllGiven, Zenon
  <2>3. Touch({DEMO_PAGE_START}, "heap") = "heap"
    BY <2>2, TouchGiven, Zenon
  <2>4. After[pc] = "heap"
    BY <2>1, Zenon DEF After
  <2>5. heap' = (pc = "heap" \/ heap) /\ context' = (pc = "user" \/ context)
    <3>1. heap' = heap /\ context' = context
      BY <1>1, Zenon DEF demo_done
    <3>2. heap \in BOOLEAN /\ context \in BOOLEAN
      BY Zenon DEF IInv, ResultInv
    <3> QED
      BY <2>1, <3>1, <3>2, Zenon
  <2> QED
    BY <1>1, <2>1, <2>3, <2>4, <2>5, Zenon DEF demo_done, Finish
<1>2. CASE init_heap_done
  <2>1. pc = "heap" /\ page > Len(Pages[pc]) /\ pc \in Calls
    BY <1>2, PageLists, Zenon DEF init_heap_done, Calls
  <2>2. {HEAP_PAGE[i] : i \in DOMAIN HEAP_PAGE} \subseteq DOMAIN given
    <3>1. Pages[pc] = HEAP_PAGE
      BY <2>1, PageLists, Zenon
    <3> QED
      BY <2>1, <3>1, AllGiven, Zenon
  <2>3. Touch({HEAP_PAGE[i] : i \in DOMAIN HEAP_PAGE}, "user") = "user"
    BY <2>2, TouchGiven, Zenon
  <2>4. After[pc] = "user"
    BY <2>1, Zenon DEF After
  <2>5. heap' = (pc = "heap" \/ heap) /\ context' = (pc = "user" \/ context)
    <3>1. heap' = TRUE /\ context' = context
      BY <1>2, Zenon DEF init_heap_done
    <3>2. context \in BOOLEAN
      BY Zenon DEF IInv, ResultInv
    <3> QED
      BY <2>1, <3>1, <3>2, Zenon
  <2> QED
    BY <1>2, <2>1, <2>3, <2>4, <2>5, Zenon DEF init_heap_done, Finish
<1>3. CASE init_memory_done
  <2>1. pc = "user" /\ page > Len(Pages[pc]) /\ pc \in Calls
    BY <1>3, PageLists, Zenon DEF init_memory_done, Calls
  <2>2. USER_CODE_START \in DOMAIN given
    <3>1. 1 \in DOMAIN Pages[pc] /\ Pages[pc][1] = USER_CODE_START
      BY <2>1, PageLists DEF USER_PAGE
    <3> QED
      BY <2>1, <3>1, AllGiven, Zenon
  <2>3. Touch({USER_CODE_START}, "gdt") = "gdt"
    BY <2>2, TouchGiven, Zenon
  <2>4. After[pc] = "gdt"
    BY <2>1, Zenon DEF After
  <2>5. heap' = (pc = "heap" \/ heap) /\ context' = (pc = "user" \/ context)
    <3>1. context' = TRUE /\ heap' = heap
      BY <1>3, Zenon DEF init_memory_done
    <3>2. heap \in BOOLEAN
      BY Zenon DEF IInv, ResultInv
    <3> QED
      BY <2>1, <3>1, <3>2, Zenon
  <2> QED
    BY <1>3, <2>1, <2>3, <2>4, <2>5, Zenon DEF init_memory_done, Finish
<1> QED
  BY <1>1, <1>2, <1>3, Zenon

\* What comes after the calls that map leaves memory alone, and resets nothing.
LEMMA LateSteps ==
  ASSUME IInv,
         \/ gdt_init \/ init_fast_syscall_scaffold \/ interrupts_init \/ wait_for_ticks
         \/ Tick \/ heap_command \/ vm_command \/ run_demo_code
  PROVE  Later
<1>1. CASE gdt_init
  BY <1>1, Zenon DEF gdt_init, Later, Late, Settled
<1>2. CASE init_fast_syscall_scaffold
  BY <1>2, Zenon DEF init_fast_syscall_scaffold, Later, Late, Settled
<1>3. CASE interrupts_init
  BY <1>3, Zenon DEF interrupts_init, Later, Late, Settled
<1>4. CASE wait_for_ticks
  BY <1>4, Zenon DEF wait_for_ticks, Later, Late, Settled
<1>5. CASE Tick
  BY <1>5, Zenon DEF Tick, Later, Late, Settled
<1>6. CASE heap_command \/ vm_command
  BY <1>6, Zenon DEF heap_command, vm_command, Later, Late, Settled
<1>7. CASE run_demo_code
  <2>1. USER_CODE_START \in DOMAIN given
    <3>1. result["user"] = "ok" /\ "user" \in Calls
      BY <1>7, Zenon DEF run_demo_code, IInv, ResultInv, ReadyInOrder, Calls
    <3>2. 1 \in DOMAIN Pages["user"] /\ Pages["user"][1] = USER_CODE_START
      BY PageLists DEF USER_PAGE
    <3> QED
      BY <3>1, <3>2, Zenon DEF IInv, GivenInv
  <2>2. Touch({USER_CODE_START}, "ring3") = "ring3"
    BY <2>1, TouchGiven, Zenon
  <2> QED
    BY <1>7, <2>2, Zenon DEF run_demo_code, Later, Late, Settled
<1> QED
  BY <1>1, <1>2, <1>3, <1>4, <1>5, <1>6, <1>7

\* What a step may be.
Move == first_frames \/ Begin \/ Follow \/ Grow \/ set_page \/ RunOut \/ Finish \/ Later

\* Every step of Next, seen from the invariant.
LEMMA Moves ==
  ASSUME IInv, Next
  PROVE  Move
BY MapPage, CreateNextTable, Finishes, LateSteps, Zenon DEF Next, Step, Move

-----------------------------------------------------------------------------
(* The invariant holds at the start and is kept. *)

\* The frames ascend.
LEMMA FramesAscend ==
  ASSUME FramesInv
  PROVE  frames \in Seq(Nat) /\ Ascends(frames)
BY UsableFrames, Zenon DEF FramesInv, Counted, Ascends

\* The invariant holds when kernel_main is entered.
LEMMA InitIInv ==
  ASSUME Init
  PROVE  IInv
<1>1. FramesInv
  <2>1. regions \in Regions /\ frames = usable_frames(regions) /\ offset \in BOOLEAN
    BY Zenon DEF Init
  <2>2. frames \in Seq(Nat)
    BY <2>1, UsableFrames, Zenon DEF Counted
  <2> QED
    BY <2>1, <2>2 DEF Init, FramesInv
<1>2. PlaceInv
  BY BoundsAssumption DEF Init, PlaceInv, InBoot, Calls
<1>3. pc = "first_frames" /\ page = 1 /\ job = None /\ next = 0 /\ entry = BootEntries /\ given = <<>>
  BY Zenon DEF Init
<1>4. result = [c \in Calls |-> "none"]
  BY DEF Init, Calls
<1>5. \A c \in Calls : ~ Passed(c, pc) /\ c # pc
  BY <1>3, Zenon DEF Passed, Calls
<1>6. ResultInv
  <2>1. "demo" \in Calls /\ "heap" \in Calls /\ "user" \in Calls
    BY Zenon DEF Calls
  <2>2. heap = FALSE /\ context = FALSE
    BY Zenon DEF Init
  <2> QED
    BY <1>3, <1>4, <2>1, <2>2, Zenon DEF ResultInv, ReadyInOrder
<1>7. GivenInv
  <2>1. DOMAIN given = {}
    BY <1>3
  <2> QED
    BY <1>4, <1>5, <2>1, Zenon DEF GivenInv
<1>8. TablesInv
  <2> DEFINE tab == [p \in Areas |-> [i \in 1..4 |-> IF i = 1 THEN CR3 ELSE -1]]
  <2>1. CR3 \in Nat
    BY MemoryAssumption, Zenon
  <2>2. tab \in Way
    BY <2>1, Zenon DEF Way
  <2>3. \A p \in Areas : \A i \in 1..4 : tab[p][i] = IF i = 1 THEN CR3 ELSE -1
    BY Zenon
  <2> HIDE DEF tab
  <2>4. Linked(tab, entry)
    BY <1>3, <2>3, BootEntriesAssumption DEF Linked
  <2>5. Leaves(tab, entry, given)
    BY <1>3, <2>3 DEF Leaves
  <2>6. Apart(tab)
    <3>1. ASSUME NEW p \in Areas, NEW q \in Areas, NEW i \in 1..4, NEW j \in 1..4,
                 tab[p][i] # -1, tab[p][i] = tab[q][j]
          PROVE  i = j /\ Agree(p, q, i - 1)
      <4>1. i = 1 /\ j = 1
        BY <2>1, <2>3, <3>1, Zenon
      <4> QED
        BY <4>1 DEF Agree
    <3> QED
      BY <2>3, <3>1 DEF Apart
  <2>7. Unused(tab, entry, frames, next)
    <3>1. frames = usable_frames(regions) /\ regions \in Regions /\ frames \in Seq(Nat)
      BY <1>1, FramesAscend, Zenon DEF FramesInv
    <3>2. ASSUME NEW i \in next + 1..Len(frames)
          PROVE  /\ \A s \in DOMAIN entry : s[1] # frames[i]
                 /\ \A p \in Areas : \A k \in 1..4 : tab[p][k] # frames[i]
      <4>1. i \in DOMAIN frames /\ frames[i] \in Nat
        BY <1>3, <3>1
      <4>2. frames[i] \notin BootTables
        BY <3>1, <4>1, BootEntriesAssumption, Zenon
      <4>3. CR3 # frames[i] /\ -1 # frames[i]
        BY <4>1, <4>2 DEF BootTables
      <4>4. \A s \in DOMAIN entry : s[1] # frames[i]
        BY <1>3, <4>2, Zenon DEF BootTables
      <4> QED
        BY <2>3, <4>3, <4>4, Zenon
    <3> QED
      BY <3>2, Zenon DEF Unused
  <2>8. Kept(entry)
    BY <1>3, Zenon DEF Kept
  <2> QED
    BY <1>3, <2>2, <2>4, <2>5, <2>6, <2>7, <2>8 DEF TablesInv
<1>9. SyscallLiveOnlyWhenProgrammed
  BY <1>3, Zenon DEF SyscallLiveOnlyWhenProgrammed, Settled
<1> QED
  BY <1>1, <1>2, <1>6, <1>7, <1>8, <1>9, Zenon DEF IInv

\* A step takes at most one frame, the next one.
LEMMA NextFrames ==
  ASSUME IInv, Move
  PROVE  FramesInv' /\ (\/ next' = next \/ next' = next + 1)
<1>0. FramesInv /\ frames \in Seq(Nat)
  BY FramesAscend, Zenon DEF IInv
<1>1. regions' = regions /\ frames' = frames /\ offset' = offset
  BY Zenon DEF Move, first_frames, Begin, Follow, Grow, set_page, RunOut, Finish, Later, machine
<1>2. allocate_frame \/ (next' = next /\ taken' = taken)
  BY Zenon DEF Move, first_frames, Begin, Follow, Grow, set_page, RunOut, Finish, Later, allocator
<1>3. CASE allocate_frame
  <2>1. CASE Left
    <3>1. next' = next + 1 /\ taken' = Append(taken, frames[next + 1])
      BY <1>3, <2>1, Zenon DEF allocate_frame, NextFrame
    <3>2. next \in Nat /\ next + 1 \in DOMAIN frames /\ Len(taken) = next /\ frames[next + 1] \in Nat
      BY <1>0, <2>1 DEF FramesInv, Left
    <3>3. taken \in Seq(Nat) /\ \A i \in DOMAIN taken : taken[i] = frames[i]
      BY <1>0, Zenon DEF FramesInv
    <3>4. taken' \in Seq(Nat) /\ Len(taken') = next + 1
      BY <3>1, <3>2, <3>3
    <3>5. \A i \in DOMAIN taken' : taken'[i] = frames[i]
      BY <3>1, <3>2, <3>3
    <3>6. Len(taken') = IF next' < Len(frames') THEN next' ELSE Len(frames')
      BY <1>0, <1>1, <2>1, <3>1, <3>2, <3>4 DEF Left
    <3> QED
      BY <1>0, <1>1, <3>1, <3>2, <3>4, <3>5, <3>6 DEF FramesInv
  <2>2. CASE ~ Left
    <3>1. next' = next + 1 /\ taken' = taken
      BY <1>3, <2>2, Zenon DEF allocate_frame
    <3>2. Len(taken) = Len(frames) /\ ~ (next + 1 < Len(frames)) /\ next \in Nat
      BY <1>0, <2>2 DEF FramesInv, Left
    <3> QED
      BY <1>0, <1>1, <3>1, <3>2 DEF FramesInv
  <2> QED
    BY <2>1, <2>2, Zenon
<1>4. CASE next' = next /\ taken' = taken
  BY <1>0, <1>1, <1>4, Zenon DEF FramesInv
<1> QED
  BY <1>2, <1>3, <1>4, Zenon

\* The entry map_to looks at is on the way to its page.
OnTheWay(tab) ==
  /\ Slot = <<tab[Goal][job.level], Goal[job.level]>> /\ Goal \in Areas
  /\ job.table = tab[Goal][job.level] /\ job.table # -1

\* map_to stands on the way to the page being mapped.
LEMMA SlotOnTheWay ==
  ASSUME PlaceInv, job # None, NEW tab \in Way,
         job.table = tab[Pages[pc][page]][job.level] /\ job.table # -1
  PROVE  OnTheWay(tab)
<1>1. pc \in Calls /\ page \in DOMAIN Pages[pc]
  BY Zenon DEF PlaceInv
<1>2. Goal \in Areas
  BY <1>1, OnePlace, Zenon DEF Goal
<1> QED
  BY <1>2, Zenon DEF OnTheWay, Goal, Slot

\* The entry it follows is a table.
LEMMA EntryBelow ==
  ASSUME IInv, job # None, job.level < 4, Slot \in DOMAIN entry
  PROVE  entry[Slot].frame \in Nat
<1>1. PICK tab \in Way :
        /\ Linked(tab, entry)
        /\ job # None => job.table = tab[Pages[pc][page]][job.level] /\ job.table # -1
  BY Zenon DEF IInv, TablesInv
<1>2. OnTheWay(tab)
  BY <1>1, SlotOnTheWay, Zenon DEF IInv
<1>3. job.level \in 1..3 /\ job.level + 1 \in 1..4
  BY DEF IInv, PlaceInv
<1> DEFINE l == job.level
           p == Goal
<1>4. <<tab[p][l], p[l]>> \in DOMAIN entry /\ tab[p][l] # -1
  BY <1>2, Zenon DEF OnTheWay
<1>5. p \in Areas /\ l \in 1..3
  BY <1>2, <1>3, Zenon DEF OnTheWay
<1> HIDE DEF l, p
<1>6. tab[p][l + 1] # -1 /\ entry[<<tab[p][l], p[l]>>] = [kind |-> "table", frame |-> tab[p][l + 1]]
  BY <1>1, <1>4, <1>5, Zenon DEF Linked
<1>7. tab[p][l + 1] \in Nat
  <2>1. tab[p] \in [1..4 -> Nat \cup {-1}]
    BY <1>5, Zenon DEF Way
  <2>2. l + 1 \in 1..4
    BY <1>5
  <2> QED
    BY <1>6, <2>1, <2>2, Zenon
<1>8. Slot = <<tab[p][l], p[l]>>
  BY <1>2, Zenon DEF OnTheWay, l, p
<1> QED
  BY <1>6, <1>7, <1>8

\* What each step does to the place, the results and the pages given.
LEMMA NextPlace ==
  ASSUME IInv, Move, Next
  PROVE  PlaceInv'
<1>0. PlaceInv /\ \A c \in Calls : DOMAIN Pages[c] = 1..Len(Pages[c]) /\ Len(Pages[c]) \in Nat \ {0}
  BY OnePlace, Zenon DEF IInv
<1>1. ticks' \in 0..TICK_TARGET /\ spins' \in 0..MAX_SPINS
  <2>1. ticks \in 0..TICK_TARGET /\ spins \in 0..MAX_SPINS /\ TICK_TARGET \in Nat /\ MAX_SPINS \in Nat
    BY <1>0, BoundsAssumption, Zenon DEF PlaceInv
  <2>2. CASE Tick \/ wait_for_ticks
    BY <2>1, <2>2 DEF Tick, wait_for_ticks
  <2>3. CASE ~ (Tick \/ wait_for_ticks)
    <3>1. UNCHANGED timer
      <4>1. CASE first_frames
        BY <4>1, Zenon DEF first_frames
      <4>2. CASE map_page
        BY <4>2, Zenon DEF map_page
      <4>3. CASE create_next_table
        BY <4>3, Zenon DEF create_next_table
      <4>4. CASE set_page
        BY <4>4, Zenon DEF set_page
      <4>5. CASE demo_done
        BY <4>5, Zenon DEF demo_done
      <4>6. CASE init_heap_done
        BY <4>6, Zenon DEF init_heap_done
      <4>7. CASE init_memory_done
        BY <4>7, Zenon DEF init_memory_done
      <4>8. CASE gdt_init
        BY <4>8, Zenon DEF gdt_init
      <4>9. CASE init_fast_syscall_scaffold
        BY <4>9, Zenon DEF init_fast_syscall_scaffold
      <4>10. CASE interrupts_init
        BY <4>10, Zenon DEF interrupts_init
      <4>11. CASE heap_command
        BY <4>11, Zenon DEF heap_command
      <4>12. CASE vm_command
        BY <4>12, Zenon DEF vm_command
      <4>13. CASE run_demo_code
        BY <4>13, Zenon DEF run_demo_code
      <4> QED
        BY <2>3, <4>1, <4>2, <4>3, <4>4, <4>5, <4>6, <4>7, <4>8, <4>9, <4>10, <4>11, <4>12, <4>13 DEF Next, Step
    <3> QED
      BY <2>1, <3>1, Zenon DEF timer
  <2> QED
    BY <2>2, <2>3, Zenon
<1>2. CASE first_frames
  <2>1. pc = "first_frames" /\ pc' \in {"first_frames", "demo", "gdt"} /\ job' = job /\ job = None
    BY <1>0, <1>2, Zenon DEF first_frames, PlaceInv, Calls
  <2>2. page' \in Nat \ {0} /\ page' <= 3 /\ (pc' = "demo" => page' = 1)
    BY <1>0, <1>2 DEF first_frames, PlaceInv
  <2>3. pc' \in Calls => page' <= Len(Pages[pc']) + 1
    BY <1>0, <2>1, <2>2, PageLists DEF Calls
  <2> QED
    BY <1>1, <2>1, <2>2, <2>3, Zenon DEF PlaceInv, InBoot
<1>3. CASE Begin
  <2>1. NextFrame \in Nat /\ CR3 \in Nat
    BY <1>3, FramesAscend, MemoryAssumption DEF IInv, FramesInv, Begin, Left, NextFrame
  <2>2. job' \in [frame : Nat, level : 1..4, table : Nat]
    BY <1>3, <2>1 DEF Begin
  <2>3. pc' = pc /\ page' = page /\ pc \in Calls /\ page \in DOMAIN Pages[pc]
    BY <1>3, Zenon DEF Begin
  <2> QED
    BY <1>0, <1>1, <2>2, <2>3, Zenon DEF PlaceInv
<1>4. CASE Follow \/ Grow
  <2>1. job # None /\ job \in [frame : Nat, level : 1..4, table : Nat] /\ job.level < 4
    BY <1>0, <1>4, Zenon DEF PlaceInv, Follow, Grow
  <2>2. PICK x \in Nat : job' = [job EXCEPT !.level = @ + 1, !.table = x]
    <3>1. CASE Follow
      <4>1. entry[Slot].frame \in Nat
        BY <2>1, <3>1, EntryBelow, Zenon DEF Follow
      <4> QED
        BY <3>1, <4>1, Zenon DEF Follow
    <3>2. CASE Grow
      <4>1. NextFrame \in Nat
        BY <3>2, FramesAscend DEF IInv, FramesInv, Grow, Left, NextFrame
      <4> QED
        BY <3>2, <4>1, Zenon DEF Grow
    <3> QED
      BY <1>4, <3>1, <3>2, Zenon
  <2>3. job' \in [frame : Nat, level : 1..4, table : Nat]
    <3>1. job.level + 1 \in 1..4
      BY <2>1
    <3> QED
      BY <2>1, <2>2, <3>1, Zenon
  <2>4. pc' = pc /\ page' = page
    BY <1>4, Zenon DEF Follow, Grow
  <2> QED
    BY <1>0, <1>1, <2>1, <2>3, <2>4, Zenon DEF PlaceInv
<1>5. CASE set_page
  <2>1. page' = page + 1 /\ job' = None /\ pc' = pc /\ job # None
    BY <1>5, Zenon DEF set_page
  <2>2. pc \in Calls /\ page \in 1..Len(Pages[pc]) /\ Len(Pages[pc]) \in Nat /\ pc # "first_frames"
    BY <1>0, <2>1, Zenon DEF PlaceInv, Calls
  <2>3. page' \in Nat \ {0} /\ page' <= Len(Pages[pc]) + 1
    BY <2>1, <2>2
  <2> QED
    BY <1>0, <1>1, <2>1, <2>2, <2>3, Zenon DEF PlaceInv
<1>6. CASE RunOut \/ Finish
  <2>1. pc \in Calls /\ pc' = After[pc] /\ page' = 1 /\ job' = None
    BY <1>6, Zenon DEF RunOut, Finish, Return
  <2>2. pc' \in {"heap", "user", "gdt"}
    BY <2>1 DEF After, Calls
  <2>3. pc' \in Calls => page' <= Len(Pages[pc']) + 1
    BY <1>0, <2>1
  <2> QED
    BY <1>1, <2>1, <2>2, <2>3 DEF PlaceInv, InBoot
<1>7. CASE Later
  <2>1. pc \in Late /\ pc' \in Late /\ page' = page /\ job' = job
    BY <1>7, Zenon DEF Later
  <2>2. pc \notin Calls /\ pc' \notin Calls /\ pc' \in InBoot \cup Settled /\ pc' # "first_frames"
    BY <2>1, Zenon DEF Late, Calls, InBoot, Settled
  <2> QED
    BY <1>0, <1>1, <2>1, <2>2, Zenon DEF PlaceInv
<1> QED
  BY <1>2, <1>3, <1>4, <1>5, <1>6, <1>7 DEF Move

\* The results stay in order: frames run out for good.
LEMMA NextResult ==
  ASSUME IInv, Move
  PROVE  ResultInv'
<1>0. /\ ResultInv /\ "demo" \in Calls /\ "heap" \in Calls /\ "user" \in Calls
      /\ result \in [Calls -> {"none", "ok", "err"}]
  BY Zenon DEF IInv, ResultInv, Calls
<1>1. ~ Left => ~ Left'
  <2>1. frames' = frames
    BY Zenon DEF Move, first_frames, Begin, Follow, Grow, set_page, RunOut, Finish, Later, machine
  <2>2. next \in Nat /\ Len(frames) \in Nat
    BY FramesAscend DEF IInv, FramesInv
  <2>3. next' = next \/ next' = next + 1
    BY NextFrames, Zenon
  <2> QED
    BY <2>1, <2>2, <2>3 DEF Left
<1>2. CASE first_frames
  <2>1. UNCHANGED outcome /\ pc = "first_frames" /\ pc' \in {"first_frames", "demo", "gdt"}
    BY <1>2, Zenon DEF first_frames
  <2>2. \A c \in Calls : ~ Passed(c, pc)
    BY <2>1, Zenon DEF Passed
  <2> QED
    BY <1>0, <1>1, <2>1, <2>2, Zenon DEF ResultInv, ReadyInOrder, outcome
<1>3. CASE Begin
  <2>1. UNCHANGED outcome /\ pc' = pc /\ page' = page /\ Left
    BY <1>3, Zenon DEF Begin
  <2>2. \A c \in Calls : result[c] # "err"
    BY <1>0, <2>1, Zenon DEF ResultInv
  <2>3. (pc = "heap" => result["demo"] = "ok") /\ (pc = "user" => result["heap"] = "ok")
    BY <1>0, <2>2, Zenon DEF ResultInv
  <2> QED
    BY <1>0, <1>1, <2>1, <2>2, <2>3, Zenon DEF ResultInv, ReadyInOrder, outcome
<1>4. CASE Follow \/ Grow \/ set_page
  <2>1. UNCHANGED outcome /\ pc' = pc /\ job # None
    BY <1>4, Zenon DEF Follow, Grow, set_page
  <2> QED
    BY <1>0, <1>1, <2>1, Zenon DEF ResultInv, ReadyInOrder, outcome
<1>5. CASE RunOut
  <2>1. /\ pc \in Calls /\ ~ Left' /\ page' = 1 /\ job' = None /\ pc' = After[pc]
        /\ result' = [result EXCEPT ![pc] = "err"] /\ heap' = heap /\ context' = context
    BY <1>1, <1>5, Zenon DEF RunOut, Return
  <2>2. pc \in Calls => result[pc] = "none"
    BY <1>0, Zenon DEF ResultInv, Passed
  <2>3. /\ pc = "demo" => pc' = "heap" /\ result["heap"] = "none" /\ result["user"] = "none"
        /\ pc = "heap" => pc' = "user" /\ result["user"] = "none" /\ result["demo"] # "none"
        /\ pc = "user" => pc' = "gdt"
    BY <1>0, <2>1 DEF ResultInv, Passed, After, Calls
  <2>4. /\ result' \in [Calls -> {"none", "ok", "err"}] /\ result'[pc] = "err"
        /\ \A c \in Calls : c # pc => result'[c] = result[c]
    BY <1>0, <2>1, Zenon
  <2>5. ReadyInOrder'
    BY <1>0, <2>1, <2>2, <2>3, <2>4, Zenon DEF ResultInv, ReadyInOrder, Calls
  <2>6. \A c \in Calls : ~ Passed(c, pc') => result'[c] = "none"
    BY <1>0, <2>1, <2>3, <2>4, Zenon DEF Passed, Calls
  <2>7. /\ pc' \in {"heap", "user"} => result'["demo"] # "none"
        /\ pc' = "user" => result'["heap"] # "none"
    BY <1>0, <2>1, <2>3, <2>4, Zenon DEF Calls
  <2> QED
    BY <1>0, <2>1, <2>4, <2>5, <2>6, <2>7 DEF ResultInv
<1>6. CASE Finish
  <2>1. /\ pc \in Calls /\ page' = 1 /\ job' = None /\ pc' = After[pc] /\ page > Len(Pages[pc])
        /\ result' = [result EXCEPT ![pc] = "ok"]
        /\ heap' = (pc = "heap" \/ heap) /\ context' = (pc = "user" \/ context)
    BY <1>6, Zenon DEF Finish, Return
  <2>2. result[pc] = "none" /\ page > 1
    <3>1. result[pc] = "none"
      BY <1>0, <2>1, Zenon DEF ResultInv, Passed
    <3>2. page \in Nat /\ Len(Pages[pc]) \in Nat \ {0}
      BY <2>1, OnePlace, Zenon DEF IInv, PlaceInv
    <3> QED
      BY <2>1, <3>1, <3>2
  <2>3. /\ pc = "demo" => pc' = "heap" /\ result["heap"] = "none" /\ result["user"] = "none"
        /\ pc = "heap" => pc' = "user" /\ result["user"] = "none" /\ result["demo"] = "ok"
        /\ pc = "user" => pc' = "gdt" /\ result["heap"] = "ok" /\ result["demo"] = "ok"
    BY <1>0, <2>1, <2>2 DEF ResultInv, ReadyInOrder, Passed, After, Calls
  <2>4. /\ result' \in [Calls -> {"none", "ok", "err"}] /\ result'[pc] = "ok"
        /\ \A c \in Calls : c # pc => result'[c] = result[c]
    BY <1>0, <2>1, Zenon
  <2>5. ReadyInOrder'
    <3>1. CASE pc = "demo"
      BY <1>0, <2>1, <2>2, <2>3, <2>4, <3>1, Zenon DEF ResultInv, ReadyInOrder
    <3>2. CASE pc = "heap"
      BY <1>0, <2>1, <2>2, <2>3, <2>4, <3>2, Zenon DEF ResultInv, ReadyInOrder
    <3>3. CASE pc = "user"
      BY <1>0, <2>1, <2>2, <2>3, <2>4, <3>3 DEF ResultInv, ReadyInOrder
    <3> QED
      BY <2>1, <3>1, <3>2, <3>3, Zenon DEF Calls
  <2>6. \A c \in Calls : ~ Passed(c, pc') => result'[c] = "none"
    BY <1>0, <2>1, <2>3, <2>4, Zenon DEF Passed, Calls
  <2>7. /\ pc' \in {"heap", "user"} => result'["demo"] # "none"
        /\ pc' = "user" => result'["heap"] # "none"
    BY <1>0, <2>1, <2>3, <2>4, Zenon DEF Calls
  <2>8. \A c \in Calls : result'[c] = "err" => ~ Left'
    BY <1>0, <1>1, <2>4, Zenon DEF ResultInv
  <2>9. heap' \in BOOLEAN /\ context' \in BOOLEAN
    BY <2>1, Zenon
  <2> QED
    BY <2>1, <2>4, <2>5, <2>6, <2>7, <2>8, <2>9 DEF ResultInv
<1>7. CASE Later
  <2>1. UNCHANGED outcome /\ pc' \in Late
    BY <1>7, Zenon DEF Later
  <2>2. pc' \notin {"heap", "user"} /\ \A c \in Calls : Passed(c, pc')
    BY <2>1, Zenon DEF Late, Calls, Passed, Settled
  <2> QED
    BY <1>0, <1>1, <2>1, <2>2, Zenon DEF ResultInv, ReadyInOrder, outcome
<1> QED
  BY <1>2, <1>3, <1>4, <1>5, <1>6, <1>7, Zenon DEF Move

\* Pages are given in the order of the calls.
LEMMA NextGiven ==
  ASSUME IInv, Move
  PROVE  GivenInv'
<1> DEFINE In(c, i) == c \in Calls /\ i \in DOMAIN Pages[c]
<1>0. /\ DOMAIN given \subseteq Areas /\ \A p \in DOMAIN given : given[p] \in Nat
      /\ \A c, i : In(c, i) /\ Pages[c][i] \in DOMAIN given => Passed(c, pc) \/ (c = pc /\ i < page)
      /\ \A c, i : In(c, i) /\ (result[c] = "ok" \/ (c = pc /\ i < page)) => Pages[c][i] \in DOMAIN given
  BY Zenon DEF IInv, GivenInv
<1>a. \A c, i : In(c, i) => i \in Nat \ {0}
  BY OnePlace
<1>2. CASE first_frames
  <2>1. /\ given' = given /\ result' = result /\ pc = "first_frames"
        /\ pc' \in Calls => page' = 1
    BY <1>2 DEF first_frames, outcome, Calls, IInv, PlaceInv
  <2>2. \A c \in Calls : ~ Passed(c, pc) /\ c # pc
    BY <2>1, Zenon DEF Passed, Calls
  <2> QED
    BY <1>0, <1>a, <2>1, <2>2 DEF GivenInv
<1>3. CASE Begin \/ Follow \/ Grow
  <2>1. given' = given /\ result' = result /\ pc' = pc /\ page' = page
    BY <1>3, Zenon DEF Begin, Follow, Grow, outcome
  <2> QED
    BY <1>0, <2>1, Zenon DEF GivenInv
<1>4. CASE set_page
  <2>1. /\ given' = Put(given, Goal, job.frame) /\ result' = result /\ pc' = pc /\ page' = page + 1
        /\ job # None
    BY <1>4, Zenon DEF set_page, Goal, outcome
  <2>2. In(pc, page) /\ job.frame \in Nat /\ page \in Nat
    BY <2>1, Zenon DEF IInv, PlaceInv
  <2>3. Goal \in Areas
    BY <2>2, OnePlace, Zenon DEF Goal
  <2>4. /\ DOMAIN given' = DOMAIN given \cup {Goal} /\ given'[Goal] = job.frame
        /\ \A p \in DOMAIN given : p # Goal => given'[p] = given[p]
    BY <2>1, Zenon DEF Put
  <2>5. DOMAIN given' \subseteq Areas /\ \A p \in DOMAIN given' : given'[p] \in Nat
    BY <1>0, <2>2, <2>3, <2>4, Zenon
  <2>6. ASSUME NEW c, NEW i, In(c, i), Pages[c][i] \in DOMAIN given'
        PROVE  Passed(c, pc) \/ (c = pc /\ i < page + 1)
    <3>1. CASE Pages[c][i] \in DOMAIN given
      BY <1>0, <1>a, <2>2, <2>6, <3>1
    <3>2. CASE Pages[c][i] = Goal
      <4>1. Agree(Pages[c][i], Pages[pc][page], 4)
        BY <3>2, Zenon DEF Goal, Agree
      <4>2. c = pc /\ i = page
        BY <2>2, <2>6, <4>1, OnePlace, Zenon
      <4> QED
        BY <2>2, <4>2
    <3> QED
      BY <2>4, <2>6, <3>1, <3>2, Zenon
  <2>7. ASSUME NEW c, NEW i, In(c, i), result[c] = "ok" \/ (c = pc /\ i < page + 1)
        PROVE  Pages[c][i] \in DOMAIN given'
    <3>1. CASE result[c] = "ok" \/ (c = pc /\ i < page)
      BY <1>0, <2>4, <2>7, <3>1, Zenon
    <3>2. CASE c = pc /\ i = page
      BY <2>4, <3>2, Zenon DEF Goal
    <3> QED
      BY <1>a, <2>2, <2>7, <3>1, <3>2
  <2> QED
    BY <2>1, <2>5, <2>6, <2>7, Zenon DEF GivenInv
<1>5. CASE RunOut \/ Finish
  <2>1. /\ pc \in Calls /\ given' = given /\ page' = 1 /\ pc' = After[pc]
        /\ \E r : result' = [result EXCEPT ![pc] = r]
        /\ result'[pc] = "ok" => page > Len(Pages[pc])
    <3>1. result \in [Calls -> {"none", "ok", "err"}]
      BY Zenon DEF IInv, ResultInv
    <3> QED
      BY <1>5, <3>1, Zenon DEF RunOut, Finish, Return
  <2>2. \A c \in Calls : Passed(c, pc) \/ c = pc => Passed(c, pc')
    BY <2>1 DEF Passed, After, Calls
  <2>3. \A c \in Calls : c # pc => result'[c] = result[c]
    BY <2>1, Zenon DEF IInv, ResultInv
  <2>4. ASSUME NEW c, NEW i, In(c, i), result'[c] = "ok" PROVE Pages[c][i] \in DOMAIN given
    <3>1. CASE c = pc
      BY <2>1, <2>4, <3>1, AllGiven, Zenon
    <3>2. CASE c # pc
      BY <1>0, <2>3, <2>4, <3>2, Zenon
    <3> QED
      BY <3>1, <3>2, Zenon
  <2>5. ASSUME NEW c, NEW i, In(c, i), Pages[c][i] \in DOMAIN given PROVE Passed(c, pc')
    BY <1>0, <2>2, <2>5, Zenon
  <2>6. \A c, i : In(c, i) => ~ (i < page')
    BY <1>a, <2>1
  <2> QED
    BY <1>0, <2>1, <2>4, <2>5, <2>6, Zenon DEF GivenInv
<1>6. CASE Later
  <2>1. given' = given /\ result' = result /\ pc' \in Late
    BY <1>6, Zenon DEF Later, outcome
  <2>2. \A c \in Calls : Passed(c, pc') /\ c # pc'
    BY <2>1, Zenon DEF Late, Calls, Passed, Settled
  <2> QED
    BY <1>0, <2>1, <2>2, Zenon DEF GivenInv
<1> QED
  BY <1>2, <1>3, <1>4, <1>5, <1>6, Zenon DEF Move

\* The fast syscall set-up ends with the registers written, or without SCE.
LEMMA NextSyscall ==
  ASSUME IInv, Next
  PROVE  SyscallLiveOnlyWhenProgrammed'
<1> DEFINE Up == Settled \cup {"interrupts", "wait"}
<1>0. SyscallLiveOnlyWhenProgrammed
  BY Zenon DEF IInv
<1>1. CASE init_fast_syscall_scaffold
  <2>1. PICK c \in CPU :
          /\ cpu' = c /\ pc' = "interrupts"
          /\ LET sce == c.sce_before \/ (c.syscall /\ c.sce_sticks)
             IN /\ msr' = [star |-> c.syscall, lstar |-> c.syscall, gs |-> c.syscall, sce |-> sce]
                /\ stage' = IF ~ c.syscall THEN "UnsupportedCpu"
                            ELSE IF sce THEN "SceEnabledExperimental" ELSE "MsrProgrammedNoSce"
    <3>1. cpu' \in CPU /\ cpu'.syscall \in BOOLEAN
      BY <1>1, Zenon DEF init_fast_syscall_scaffold, CPU
    <3> QED
      BY <1>1, <3>1, StarAccepts, Zenon DEF init_fast_syscall_scaffold
  <2>2. c.syscall \in BOOLEAN /\ c.sce_before \in BOOLEAN /\ c.sce_sticks \in BOOLEAN
    BY Zenon DEF CPU
  <2>3. c.sce_before => c.syscall
    BY Zenon DEF CPU
  <2> QED
    BY <2>1, <2>2, <2>3, Zenon DEF SyscallLiveOnlyWhenProgrammed
<1>2. CASE ~ init_fast_syscall_scaffold
  <2>1. UNCHANGED fast /\ (pc' \in Up => pc \in Up)
    <3>1. CASE first_frames \/ Begin \/ Follow \/ Grow \/ set_page \/ RunOut \/ Finish
      <4>1. UNCHANGED fast
        BY <3>1, Zenon DEF first_frames, Begin, Follow, Grow, set_page, RunOut, Finish
      <4>2. pc' \in {"first_frames", "demo", "heap", "user", "gdt"}
        <5>1. job # None => pc \in Calls
          BY Zenon DEF IInv, PlaceInv
        <5> QED
          BY <3>1, <5>1
          DEF first_frames, Begin, Follow, Grow, set_page, RunOut, Finish, Return, After, Calls
      <4> QED
        BY <4>1, <4>2, Zenon DEF Settled
    <3>2. CASE gdt_init
      BY <3>2, Zenon DEF gdt_init, Settled
    <3>3. CASE interrupts_init
      BY <3>3, Zenon DEF interrupts_init
    <3>4. CASE wait_for_ticks
      BY <3>4, Zenon DEF wait_for_ticks
    <3>5. CASE Tick \/ heap_command \/ vm_command \/ run_demo_code
      BY <3>5, Zenon DEF Tick, heap_command, vm_command, run_demo_code, Settled
    <3> QED
      BY <1>2, <3>1, <3>2, <3>3, <3>4, <3>5, MapPage, CreateNextTable, Finishes DEF Next, Step
  <2> QED
    BY <1>0, <2>1, Zenon DEF SyscallLiveOnlyWhenProgrammed, fast
<1> QED
  BY <1>1, <1>2, Zenon

\* No step writes over a table or a page.
LEMMA NextTables ==
  ASSUME IInv, Move
  PROVE  TablesInv'
<1>0. PICK tab \in Way :
        /\ Tables(tab, entry, given) /\ Unused(tab, entry, frames, next)
        /\ job # None => job.table = tab[Pages[pc][page]][job.level] /\ job.table # -1
  BY Zenon DEF IInv, TablesInv, Tables
<1>1. frames' = frames
  BY Zenon DEF Move, first_frames, Begin, Follow, Grow, set_page, RunOut, Finish, Later, machine
<1>2. Unused(tab, entry, frames, next')
  <2>1. frames \in Seq(Nat) /\ next \in Nat
    BY FramesAscend, Zenon DEF IInv, FramesInv
  <2>2. next' = next \/ next' = next + 1
    BY NextFrames, Zenon
  <2> QED
    BY <1>0, <2>1, <2>2, StillUnused, Zenon
<1>3. ASSUME entry' = entry, given' = given,
             job' # None => job'.table = tab[Pages[pc'][page']][job'.level] /\ job'.table # -1
      PROVE  TablesInv'
  BY <1>0, <1>1, <1>2, <1>3, Zenon DEF TablesInv, Tables
<1>4. CASE first_frames
  <2>1. job' = None /\ entry' = entry /\ given' = given
    BY <1>4, Zenon DEF first_frames, IInv, PlaceInv, Calls
  <2> QED
    BY <1>3, <2>1, Zenon
<1>5. CASE Begin
  <2>1. entry' = entry /\ given' = given /\ pc' = pc /\ page' = page /\ Goal \in Areas
    BY <1>5, OnePlace, Zenon DEF Begin, Goal
  <2>2. job'.table = CR3 /\ job'.level = 1 /\ CR3 # -1
    BY <1>5, MemoryAssumption DEF Begin
  <2>3. tab[Goal][1] = CR3
    BY <1>0, <2>1, Zenon DEF Tables, Linked
  <2> QED
    BY <1>3, <2>1, <2>2, <2>3, Zenon DEF Goal
<1>6. ASSUME job # None
      PROVE  /\ OnTheWay(tab) /\ pc \in Calls /\ page \in DOMAIN Pages[pc]
             /\ job \in [frame : Nat, level : 1..4, table : Nat]
  BY <1>0, <1>6, SlotOnTheWay, Zenon DEF IInv, PlaceInv
<1>7. CASE Follow
  <2>1. /\ entry' = entry /\ given' = given /\ pc' = pc /\ page' = page
        /\ job # None /\ job.level < 4 /\ Slot \in DOMAIN entry
        /\ job' = [job EXCEPT !.level = @ + 1, !.table = entry[Slot].frame]
    BY <1>7, Zenon DEF Follow
  <2>2. job'.level = job.level + 1 /\ job'.table = entry[Slot].frame /\ job.level \in 1..3
    BY <1>6, <2>1
  <2> DEFINE l == job.level
             p == Goal
  <2>3. /\ Slot = <<tab[p][l], p[l]>> /\ tab[p][l] # -1 /\ p \in Areas /\ l \in 1..3
    BY <1>6, <2>1, <2>2, Zenon DEF OnTheWay
  <2> HIDE DEF l, p
  <2>4. tab[p][l + 1] # -1 /\ entry[Slot] = [kind |-> "table", frame |-> tab[p][l + 1]]
    <3>1. Linked(tab, entry) /\ <<tab[p][l], p[l]>> \in DOMAIN entry
      BY <1>0, <2>1, <2>3, Zenon DEF Tables
    <3>2. tab[p][l + 1] # -1 /\ entry[<<tab[p][l], p[l]>>] = [kind |-> "table", frame |-> tab[p][l + 1]]
      BY <2>3, <3>1, Zenon DEF Linked
    <3> QED
      BY <2>3, <3>2, Zenon
  <2>5. job'.table = tab[p][l + 1]
    <3>1. entry[Slot].frame = tab[p][l + 1]
      BY <2>4
    <3> QED
      BY <2>2, <3>1, Zenon
  <2>6. job'.table = tab[Pages[pc'][page']][job'.level] /\ job'.table # -1
    BY <2>1, <2>2, <2>4, <2>5, Zenon DEF l, p, Goal
  <2> QED
    BY <1>3, <2>1, <2>6, Zenon
<1>8. CASE Grow
  <2>1. /\ given' = given /\ pc' = pc /\ page' = page /\ next' = next + 1
        /\ job # None /\ job.level < 4 /\ Slot \notin DOMAIN entry /\ next < Len(frames)
        /\ entry' = Put(Zeroed(entry, NextFrame), Slot, [kind |-> "table", frame |-> NextFrame])
        /\ job' = [job EXCEPT !.level = @ + 1, !.table = NextFrame]
    BY <1>8, Zenon DEF Grow, allocate_frame, Left
  <2>2. job'.level = job.level + 1 /\ job'.table = NextFrame /\ job.level \in 1..3
    BY <1>6, <2>1
  <2> DEFINE l == job.level
             p == Goal
             T == Grown(tab, p, l, NextFrame)
  <2>3. /\ Slot = <<tab[p][l], p[l]>> /\ tab[p][l] # -1 /\ p \in Areas /\ l \in 1..3
    BY <1>6, <2>1, <2>2, Zenon DEF OnTheWay
  <2>4. entry' = WithTable(entry, tab, p, l, NextFrame)
    BY <2>1, <2>3, Zenon DEF WithTable
  <2> HIDE DEF l, p
  <2>5. frames \in Seq(Nat) /\ next \in Nat /\ Ascends(frames)
    BY FramesAscend, Zenon DEF IInv, FramesInv
  <2>6. /\ Tables(T, entry', given) /\ Unused(T, entry', frames, next + 1)
        /\ T[p][l + 1] = NextFrame /\ NextFrame # -1
    <3>1. CanGrow(tab, entry, given, p, l, frames, next)
      BY <1>0, <2>1, <2>3, <2>5, Zenon DEF CanGrow
    <3>2. HasGrown(T, entry', given, p, l, frames, next)
      BY <2>3, <2>4, <3>1, TableUnused, Zenon DEF NextFrame
    <3> HIDE DEF T
    <3> QED
      BY <3>2, Zenon DEF HasGrown, NextFrame
  <2> HIDE DEF T
  <2>7. job'.table = T[Pages[pc'][page']][job'.level] /\ job'.table # -1
    BY <2>1, <2>2, <2>6, Zenon DEF l, p, Goal
  <2> QED
    BY <1>1, <2>1, <2>6, <2>7, Zenon DEF TablesInv, Tables
<1>9. CASE set_page
  <2>1. /\ job # None /\ job.level = 4 /\ job' = None /\ next' = next
        /\ entry' = Put(entry, Slot, [kind |-> "page", frame |-> job.frame])
        /\ given' = Put(given, Goal, job.frame)
    BY <1>9, Zenon DEF set_page, Goal, allocator
  <2>2. /\ Slot = <<tab[Goal][4], Goal[4]>> /\ tab[Goal][4] # -1 /\ Goal \in Areas
    BY <1>6, <2>1, Zenon DEF OnTheWay
  <2>3. entry' = WithPage(entry, tab, Goal, job.frame)
    BY <2>1, <2>2, Zenon DEF WithPage
  <2>4. Goal \notin DOMAIN given
    BY <1>6, <2>1, GoalIsNew, Zenon
  <2>5. Tables(tab, entry', given') /\ Unused(tab, entry', frames, next)
    <3>1. Tables(tab, entry, given) /\ Unused(tab, entry, frames, next)
      BY <1>0, Zenon
    <3>2. /\ Tables(tab, WithPage(entry, tab, Goal, job.frame), Put(given, Goal, job.frame))
          /\ Unused(tab, WithPage(entry, tab, Goal, job.frame), frames, next)
      BY <2>2, <2>4, <3>1, PageAdded, Zenon
    <3> QED
      BY <2>1, <2>3, <3>2, Zenon
  <2> QED
    BY <1>1, <2>1, <2>5, Zenon DEF TablesInv, Tables
<1>10. CASE RunOut \/ Finish
  BY <1>3, <1>10, Zenon DEF RunOut, Finish, Return
<1>11. CASE Later
  <2>1. job' = None /\ entry' = entry /\ given' = given
    BY <1>11, Zenon DEF Later, IInv, PlaceInv, Late, Settled, Calls
  <2> QED
    BY <1>3, <2>1, Zenon
<1> QED
  BY <1>4, <1>5, <1>7, <1>8, <1>9, <1>10, <1>11, Zenon DEF Move

\* Every step keeps the invariant.
LEMMA NextIInv ==
  ASSUME IInv, [Next]_vars
  PROVE  IInv'
<1>1. CASE Next
  <2>1. Move
    BY <1>1, Moves, Zenon
  <2>2. FramesInv' /\ PlaceInv' /\ ResultInv'
    BY <1>1, <2>1, NextFrames, NextPlace, NextResult, Zenon
  <2>3. GivenInv' /\ TablesInv' /\ SyscallLiveOnlyWhenProgrammed'
    BY <1>1, <2>1, NextGiven, NextTables, NextSyscall, Zenon
  <2> QED
    BY <2>2, <2>3, Zenon DEF IInv
<1>2. CASE UNCHANGED vars
  <2>1. /\ UNCHANGED <<regions, frames, offset, pc, page, job, next, taken, entry, given>>
        /\ UNCHANGED <<result, heap, context, cpu, msr, stage, ticks, spins>>
    BY <1>2, Zenon DEF vars, machine, allocator, outcome, fast, timer
  <2>2. FramesInv' /\ PlaceInv'
    BY <2>1, Zenon DEF IInv, FramesInv, PlaceInv
  <2>3. ResultInv' /\ GivenInv'
    BY <2>1, Zenon DEF IInv, ResultInv, GivenInv, ReadyInOrder, Left
  <2>4. TablesInv'
    BY <2>1, Zenon DEF IInv, TablesInv
  <2>5. SyscallLiveOnlyWhenProgrammed'
    BY <2>1, Zenon DEF IInv, SyscallLiveOnlyWhenProgrammed
  <2> QED
    BY <2>2, <2>3, <2>4, <2>5, Zenon DEF IInv
<1> QED
  BY <1>1, <1>2, Zenon

-----------------------------------------------------------------------------
(* What boot keeps. *)

\* The inductive invariant holds throughout kernel_main and the monitor.
THEOREM Invariance == Spec => []IInv
<1>1. Init => IInv
  BY InitIInv, Zenon
<1>2. IInv /\ [Next]_vars => IInv'
  BY NextIInv, Zenon
<1> QED
  BY <1>1, <1>2, PTL DEF Spec

\* What the invariant says of the frames.
LEMMA Accounted ==
  ASSUME IInv
  PROVE  FramesAreAccountedFor
<1>1. /\ regions \in Regions /\ frames = usable_frames(regions) /\ next \in Nat /\ taken \in Seq(Nat)
      /\ Len(taken) = IF next < Len(frames) THEN next ELSE Len(frames)
      /\ \A i \in DOMAIN taken : taken[i] = frames[i]
  BY Zenon DEF IInv, FramesInv
<1>2. PICK b : Counted(regions, Len(regions), frames, b)
  BY <1>1, UsableFrames, Zenon
<1>3. /\ frames \in Seq(Nat) /\ Len(frames) \in Nat /\ Len(taken) \in Nat
      /\ DOMAIN taken \subseteq DOMAIN frames
      /\ \A i, j \in DOMAIN frames : i < j => frames[i] < frames[j]
      /\ \A i \in DOMAIN frames : \E j \in 1..Len(regions) : Within(regions[j], frames[i])
  BY <1>1, <1>2 DEF Counted
<1>4. TypeOK
  <2>1. PlaceInv /\ DOMAIN given \subseteq Areas
    BY Zenon DEF IInv, GivenInv
  <2>2. job # None => pc \in DOMAIN Pages /\ page \in DOMAIN Pages[pc]
    BY <2>1, PageLists, Zenon DEF PlaceInv
  <2>3. pc \in InBoot \cup Settled \cup {"reset"}
    BY <2>1, Zenon DEF PlaceInv
  <2>4. ticks \in 0..TICK_TARGET /\ spins \in 0..MAX_SPINS
    BY <2>1, Zenon DEF PlaceInv
  <2>5. Len(taken) <= Len(frames)
    BY <1>1, <1>3
  <2> QED
    BY <1>1, <2>1, <2>2, <2>3, <2>4, <2>5, Zenon DEF TypeOK
<1>5. ASSUME NEW i \in DOMAIN taken, NEW j \in DOMAIN taken, taken[i] = taken[j] PROVE i = j
  <2>1. i \in Nat /\ j \in Nat /\ frames[i] = frames[j] /\ frames[i] \in Nat
    BY <1>1, <1>3, <1>5
  <2> QED
    BY <1>3, <2>1
<1>6. ASSUME NEW i \in DOMAIN taken
      PROVE  \E j \in DOMAIN regions : Within(regions[j], taken[i])
  <2>1. DOMAIN regions = 1..Len(regions)
    BY <1>1, RegionsAssumption
  <2> QED
    BY <1>1, <1>3, <2>1, Zenon
<1>7. FramesAreFreshAndUsable
  BY <1>5, <1>6, Zenon DEF FramesAreFreshAndUsable, Within, usable
<1>8. Len(frames) <= summarize_memory(regions).usable_frames_4k
  BY <1>1, UsableFrames, Zenon
<1>9. CountsAddUp
  BY <1>1, <1>3, <1>8 DEF CountsAddUp, remaining_usable_frames_estimate, saturating_sub
<1> QED
  BY <1>4, <1>7, <1>9, Zenon DEF FramesAreAccountedFor

\* BootInfoFrameAllocator hands out every frame at most once, only frames wholly in
\* usable memory above the first megabyte, and the counts kernel_main prints are
\* right, for every memory map the bootloader may report.
THEOREM FramesAccountedFor == Spec => []FramesAreAccountedFor
<1>1. IInv => FramesAreAccountedFor
  BY Accounted, Zenon
<1> QED
  BY <1>1, Invariance, PTL

\* walk_virtual_address finds what the three calls that map have mapped, nothing at
\* their other pages, and physical memory where the bootloader mapped it, after
\* every step of map_to, and whether or not the frames run out in the middle of one.
THEOREM WalksFindTheMappings == Spec => []WalkFindsWhatWasMapped
<1>1. ASSUME IInv PROVE WalkFindsWhatWasMapped
  <2>1. PICK tab \in Way : Linked(tab, entry) /\ Leaves(tab, entry, given)
    BY <1>1, Zenon DEF IInv, TablesInv
  <2>2. CR3 # -1
    BY MemoryAssumption
  <2>3. ASSUME NEW p \in Areas, NEW o \in 0..PAGE_SIZE - 1
        PROVE  walk_virtual_address(entry, Address(p, o, TRUE)) =
                 IF p \in DOMAIN given THEN [kind |-> "4KiB", phys |-> given[p] * PAGE_SIZE + o]
                                       ELSE Unmapped
    BY <2>1, <2>2, WalkOfArea, Zenon
  <2>4. Kept(entry)
    BY <1>1, Zenon DEF IInv, TablesInv
  <2>5. ASSUME NEW i3 \in {0, 1}, NEW i2 \in Index, NEW i1 \in Index, NEW o \in 0..PAGE_SIZE - 1
        PROVE  PhysicalWalk(entry, i3, i2, i1, o)
    BY <2>4, <2>5, WalkOfPhysical, Zenon
  <2> QED
    BY <2>3, <2>5, ZenonT(60) DEF WalkFindsWhatWasMapped, PhysicalWalk
<1> QED
  BY <1>1, Invariance, PTL

\* Boot, the heap probe and the launch of ring 3 code write only to mapped pages, so
\* that no fault resets the machine.
THEOREM NoReset == Spec => []NeverResets
<1>1. IInv => NeverResets
  BY Zenon DEF IInv, PlaceInv, InBoot, Settled, NeverResets
<1> QED
  BY <1>1, Invariance, PTL

\* What kernel_main reports ready is ready: the heap and ring 3 in the order of the
\* calls that map, and syscall only with its registers written.
THEOREM ReadyIsReady == Spec => []ReadyMeansReady
<1>1. IInv => ReadyMeansReady
  BY Zenon DEF IInv, ResultInv, ReadyMeansReady
<1> QED
  BY <1>1, Invariance, PTL

===============================================================================
