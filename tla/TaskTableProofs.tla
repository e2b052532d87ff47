--------------------------- MODULE TaskTableProofs ---------------------------
(***************************************************************************)
(* Proofs about the scheduler table, for every size of the table and every *)
(* width of its counters.                                                  *)
(***************************************************************************)
EXTENDS Monitor, WellFoundedInduction, TLAPS

USE SMTT(90)

\* The empty set has no elements to count, from the definition of Cardinality.
LEMMA NoneCounted == Cardinality({}) = 0
<1> DEFINE F(cs) == [T \in SUBSET {} |-> IF T = {} THEN 0 ELSE 1 + cs[T \ {CHOOSE x : x \in T}]]
           zero == [T \in SUBSET {} |-> 0]
           CS == CHOOSE cs : cs = F(cs)
<1>1. zero = F(zero)
  BY Zenon
<1>2. CS = F(CS)
  BY <1>1, Zenon
<1>3. F(CS)[{}] = 0
  BY Zenon
<1>4. CS[{}] = 0
  BY <1>2, <1>3, Zenon
<1> QED
  BY <1>4, Zenon DEF Cardinality

-----------------------------------------------------------------------------
(* Facts about the constants and the helpers. *)

\* Slot 0, where init puts the bootstrap task, is a slot.
LEMMA ZeroIsSlot == 0 \in Slots
BY TableAssumption DEF Slots

\* The bounds are within the width of the counters they bound.
LEMMA Widths ==
  /\ 0 .. TickHorizon \subseteq Nat /\ SleepArgs \subseteq Nat /\ U64_MAX \in Nat
  /\ Ids \subseteq 1 .. U64_MAX
  /\ IdHorizon \in Nat /\ 2 <= IdHorizon /\ IdHorizon <= U64_MAX
BY HorizonAssumption DEF Ids

\* A saturating sum stays in its width, and lies after its first operand unless
\* that one is at the limit already.
LEMMA SaturatingInWidth ==
  ASSUME NEW a \in Nat, NEW b \in Nat, NEW max \in Nat
  PROVE  /\ saturating_add(a, b, max) \in 0 .. max
         /\ a < max /\ b > 0 => saturating_add(a, b, max) > a
BY DEF saturating_add

\* A loop over the table that looks for a slot stops at one of those it looks
\* for: First is well defined on every non-empty set of slots.
LEMMA FirstMember ==
  ASSUME NEW S \in SUBSET Slots, S # {}
  PROVE  First(S) \in S /\ \A j \in S : First(S) <= j
<1>1. S \subseteq Nat
  BY DEF Slots
<1>2. PICK i \in S : \A j \in S : ~ (<<j, i>> \in OpToRel(<, Nat))
  BY <1>1, NatLessThanWellFounded, WFMin, Zenon
<1>3. \A j \in S : i <= j
  <2>. SUFFICES ASSUME NEW j \in S, ~ (i <= j)
                PROVE  <<j, i>> \in OpToRel(<, Nat)
    BY <1>2, Zenon
  <2>1. j < i /\ <<j, i>> \in Nat \X Nat
    BY <1>1
  <2>. QED
    BY <2>1, Zenon DEF OpToRel
<1>. QED
  BY <1>3, Zenon DEF First

\* What holds of every task between two calls.
Settled(task) ==
  /\ task \in TaskInfo
  /\ task.state # "Running"
  /\ task.state = "Sleeping" <=> task.sleep_until_tick # None

SettledTable(table) ==
  /\ table \in [Slots -> TaskInfo \cup {None}]
  /\ \A i \in Slots : table[i] # None => Settled(table[i])

\* Two tables with the same tasks in the same slots.
SameTasks(t1, t2) ==
  \A i \in Slots :
    IF t1[i] = None THEN t2[i] = None
    ELSE t2[i] # None /\ t2[i].id = t1[i].id /\ t2[i].kind = t1[i].kind

\* wake_due keeps every task in its slot and leaves the table settled.
LEMMA WakeDueSettled ==
  ASSUME NEW table, SettledTable(table), NEW now \in Nat
  PROVE  /\ SettledTable(wake_due(table, now))
         /\ SameTasks(table, wake_due(table, now))
<1>1. \A t \in TaskInfo : /\ Awake(t) \in TaskInfo
                          /\ Awake(t).state = "Ready"
                          /\ Awake(t).sleep_until_tick = None
                          /\ Awake(t).id = t.id
                          /\ Awake(t).kind = t.kind
  BY Zenon DEF Awake, TaskInfo, TaskState
<1>2. \A t \in TaskInfo : Awake(t) # None /\ Settled(Awake(t))
  BY <1>1, NoneAssumption, Zenon DEF Settled
<1>3. \A i \in Slots : Due(table[i], now) => table[i] \in TaskInfo
  BY Zenon DEF Due, SettledTable
<1>4. ASSUME NEW i \in Slots
      PROVE  LET w == wake_due(table, now)[i]
             IN  /\ w \in TaskInfo \cup {None}
                 /\ w # None => Settled(w)
                 /\ IF table[i] = None THEN w = None
                    ELSE w # None /\ w.id = table[i].id /\ w.kind = table[i].kind
  <2>1. CASE Due(table[i], now)
    <3>1. wake_due(table, now)[i] = Awake(table[i]) /\ table[i] # None
      BY <2>1, Zenon DEF wake_due, Due
    <3>. QED
      BY <1>1, <1>2, <1>3, <2>1, <3>1, Zenon
  <2>2. CASE ~ Due(table[i], now)
    <3>1. wake_due(table, now)[i] = table[i]
      BY <2>2, Zenon DEF wake_due
    <3>. QED
      BY <3>1, Zenon DEF SettledTable
  <2>. QED
    BY <2>1, <2>2, Zenon
<1>5. wake_due(table, now) = [i \in Slots |-> wake_due(table, now)[i]]
  BY Zenon DEF wake_due
<1>6. wake_due(table, now) \in [Slots -> TaskInfo \cup {None}]
  BY <1>4, <1>5, Zenon
<1>. QED
  BY <1>4, <1>6, Zenon DEF SettledTable, SameTasks

\* The inductive invariant.  With ids below next_id a new task shares none, and
\* with id 1 in slot 0 no other id is found there.  Between calls the tasks are
\* settled, so a lookup fails only because the id is not in the table.
IInv ==
  /\ TypeOK
  /\ UniqueIds
  /\ BootstrapStays
  /\ SettledTable(slots)
  /\ result.err # "task is running"

\* Looking an id up in a settled table fails only because it is not there, and
\* otherwise finds a settled task of that id.
LEMMA FindSettled ==
  ASSUME IInv, NEW id \in Ids,
         NEW table, SettledTable(table), SameTasks(slots, table)
  PROVE  /\ LookupError(table, id) \in {None, "task not found"}
         /\ LookupError(table, id) = None =>
              /\ Find(table, id) \in Slots
              /\ table[Find(table, id)] # None
              /\ table[Find(table, id)].id = id
              /\ Settled(table[Find(table, id)])
<1>1. CASE Holding(table, id) = {}
  <2>1. "task not found" # None
    BY NoneAssumption, Zenon DEF Errors
  <2>2. LookupError(table, id) = "task not found"
    BY <1>1, Zenon DEF LookupError
  <2>. QED
    BY <2>1, <2>2, Zenon
<1>2. CASE Holding(table, id) # {}
  <2>1. Holding(table, id) \in SUBSET Slots
    BY Zenon DEF Holding
  <2>2. Find(table, id) \in Holding(table, id)
    BY <1>2, <2>1, FirstMember, Zenon DEF Find
  <2>3. /\ Find(table, id) \in Slots
        /\ table[Find(table, id)] # None
        /\ table[Find(table, id)].id = id
    BY <2>2, Zenon DEF Holding
  <2>4. Settled(table[Find(table, id)])
    BY <2>3, Zenon DEF SettledTable
  <2>. QED
    BY <1>2, <2>3, <2>4, Zenon DEF LookupError, Settled
<1>. QED
  BY <1>1, <1>2, Zenon

\* A sweep alone preserves the table's part of the invariant.
LEMMA SweepPreserves ==
  ASSUME IInv, NEW woken, woken = wake_due(slots, now_ticks)
  PROVE  /\ SettledTable(woken)
         /\ SameTasks(slots, woken)
         /\ \A i, j \in Slots :
              /\ woken[i] # None => woken[i].id < next_id
              /\ woken[i] # None /\ woken[j] # None /\ woken[i].id = woken[j].id
                   => i = j
         /\ woken[0] # None /\ woken[0].id = 1 /\ woken[0].kind = KernelMonitor
<1>1. now_ticks \in Nat
  BY Widths, Zenon DEF IInv, TypeOK
<1>2. SettledTable(woken) /\ SameTasks(slots, woken)
  BY <1>1, WakeDueSettled, Zenon DEF IInv
<1>. QED
  BY <1>2, ZeroIsSlot, ZenonT(60) DEF IInv, UniqueIds, BootstrapStays, SameTasks

\* sleep, wake, remove and set_priority preserve the invariant if what they
\* write is a settled task with the old id and kind, or, for an id other than
\* 1, an empty slot.
LEMMA EditPreserves ==
  ASSUME IInv, NEW call \in Calls, NEW id \in Ids,
         NEW refusal \in Errors \cup {None}, NEW contents,
         NEW woken, woken = wake_due(slots, now_ticks),
         refusal # "task is running",
         refusal = None =>
           /\ LookupError(woken, id) = None
           /\ \/ contents = None /\ id # 1
              \/ /\ contents # None /\ Settled(contents) /\ contents.id = id
                 /\ contents.kind = woken[Find(woken, id)].kind,
         Edit(call, id, refusal, contents)
  PROVE  IInv'
<1>1. /\ SettledTable(woken)
      /\ SameTasks(slots, woken)
      /\ \A i, j \in Slots :
           /\ woken[i] # None => woken[i].id < next_id
           /\ woken[i] # None /\ woken[j] # None /\ woken[i].id = woken[j].id
                => i = j
      /\ woken[0] # None /\ woken[0].id = 1 /\ woken[0].kind = KernelMonitor
  BY SweepPreserves, ZenonT(60)
<1>2. id \in 1 .. U64_MAX
  BY Widths, Zenon
<1>3. UNCHANGED <<next_id, next_rr_index, now_ticks>>
  BY Zenon DEF Edit
<1>4. "task is running" \in Errors
  BY Zenon DEF Errors
<1>5. CASE refusal # None
  <2>1. slots' = woken /\ result' = Err(call, refusal)
    BY <1>5, Zenon DEF Edit
  <2>2. TypeOK'
    BY <1>1, <1>3, <2>1, Zenon DEF IInv, TypeOK, SettledTable, Err
  <2>. QED
    BY <1>1, <1>3, <2>1, <2>2, Zenon DEF IInv, UniqueIds, BootstrapStays, Err
<1>6. CASE refusal = None
  <2>. DEFINE k == Find(woken, id)
  <2>1. slots' = [woken EXCEPT ![k] = contents] /\ result' = Ok(call, id)
    BY <1>6, Zenon DEF Edit
  <2>2. k \in Slots /\ woken[k] # None /\ woken[k].id = id
    BY <1>1, <1>6, FindSettled, Zenon
  <2>3. contents \in TaskInfo \cup {None}
    BY <1>6, Zenon DEF Settled
  <2>4. SettledTable(slots')
    BY <1>1, <1>6, <2>1, <2>2, <2>3, Zenon DEF SettledTable
  <2>5. /\ slots'[k] = contents
        /\ \A i \in Slots \ {k} : slots'[i] = woken[i]
    BY <1>1, <2>1, <2>2, Zenon DEF SettledTable
  <2>6. TypeOK'
    BY <1>2, <1>3, <2>1, <2>4, Zenon DEF IInv, TypeOK, SettledTable, Ok
  <2>7. UniqueIds'
    <3>1. \A i \in Slots :
            slots'[i] # None => woken[i] # None /\ slots'[i].id = woken[i].id
      BY <1>6, <2>2, <2>5, Zenon
    <3>. QED
      BY <1>1, <1>3, <3>1, ZenonT(60) DEF UniqueIds
  <2>8. BootstrapStays'
    BY <1>1, <1>6, <2>2, <2>5, ZeroIsSlot, Zenon DEF BootstrapStays
  <2>9. result'.err # "task is running"
    BY <1>4, <2>1, NoneAssumption, Zenon DEF Ok
  <2>. QED
    BY <2>4, <2>6, <2>7, <2>8, <2>9, Zenon DEF IInv
<1>. QED
  BY <1>5, <1>6, Zenon
-----------------------------------------------------------------------------
(* The invariant holds initially and every call preserves it. *)

\* A task is created settled.
LEMMA NewTaskSettled ==
  ASSUME NEW id \in 1 .. U64_MAX, NEW aKind \in TaskKind
  PROVE  /\ Settled(NewTask(id, aKind))
         /\ NewTask(id, aKind) # None
         /\ NewTask(id, aKind).id = id
         /\ NewTask(id, aKind).kind = aKind
<1>1. NewTask(id, aKind) \in TaskInfo
  BY TableAssumption, HorizonAssumption DEF NewTask, TaskInfo, TaskState
<1>2. NewTask(id, aKind) # None
  BY <1>1, NoneAssumption, Zenon
<1>. QED
  BY <1>1, <1>2, Zenon DEF NewTask, Settled

\* The table after init() satisfies the invariant.
LEMMA InitIInv == Init => IInv
<1>. SUFFICES ASSUME Init PROVE IInv
  BY Zenon
<1>1. 1 \in 1 .. U64_MAX /\ KernelMonitor \in TaskKind
  BY TableAssumption, HorizonAssumption
<1>. DEFINE bootstrap == NewTask(1, KernelMonitor)
<1>2. /\ Settled(bootstrap) /\ bootstrap # None /\ bootstrap.id = 1
      /\ bootstrap.kind = KernelMonitor /\ bootstrap \in TaskInfo
  BY <1>1, NewTaskSettled DEF Settled
<1>. HIDE DEF bootstrap
<1>3. /\ slots = [i \in Slots |-> IF i = 0 THEN bootstrap ELSE None]
      /\ next_id = 2 /\ next_rr_index = 0 /\ now_ticks = 0
      /\ result = Ok("ticks", None)
  BY Zenon DEF Init, bootstrap
<1>4. SettledTable(slots) /\ UniqueIds /\ BootstrapStays
  BY <1>2, <1>3, ZeroIsSlot DEF SettledTable, UniqueIds, BootstrapStays
<1>5. TypeOK
  <2>1. next_id \in 1 .. IdHorizon /\ now_ticks \in 0 .. TickHorizon
    BY <1>3, HorizonAssumption
  <2>2. result \in [call : Calls, id : (1 .. U64_MAX) \cup {None},
                    err : Errors \cup {None}]
    BY <1>3, Zenon DEF Ok, Calls
  <2>. QED
    BY <1>3, <1>4, <2>1, <2>2, ZeroIsSlot, Zenon DEF TypeOK, SettledTable
<1>6. result.err # "task is running"
  BY <1>3, NoneAssumption, Zenon DEF Ok, Errors
<1>. QED
  BY <1>4, <1>5, <1>6, Zenon DEF IInv

\* spawn fills a slot that was empty with an id that no task has.
LEMMA SpawnIInv ==
  ASSUME IInv, NEW aKind \in TaskKind, spawn(aKind)
  PROVE  IInv'
<1>. DEFINE free == {i \in Slots : slots[i] = None}
<1>1. CASE free = {}
  <2>1. /\ UNCHANGED <<slots, next_id, next_rr_index, now_ticks>>
        /\ result' = Err("spawn", "task table full")
    BY <1>1, Zenon DEF spawn
  <2>2. result' \in [call : Calls, id : (1 .. U64_MAX) \cup {None},
                     err : Errors \cup {None}]
    BY <2>1, Zenon DEF Err, Calls, Errors
  <2>3. result'.err # "task is running"
    BY <2>1, Zenon DEF Err
  <2>. QED
    BY <2>1, <2>2, <2>3, Zenon DEF IInv, TypeOK, UniqueIds, BootstrapStays
<1>2. CASE free # {}
  <2>. DEFINE k == First(free)
              new == NewTask(next_id, aKind)
  <2>1. k \in Slots /\ slots[k] = None
    <3>1. free \in SUBSET Slots
      BY Zenon
    <3>2. k \in free
      BY <1>2, <3>1, FirstMember, Zenon
    <3>. QED
      BY <3>2, Zenon
  <2>2. /\ next_id < IdHorizon
        /\ slots' = [slots EXCEPT ![k] = new]
        /\ next_id' = saturating_add(next_id, 1, U64_MAX)
        /\ result' = Ok("spawn", next_id)
        /\ UNCHANGED <<next_rr_index, now_ticks>>
    BY <1>2, Zenon DEF spawn
  <2>3. next_id \in 1 .. IdHorizon
    BY Zenon DEF IInv, TypeOK
  <2>4. next_id \in 1 .. U64_MAX /\ next_id' = next_id + 1
    BY <2>2, <2>3, Widths, HorizonAssumption DEF saturating_add
  <2>5. Settled(new) /\ new # None /\ new.id = next_id
    BY <2>4, NewTaskSettled, Zenon
  <2>. HIDE DEF k, new
  <2>6. slots \in [Slots -> TaskInfo \cup {None}]
    BY Zenon DEF IInv, TypeOK
  <2>7. slots'[k] = new /\ \A i \in Slots \ {k} : slots'[i] = slots[i]
    BY <2>1, <2>2, <2>6, Zenon
  <2>8. SettledTable(slots')
    BY <2>1, <2>2, <2>5, <2>6, <2>7, Zenon DEF IInv, SettledTable, Settled
  <2>9. UniqueIds'
    <3>1. \A i \in Slots : slots[i] # None => slots[i].id < next_id
      BY Zenon DEF IInv, UniqueIds
    <3>2. \A i \in Slots : slots[i] # None => slots[i].id \in Nat
      BY <2>6 DEF TaskInfo
    <3>3. next_id \in Nat
      BY <2>3
    <3>4. \A i \in Slots : slots'[i] # None => slots'[i].id < next_id'
      BY <2>4, <2>5, <2>7, <3>1, <3>2, <3>3
    <3>5. \A i, j \in Slots :
            slots'[i] # None /\ slots'[j] # None /\ slots'[i].id = slots'[j].id
              => i = j
      <4>. SUFFICES ASSUME NEW i \in Slots, NEW j \in Slots,
                           slots'[i] # None, slots'[j] # None,
                           slots'[i].id = slots'[j].id, i # j
                    PROVE  FALSE
        BY Zenon
      <4>1. CASE i # k /\ j # k
        BY <2>7, <4>1, Zenon DEF IInv, UniqueIds
      <4>2. CASE i = k
        BY <2>5, <2>7, <3>1, <3>2, <3>3, <4>2
      <4>3. CASE j = k
        BY <2>5, <2>7, <3>1, <3>2, <3>3, <4>3
      <4>. QED
        BY <4>1, <4>2, <4>3, Zenon
    <3>. QED
      BY <3>4, <3>5, Zenon DEF UniqueIds
  <2>10. BootstrapStays'
    BY <2>1, <2>7, ZeroIsSlot, Zenon DEF IInv, BootstrapStays
  <2>11. result' \in [call : Calls, id : (1 .. U64_MAX) \cup {None},
                      err : Errors \cup {None}]
    BY <2>2, <2>4, Zenon DEF Ok, Calls
  <2>12. result'.err # "task is running"
    BY <2>2, NoneAssumption, Zenon DEF Ok, Errors
  <2>13. next_id' \in 1 .. IdHorizon
    BY <2>2, <2>3, <2>4, Widths
  <2>14. TypeOK'
    BY <2>2, <2>8, <2>11, <2>13, Zenon DEF IInv, TypeOK, SettledTable
  <2>. QED
    BY <2>8, <2>9, <2>10, <2>12, <2>14, Zenon DEF IInv
<1>. QED
  BY <1>1, <1>2, Zenon
\* A step sweeps the table, then runs one settled task and settles it again.
LEMMA RunSettled ==
  ASSUME NEW task, Settled(task)
  PROVE  /\ Settled(run(task))
         /\ run(task) # None
         /\ run(task).id = task.id
         /\ run(task).kind = task.kind
<1>1. task.run_count \in 0 .. RUN_COUNT_MAX
  BY Zenon DEF Settled, TaskInfo
<1>2. saturating_add(task.run_count, 1, RUN_COUNT_MAX) \in 0 .. RUN_COUNT_MAX
  BY <1>1, HorizonAssumption DEF saturating_add
<1>3. run(task) \in TaskInfo
  BY <1>2, Zenon DEF run, Settled, TaskInfo, TaskState
<1>4. /\ run(task).state = "Ready" /\ run(task).sleep_until_tick = None
      /\ run(task).id = task.id /\ run(task).kind = task.kind
  BY Zenon DEF run, Settled, TaskInfo
<1>. QED
  BY <1>3, <1>4, NoneAssumption, Zenon DEF Settled

\* What the scan visits is a slot.
LEMMA ScanIsSlot ==
  ASSUME next_rr_index \in Slots, NEW offset \in Slots
  PROVE  scan(offset) \in Slots /\ (scan(offset) + 1) % MAX_TASKS \in Slots
BY TableAssumption DEF scan, Slots

\* step preserves the invariant.
LEMMA StepIInv ==
  ASSUME IInv, step
  PROVE  IInv'
<1>. DEFINE woken == wake_due(slots, now_ticks)
<1>1. /\ SettledTable(woken)
      /\ SameTasks(slots, woken)
      /\ \A i, j \in Slots :
           /\ woken[i] # None => woken[i].id < next_id
           /\ woken[i] # None /\ woken[j] # None /\ woken[i].id = woken[j].id
                => i = j
      /\ woken[0] # None /\ woken[0].id = 1 /\ woken[0].kind = KernelMonitor
  BY SweepPreserves, Zenon
<1>2. UNCHANGED <<next_id, now_ticks>>
  BY Zenon DEF step
<1>3. CASE ready(woken) = {} /\ slots' = woken /\ UNCHANGED next_rr_index
           /\ result' = Err("step", "no ready task")
  <2>1. result' \in [call : Calls, id : (1 .. U64_MAX) \cup {None},
                     err : Errors \cup {None}]
    BY <1>3, Zenon DEF Err, Calls, Errors
  <2>2. result'.err # "task is running"
    BY <1>3, Zenon DEF Err
  <2>. HIDE DEF woken
  <2>. QED
    BY <1>1, <1>2, <1>3, <2>1, <2>2, Zenon
       DEF IInv, TypeOK, UniqueIds, BootstrapStays, SettledTable
<1>4. ASSUME NEW offset \in Slots,
             scan(offset) \in candidates(woken),
             next_rr_index' = (scan(offset) + 1) % MAX_TASKS,
             slots' = [woken EXCEPT ![scan(offset)] = run(woken[scan(offset)])],
             result' = Ok("step", woken[scan(offset)].id)
      PROVE  IInv'
  <2>. DEFINE k == scan(offset)
  <2>1. k \in Slots /\ next_rr_index' \in Slots
    BY <1>4, ScanIsSlot, Zenon DEF IInv, TypeOK
  <2>2. woken[k] # None
    BY <1>4, Zenon DEF candidates, ready
  <2>3. Settled(woken[k])
    BY <1>1, <2>1, <2>2, Zenon DEF SettledTable
  <2>4. /\ Settled(run(woken[k])) /\ run(woken[k]) # None
        /\ run(woken[k]).id = woken[k].id /\ run(woken[k]).kind = woken[k].kind
    BY <2>3, RunSettled, Zenon
  <2>. HIDE DEF k, woken
  <2>5. /\ slots'[k] = run(woken[k])
        /\ \A i \in Slots \ {k} : slots'[i] = woken[i]
    BY <1>1, <1>4, <2>1, Zenon DEF SettledTable, k
  <2>6. SettledTable(slots')
    <3>1. slots' \in [Slots -> TaskInfo \cup {None}]
      BY <1>1, <1>4, <2>1, <2>4, Zenon DEF SettledTable, Settled, k
    <3>. QED
      BY <1>1, <2>4, <2>5, <3>1, Zenon DEF SettledTable
  <2>7. \A i \in Slots :
          slots'[i] # None => /\ woken[i] # None /\ slots'[i].id = woken[i].id
                              /\ slots'[i].kind = woken[i].kind
    BY <2>2, <2>4, <2>5, Zenon
  <2>8. UniqueIds'
    BY <1>1, <1>2, <2>7 DEF UniqueIds
  <2>9. BootstrapStays'
    BY <1>1, <2>4, <2>5, <2>7, ZeroIsSlot, Zenon DEF BootstrapStays
  <2>10. result' \in [call : Calls, id : (1 .. U64_MAX) \cup {None},
                      err : Errors \cup {None}]
    BY <1>4, <2>3, Zenon DEF Ok, Calls, Settled, TaskInfo, k
  <2>11. result'.err # "task is running"
    BY <1>4, NoneAssumption, Zenon DEF Ok, Errors
  <2>12. TypeOK'
    BY <1>2, <2>1, <2>6, <2>10, Zenon DEF IInv, TypeOK, SettledTable
  <2>. QED
    BY <2>6, <2>8, <2>9, <2>11, <2>12, Zenon DEF IInv
<1>. QED
  BY <1>3, <1>4, Zenon DEF step
\* sleep: refused outright for 0 ticks, otherwise an edit that gives the task a
\* deadline within the width of the clock.
LEMMA SleepIInv ==
  ASSUME IInv, NEW id \in Ids, NEW n \in SleepArgs, sleep(id, n)
  PROVE  IInv'
<1>. DEFINE woken == wake_due(slots, now_ticks)
            found == woken[Find(woken, id)]
            until == saturating_add(now_ticks, n, U64_MAX)
            asleep == [found EXCEPT !.state = "Sleeping",
                                    !.sleep_until_tick = until]
<1>1. CASE n = 0 /\ result' = Err("sleep", "sleep ticks must be > 0")
           /\ UNCHANGED <<slots, next_id, next_rr_index, now_ticks>>
  <2>1. result' \in [call : Calls, id : (1 .. U64_MAX) \cup {None},
                     err : Errors \cup {None}]
    BY <1>1, Zenon DEF Err, Calls, Errors
  <2>2. result'.err # "task is running"
    BY <1>1, Zenon DEF Err
  <2>. QED
    BY <1>1, <2>1, <2>2, Zenon DEF IInv, TypeOK, UniqueIds, BootstrapStays
<1>2. CASE n > 0 /\ Edit("sleep", id, LookupError(woken, id), asleep)
  <2>1. SettledTable(woken) /\ SameTasks(slots, woken)
    BY SweepPreserves, Zenon
  <2>. HIDE DEF woken
  <2>2. LookupError(woken, id) \in {None, "task not found"}
    BY <2>1, FindSettled, Zenon
  <2>3. ASSUME LookupError(woken, id) = None
        PROVE  /\ asleep # None /\ Settled(asleep) /\ asleep.id = id
               /\ asleep.kind = found.kind
    <3>1. found.id = id /\ found \in TaskInfo
      BY <2>1, <2>3, FindSettled, Zenon DEF Settled
    <3>2. until \in 0 .. U64_MAX
      <4>1. now_ticks \in Nat /\ n \in Nat /\ U64_MAX \in Nat
        BY Widths, Zenon DEF IInv, TypeOK
      <4>. QED
        BY <4>1, SaturatingInWidth, Zenon
    <3>. HIDE DEF until, found
    <3>3. asleep \in TaskInfo
      BY <3>1, <3>2, Zenon DEF TaskInfo, TaskState
    <3>4. /\ asleep.state = "Sleeping" /\ asleep.sleep_until_tick = until
          /\ asleep.id = found.id /\ asleep.kind = found.kind
      BY <3>1, Zenon DEF TaskInfo
    <3>5. until # None
      BY <3>2, NoneAssumption
    <3>. QED
      BY <3>1, <3>3, <3>4, <3>5, NoneAssumption, Zenon DEF Settled
  <2>4. "sleep" \in Calls /\ "task not found" \in Errors
    BY Zenon DEF Calls, Errors
  <2>5. LookupError(woken, id) # "task is running"
    BY <2>2, NoneAssumption, Zenon DEF Errors
  <2>. HIDE DEF asleep
  <2>. QED
    BY <1>2, <2>2, <2>3, <2>4, <2>5, EditPreserves, Zenon DEF woken, found
<1>. QED
  BY <1>1, <1>2, Zenon DEF sleep

\* wake: an edit that wakes the task.
LEMMA WakeIInv ==
  ASSUME IInv, NEW id \in Ids, wake(id)
  PROVE  IInv'
<1>. DEFINE woken == wake_due(slots, now_ticks)
            found == woken[Find(woken, id)]
            lookup == LookupError(woken, id)
            refusal == IF lookup = None /\ found.state # "Sleeping"
                         THEN "task is not sleeping" ELSE lookup
<1>1. Edit("wake", id, refusal, Awake(found))
  BY Zenon DEF wake
<1>2. SettledTable(woken) /\ SameTasks(slots, woken)
  BY SweepPreserves, Zenon
<1>. HIDE DEF woken
<1>3. lookup \in {None, "task not found"}
  BY <1>2, FindSettled, Zenon
<1>4. "wake" \in Calls /\ {"task not found", "task is not sleeping"} \subseteq Errors
  BY Zenon DEF Calls, Errors
<1>5. None # "task is running" /\ None # "task is not sleeping"
  BY NoneAssumption, Zenon DEF Errors
<1>. HIDE DEF lookup
<1>6. /\ refusal \in Errors \cup {None} /\ refusal # "task is running"
      /\ refusal = None => lookup = None
  BY <1>3, <1>4, <1>5, Zenon
<1>7. ASSUME lookup = None
      PROVE  /\ Awake(found) # None /\ Settled(Awake(found))
             /\ Awake(found).id = id /\ Awake(found).kind = found.kind
  <2>1. found.id = id /\ found \in TaskInfo
    BY <1>2, <1>7, FindSettled, Zenon DEF Settled, lookup
  <2>. HIDE DEF found
  <2>2. Awake(found) \in TaskInfo
    BY <2>1, Zenon DEF TaskInfo, TaskState, Awake
  <2>3. /\ Awake(found).state = "Ready" /\ Awake(found).sleep_until_tick = None
        /\ Awake(found).id = found.id /\ Awake(found).kind = found.kind
    BY <2>1, Zenon DEF TaskInfo, Awake
  <2>. QED
    BY <2>1, <2>2, <2>3, NoneAssumption, Zenon DEF Settled
<1>. HIDE DEF refusal
<1>. QED
  BY <1>1, <1>4, <1>6, <1>7, EditPreserves, Zenon DEF woken, found, lookup

\* remove: an edit that empties the slot, never that of task 1.
LEMMA RemoveIInv ==
  ASSUME IInv, NEW id \in Ids, remove(id)
  PROVE  IInv'
<1>. DEFINE woken == wake_due(slots, now_ticks)
            lookup == LookupError(woken, id)
            refusal == IF id = 1 THEN "cannot remove bootstrap task" ELSE lookup
<1>1. Edit("remove", id, refusal, None)
  BY Zenon DEF remove
<1>2. SettledTable(woken) /\ SameTasks(slots, woken)
  BY SweepPreserves, Zenon
<1>. HIDE DEF woken
<1>3. lookup \in {None, "task not found"}
  BY <1>2, FindSettled, Zenon
<1>4. /\ "remove" \in Calls
      /\ {"task not found", "cannot remove bootstrap task"} \subseteq Errors
  BY Zenon DEF Calls, Errors
<1>5. None # "task is running" /\ None # "cannot remove bootstrap task"
  BY NoneAssumption, Zenon DEF Errors
<1>. HIDE DEF lookup
<1>6. /\ refusal \in Errors \cup {None} /\ refusal # "task is running"
      /\ refusal = None => lookup = None /\ id # 1
  BY <1>3, <1>4, <1>5, Zenon
<1>. HIDE DEF refusal
<1>. QED
  BY <1>1, <1>4, <1>6, EditPreserves, Zenon DEF woken, lookup

\* set_priority: an edit that changes the priority, clamped to a u8.
LEMMA SetPriorityIInv ==
  ASSUME IInv, NEW id \in Ids, NEW p \in PriorityArgs, set_priority(id, p)
  PROVE  IInv'
<1>. DEFINE woken == wake_due(slots, now_ticks)
            found == woken[Find(woken, id)]
            lookup == LookupError(woken, id)
            clamped == IF p > U8_MAX THEN U8_MAX ELSE p
            changed == [found EXCEPT !.priority = clamped]
<1>1. Edit("set_priority", id, lookup, changed)
  BY Zenon DEF set_priority
<1>2. SettledTable(woken) /\ SameTasks(slots, woken)
  BY SweepPreserves, Zenon
<1>. HIDE DEF woken
<1>3. lookup \in {None, "task not found"}
  BY <1>2, FindSettled, Zenon
<1>4. "set_priority" \in Calls /\ "task not found" \in Errors
  BY Zenon DEF Calls, Errors
<1>5. lookup # "task is running"
  BY <1>3, NoneAssumption, Zenon DEF Errors
<1>6. ASSUME lookup = None
      PROVE  /\ changed # None /\ Settled(changed)
             /\ changed.id = id /\ changed.kind = found.kind
  <2>1. found.id = id /\ Settled(found) /\ found \in TaskInfo
    BY <1>2, <1>6, FindSettled, Zenon DEF Settled
  <2>2. clamped \in 0 .. U8_MAX
    BY TableAssumption, HorizonAssumption
  <2>. HIDE DEF found, clamped
  <2>3. changed \in TaskInfo
    BY <2>1, <2>2, Zenon DEF TaskInfo
  <2>4. /\ changed.state = found.state
        /\ changed.sleep_until_tick = found.sleep_until_tick
        /\ changed.id = found.id /\ changed.kind = found.kind
    BY <2>1, Zenon DEF TaskInfo
  <2>. QED
    BY <2>1, <2>3, <2>4, NoneAssumption, Zenon DEF Settled
<1>. HIDE DEF lookup, changed
<1>. QED
  BY <1>1, <1>3, <1>4, <1>5, <1>6, EditPreserves, Zenon DEF woken, found, lookup
-----------------------------------------------------------------------------
(* The invariants. *)

\* Every step of the scheduler preserves the inductive invariant.
LEMMA NextIInv == IInv /\ [Next]_vars => IInv'
<1>. SUFFICES ASSUME IInv, [Next]_vars PROVE IInv'
  BY Zenon
<1>1. CASE ReadTicks
  <2>1. /\ now_ticks' \in 0 .. TickHorizon
        /\ result' = Ok("ticks", None)
        /\ UNCHANGED <<slots, next_id, next_rr_index>>
    <3>1. now_ticks \in 0 .. TickHorizon /\ now_ticks' \in now_ticks .. TickHorizon
      BY <1>1, Zenon DEF ReadTicks, IInv, TypeOK
    <3>2. now_ticks' \in 0 .. TickHorizon
      BY <3>1, HorizonAssumption
    <3>. QED
      BY <1>1, <3>2, Zenon DEF ReadTicks
  <2>2. result' \in [call : Calls, id : (1 .. U64_MAX) \cup {None},
                     err : Errors \cup {None}]
    BY <2>1, Zenon DEF Ok, Calls
  <2>3. result'.err # "task is running"
    BY <2>1, NoneAssumption, Zenon DEF Ok, Errors
  <2>. QED
    BY <2>1, <2>2, <2>3, Zenon DEF IInv, TypeOK, UniqueIds, BootstrapStays
<1>2. ASSUME NEW aKind \in TaskKind, spawn(aKind) PROVE IInv'
  BY <1>2, SpawnIInv, Zenon
<1>3. CASE step
  BY <1>3, StepIInv, Zenon
<1>4. ASSUME NEW id \in Ids, NEW n \in SleepArgs, sleep(id, n) PROVE IInv'
  BY <1>4, SleepIInv, Zenon
<1>5. ASSUME NEW id \in Ids, wake(id) PROVE IInv'
  BY <1>5, WakeIInv, Zenon
<1>6. ASSUME NEW id \in Ids, remove(id) PROVE IInv'
  BY <1>6, RemoveIInv, Zenon
<1>7. ASSUME NEW id \in Ids, NEW p \in PriorityArgs, set_priority(id, p)
      PROVE  IInv'
  BY <1>7, SetPriorityIInv, Zenon
<1>8. CASE UNCHANGED vars
  BY <1>8, Zenon DEF vars, IInv, TypeOK, UniqueIds, BootstrapStays
<1>. QED
  BY <1>1, <1>2, <1>3, <1>4, <1>5, <1>6, <1>7, <1>8, Zenon DEF Next

\* The inductive invariant holds in every reachable state.
THEOREM Invariance == Spec => []IInv
<1>1. Init => IInv
  BY InitIInv, Zenon
<1>2. IInv /\ [Next]_vars => IInv'
  BY NextIInv, Zenon
<1>. QED
  BY <1>1, <1>2, PTL DEF Spec

\* The scheduler's state keeps its types whatever is called: no counter leaves
\* its width, the round-robin pointer stays inside the table.
THEOREM TypeCorrect == Spec => []TypeOK
<1>1. IInv => TypeOK
  BY Zenon DEF IInv
<1>. QED
  BY <1>1, Invariance, PTL

\* No spawn after any removals hands out an id that is in use.
THEOREM IdsAreUnique == Spec => []UniqueIds
<1>1. IInv => UniqueIds
  BY Zenon DEF IInv
<1>. QED
  BY <1>1, Invariance, PTL

\* No call removes or replaces the bootstrap monitor task.
THEOREM BootstrapIsPermanent == Spec => []BootstrapStays
<1>1. IInv => BootstrapStays
  BY Zenon DEF IInv
<1>. QED
  BY <1>1, Invariance, PTL

\* No call leaves a task asleep without a tick at which wake_due wakes it, nor
\* awake with one.
THEOREM SleepersAreTimed == Spec => []SleepersHaveDeadlines
<1>1. IInv => SleepersHaveDeadlines
  BY Zenon DEF IInv, SettledTable, Settled, SleepersHaveDeadlines
<1>. QED
  BY <1>1, Invariance, PTL

\* No call returns while a task is Running, and none is refused because one is.
THEOREM RunningNeverSeen == Spec => []RunningIsInvisible
<1>1. IInv => RunningIsInvisible
  <2>. SUFFICES ASSUME IInv PROVE RunningIsInvisible
    BY Zenon
  <2>1. {i \in Slots : slots[i] # None /\ slots[i].state = "Running"} = {}
    BY Zenon DEF IInv, SettledTable, Settled
  <2>2. snapshot.running = 0
    BY <2>1, NoneCounted, Zenon DEF snapshot
  <2>. QED
    BY <2>2, Zenon DEF IInv, RunningIsInvisible
<1>. QED
  BY <1>1, Invariance, PTL

\* After every call of task.rs the table is sound.
THEOREM TableStaysSound == Spec => []TableIsSound
<1>1. TypeOK /\ UniqueIds /\ BootstrapStays /\ SleepersHaveDeadlines /\ RunningIsInvisible
      => TableIsSound
  BY Zenon DEF TableIsSound
<1>. QED
  BY <1>1, TypeCorrect, IdsAreUnique, BootstrapIsPermanent, SleepersAreTimed,
     RunningNeverSeen, PTL

-----------------------------------------------------------------------------
(* What a call may never do. *)

\* The table once wake_due has gone through it.
Swept == wake_due(slots, now_ticks)

\* A sweep wakes the overdue tasks, keeps all others as they are, and leaves
\* nothing that is due.
LEMMA SweptSlot ==
  ASSUME IInv, NEW i \in Slots
  PROVE  /\ Overdue(i) => /\ slots[i] # None /\ Swept[i] # None
                          /\ Swept[i] = Awake(slots[i]) /\ Swept[i].state = "Ready"
         /\ ~ Overdue(i) => Swept[i] = slots[i]
         /\ slots[i] = None <=> Swept[i] = None
         /\ slots[i] # None => /\ Swept[i].id = slots[i].id
                               /\ Swept[i].kind = slots[i].kind
                               /\ Swept[i].priority = slots[i].priority
                               /\ Settled(Swept[i])
                               /\ Swept[i].id \in 1 .. U64_MAX
                               /\ Swept[i].priority \in Nat
         /\ ~ Due(Swept[i], now_ticks)
<1>1. now_ticks \in Nat
  BY Widths, Zenon DEF IInv, TypeOK
<1>2. SettledTable(Swept) /\ SameTasks(slots, Swept)
  BY SweepPreserves, Zenon DEF Swept
<1>3. slots[i] # None => Settled(slots[i])
  BY Zenon DEF IInv, SettledTable
<1>4. slots[i] = None <=> Swept[i] = None
  BY <1>2, Zenon DEF SameTasks
<1>5. slots[i] # None => /\ Swept[i].id = slots[i].id /\ Settled(Swept[i])
                         /\ Swept[i].kind = slots[i].kind
  BY <1>2, <1>4, Zenon DEF SameTasks, SettledTable
<1>6. slots[i] # None => slots[i].sleep_until_tick \in Nat \cup {None}
  BY <1>3, Widths DEF Settled, TaskInfo
<1>7. Overdue(i) <=> Due(slots[i], now_ticks)
  <2>1. CASE slots[i] = None
    BY <2>1, Zenon DEF Overdue, Sleeping, Due
  <2>2. CASE slots[i] # None /\ slots[i].state # "Sleeping"
    BY <2>2, Zenon DEF Overdue, Sleeping, Due
  <2>3. CASE slots[i] # None /\ slots[i].state = "Sleeping"
    <3>1. slots[i].sleep_until_tick \in Nat
      BY <1>3, <1>6, <2>3, Zenon DEF Settled
    <3>. QED
      BY <1>1, <1>3, <2>3, <3>1, Zenon DEF Overdue, Sleeping, Due, Settled
  <2>. QED
    BY <2>1, <2>2, <2>3, Zenon
<1>8. Swept[i] = IF Overdue(i) THEN Awake(slots[i]) ELSE slots[i]
  BY <1>7, Zenon DEF Swept, wake_due
<1>9. ASSUME slots[i] # None
      PROVE  /\ Awake(slots[i]).state = "Ready"
             /\ Awake(slots[i]).priority = slots[i].priority
             /\ Awake(slots[i]).sleep_until_tick = None
  BY <1>3, <1>9, Zenon DEF Awake, Settled, TaskInfo
<1>10. Overdue(i) => slots[i] # None
  BY Zenon DEF Overdue, Sleeping
<1>11. ~ Due(Swept[i], now_ticks)
  BY <1>7, <1>8, <1>9, <1>10, Zenon DEF Due
<1>12. slots[i] # None => /\ Swept[i].id \in 1 .. U64_MAX
                          /\ Swept[i].priority \in Nat
  BY <1>5, TableAssumption DEF Settled, TaskInfo
<1>. QED
  BY <1>4, <1>5, <1>8, <1>9, <1>10, <1>11, <1>12, Zenon

\* How a call that sweeps leaves the slot it works on: empty, or with the same
\* task, not due, which it woke only if it is a taskwake of that task.
Handled(t, contents) ==
  \/ contents = None
  \/ /\ contents # None
     /\ contents.id = Swept[t].id /\ contents.kind = Swept[t].kind
     /\ ~ Due(contents, now_ticks)
     /\ Swept[t].state = "Sleeping" /\ contents.state # "Sleeping" =>
          result' = Ok("wake", Swept[t].id)

\* The four things a call can do to the table.
NoSweep ==
  /\ UNCHANGED <<slots, next_id>>
  /\ result'.call \in {"ticks", "spawn"} \/ result'.err = "sleep ticks must be > 0"

Spawned ==
  \E t \in Slots, aKind \in TaskKind :
    /\ slots[t] = None
    /\ slots' = [slots EXCEPT ![t] = NewTask(next_id, aKind)]
    /\ next_id' > next_id /\ now_ticks' = now_ticks /\ result'.call = "spawn"

SweepOnly == slots' = Swept /\ UNCHANGED <<next_id, now_ticks>>

SweepAndEdit ==
  /\ UNCHANGED <<next_id, now_ticks>>
  /\ \E t \in Slots : /\ Swept[t] # None
                      /\ Handled(t, slots'[t])
                      /\ \A i \in Slots \ {t} : slots'[i] = Swept[i]

Shape == NoSweep \/ Spawned \/ SweepOnly \/ SweepAndEdit

\* An edit has one of these shapes if what it writes is handled.
LEMMA EditShape ==
  ASSUME IInv, NEW call, NEW id \in Ids, NEW refusal, NEW contents,
         Edit(call, id, refusal, contents),
         refusal = None =>
           /\ LookupError(Swept, id) = None
           /\ result' = Ok(call, id) => Handled(Find(Swept, id), contents)
  PROVE  Shape
<1>1. SettledTable(Swept) /\ SameTasks(slots, Swept)
  BY SweepPreserves, Zenon DEF Swept
<1>2. UNCHANGED <<next_id, now_ticks>>
  BY Zenon DEF Edit
<1>3. CASE refusal # None
  BY <1>2, <1>3, Zenon DEF Edit, Shape, SweepOnly, Swept
<1>4. CASE refusal = None
  <2>. DEFINE t == Find(Swept, id)
  <2>1. slots' = [Swept EXCEPT ![t] = contents] /\ result' = Ok(call, id)
    BY <1>4, Zenon DEF Edit, Swept
  <2>2. t \in Slots /\ Swept[t] # None
    BY <1>1, <1>4, FindSettled, Zenon
  <2>3. Handled(t, contents)
    BY <1>4, <2>1, Zenon
  <2>. HIDE DEF t
  <2>4. slots'[t] = contents /\ \A i \in Slots \ {t} : slots'[i] = Swept[i]
    BY <1>1, <2>1, <2>2, Zenon DEF SettledTable
  <2>. QED
    BY <1>2, <2>2, <2>3, <2>4, Zenon DEF Shape, SweepAndEdit
<1>. QED
  BY <1>3, <1>4, Zenon

\* What sleep, wake and set_priority find is the task in the swept table.
LEMMA Found ==
  ASSUME IInv, NEW id \in Ids, LookupError(Swept, id) = None
  PROVE  LET t == Find(Swept, id)
         IN  /\ t \in Slots /\ Swept[t] # None /\ Swept[t].id = id
             /\ Settled(Swept[t]) /\ ~ Due(Swept[t], now_ticks)
<1>1. SettledTable(Swept) /\ SameTasks(slots, Swept)
  BY SweepPreserves, Zenon DEF Swept
<1>2. LET t == Find(Swept, id)
      IN  t \in Slots /\ Swept[t] # None /\ Swept[t].id = id /\ Settled(Swept[t])
  BY <1>1, FindSettled, Zenon
<1>. QED
  BY <1>2, SweptSlot, Zenon

\* sleep puts the deadline of the task it found after the tick it was given.
LEMMA SleepShape ==
  ASSUME IInv, NEW id \in Ids, NEW n \in SleepArgs, sleep(id, n)
  PROVE  Shape
<1>. DEFINE found == Swept[Find(Swept, id)]
            until == saturating_add(now_ticks, n, U64_MAX)
            asleep == [found EXCEPT !.state = "Sleeping",
                                    !.sleep_until_tick = until]
<1>0. n \in Nat
  BY HorizonAssumption
<1>1. CASE /\ UNCHANGED <<slots, next_id>>
           /\ result' = Err("sleep", "sleep ticks must be > 0")
  BY <1>1, Zenon DEF Shape, NoSweep, Err
<1>2. CASE n > 0 /\ Edit("sleep", id, LookupError(Swept, id), asleep)
  <2>1. Edit("sleep", id, LookupError(Swept, id), asleep)
    BY <1>2, Zenon
  <2>2. ASSUME LookupError(Swept, id) = None
        PROVE  Handled(Find(Swept, id), asleep)
    <3>1. Settled(found)
      BY <2>2, Found, Zenon
    <3>2. now_ticks \in Nat /\ n \in Nat /\ U64_MAX \in Nat /\ now_ticks < U64_MAX
      <4>1. now_ticks \in 0 .. TickHorizon
        BY Zenon DEF IInv, TypeOK
      <4>. QED
        BY <1>0, <4>1, HorizonAssumption
    <3>3. until > now_ticks /\ until \in 0 .. U64_MAX
      BY <1>2, <3>2, SaturatingInWidth, Zenon
    <3>. HIDE DEF until
    <3>4. /\ asleep \in TaskInfo
          /\ asleep.state = "Sleeping" /\ asleep.sleep_until_tick = until
          /\ asleep.id = found.id /\ asleep.kind = found.kind
      <4>. HIDE DEF found
      <4>. QED
        BY <3>1, <3>3, Zenon DEF Settled, TaskInfo, TaskState
    <3>. HIDE DEF asleep
    <3>5. asleep # None /\ ~ Due(asleep, now_ticks)
      BY <3>2, <3>3, <3>4, NoneAssumption DEF Due
    <3>. QED
      BY <3>4, <3>5, Zenon DEF Handled
  <2>. HIDE DEF asleep
  <2>. QED
    BY <2>1, <2>2, EditShape, Zenon
<1>. QED
  BY <1>1, <1>2, Zenon DEF sleep, Swept

\* wake names the task it wakes in its result.
LEMMA WakeShape ==
  ASSUME IInv, NEW id \in Ids, wake(id)
  PROVE  Shape
<1>. DEFINE found == Swept[Find(Swept, id)]
            lookup == LookupError(Swept, id)
            refusal == IF lookup = None /\ found.state # "Sleeping"
                         THEN "task is not sleeping" ELSE lookup
<1>1. Edit("wake", id, refusal, Awake(found))
  BY Zenon DEF wake, Swept
<1>2. None # "task is not sleeping"
  BY NoneAssumption, Zenon DEF Errors
<1>3. refusal = None => lookup = None
  BY <1>2, Zenon
<1>4. ASSUME lookup = None, result' = Ok("wake", id)
      PROVE  Handled(Find(Swept, id), Awake(found))
  <2>1. Settled(found) /\ found.id = id
    BY <1>4, Found, Zenon
  <2>2. /\ Awake(found) \in TaskInfo
        /\ Awake(found).state = "Ready"
        /\ Awake(found).id = found.id /\ Awake(found).kind = found.kind
    <3>. HIDE DEF found
    <3>. QED
      BY <2>1, Zenon DEF Settled, TaskInfo, TaskState, Awake
  <2>3. Awake(found) # None /\ ~ Due(Awake(found), now_ticks)
    BY <2>2, NoneAssumption, Zenon DEF Due
  <2>. QED
    BY <1>4, <2>1, <2>2, <2>3, Zenon DEF Handled
<1>. HIDE DEF refusal
<1>. QED
  BY <1>1, <1>3, <1>4, EditShape, Zenon

\* remove leaves an empty slot.
LEMMA RemoveShape ==
  ASSUME IInv, NEW id \in Ids, remove(id)
  PROVE  Shape
<1>. DEFINE refusal == IF id = 1 THEN "cannot remove bootstrap task"
                                 ELSE LookupError(Swept, id)
<1>1. Edit("remove", id, refusal, None)
  BY Zenon DEF remove, Swept
<1>2. refusal = None => LookupError(Swept, id) = None
  BY NoneAssumption, Zenon DEF Errors
<1>3. Handled(Find(Swept, id), None)
  BY Zenon DEF Handled
<1>. HIDE DEF refusal
<1>. QED
  BY <1>1, <1>2, <1>3, EditShape, Zenon

\* set_priority touches neither the state nor the deadline.
LEMMA SetPriorityShape ==
  ASSUME IInv, NEW id \in Ids, NEW p \in PriorityArgs, set_priority(id, p)
  PROVE  Shape
<1>. DEFINE found == Swept[Find(Swept, id)]
            clamped == IF p > U8_MAX THEN U8_MAX ELSE p
            changed == [found EXCEPT !.priority = clamped]
<1>1. Edit("set_priority", id, LookupError(Swept, id), changed)
  BY Zenon DEF set_priority, Swept
<1>2. ASSUME LookupError(Swept, id) = None
      PROVE  Handled(Find(Swept, id), changed)
  <2>1. Settled(found) /\ ~ Due(found, now_ticks) /\ found # None
    BY <1>2, Found, Zenon
  <2>2. clamped \in 0 .. U8_MAX
    BY TableAssumption, HorizonAssumption
  <2>3. /\ changed \in TaskInfo
        /\ changed.state = found.state
        /\ changed.sleep_until_tick = found.sleep_until_tick
        /\ changed.id = found.id /\ changed.kind = found.kind
    <3>. HIDE DEF found, clamped
    <3>. QED
      BY <2>1, <2>2, Zenon DEF Settled, TaskInfo
  <2>. HIDE DEF changed
  <2>4. changed # None /\ ~ Due(changed, now_ticks)
    BY <2>1, <2>3, NoneAssumption, Zenon DEF Due
  <2>. QED
    BY <2>3, <2>4, Zenon DEF Handled
<1>. HIDE DEF changed
<1>. QED
  BY <1>1, <1>2, EditShape, Zenon

\* What step finds once it has swept: nothing ready, or the first candidate of
\* its scan, which it runs.
StepRuns(offset) ==
  LET k == scan(offset)
  IN  /\ k \in Slots /\ Swept[k] # None /\ Swept[k].state = "Ready"
      /\ k \in candidates(Swept)
      /\ \A o \in 0 .. offset - 1 : scan(o) \notin candidates(Swept)
      /\ next_rr_index' = (k + 1) % MAX_TASKS
      /\ slots'[k] = run(Swept[k]) /\ \A i \in Slots \ {k} : slots'[i] = Swept[i]
      /\ result' = Ok("step", Swept[k].id)

LEMMA StepCases ==
  ASSUME IInv, step
  PROVE  /\ UNCHANGED <<next_id, now_ticks>>
         /\ \/ /\ ready(Swept) = {} /\ slots' = Swept
               /\ result' = Err("step", "no ready task")
            \/ \E offset \in Slots : StepRuns(offset)
<1>1. SettledTable(Swept)
  BY SweepPreserves, Zenon DEF Swept
<1>2. ASSUME NEW offset \in Slots,
             scan(offset) \in candidates(Swept),
             \A o \in 0 .. offset - 1 : scan(o) \notin candidates(Swept),
             next_rr_index' = (scan(offset) + 1) % MAX_TASKS,
             slots' = [Swept EXCEPT ![scan(offset)] = run(Swept[scan(offset)])],
             result' = Ok("step", Swept[scan(offset)].id)
      PROVE  StepRuns(offset)
  <2>. DEFINE k == scan(offset)
  <2>1. k \in Slots /\ Swept[k] # None /\ Swept[k].state = "Ready"
    BY <1>2, Zenon DEF candidates, ready
  <2>2. slots'[k] = run(Swept[k]) /\ \A i \in Slots \ {k} : slots'[i] = Swept[i]
    <3>. HIDE DEF k
    <3>. QED
      BY <1>1, <1>2, <2>1, Zenon DEF SettledTable, k
  <2>. QED
    BY <1>2, <2>1, <2>2, Zenon DEF StepRuns
<1>. QED
  BY <1>2, Zenon DEF step, Swept

\* step runs a task that is not asleep.
LEMMA StepShape ==
  ASSUME IInv, step
  PROVE  Shape
<1>1. UNCHANGED <<next_id, now_ticks>>
  BY StepCases, Zenon
<1>2. CASE slots' = Swept
  BY <1>1, <1>2, Zenon DEF Shape, SweepOnly
<1>3. ASSUME NEW offset \in Slots, StepRuns(offset)
      PROVE  Shape
  <2>. DEFINE k == scan(offset)
  <2>1. /\ k \in Slots /\ Swept[k] # None /\ Swept[k].state = "Ready"
        /\ slots'[k] = run(Swept[k]) /\ \A i \in Slots \ {k} : slots'[i] = Swept[i]
    BY <1>3, Zenon DEF StepRuns
  <2>. HIDE DEF k
  <2>2. Settled(Swept[k])
    BY <2>1, SweptSlot, Zenon
  <2>3. /\ run(Swept[k]) # None /\ run(Swept[k]).id = Swept[k].id
        /\ run(Swept[k]).kind = Swept[k].kind
    BY <2>2, RunSettled, Zenon
  <2>4. run(Swept[k]).state = "Ready"
    BY <2>2, Zenon DEF run, Settled, TaskInfo
  <2>5. Handled(k, slots'[k])
    BY <2>1, <2>3, <2>4, Zenon DEF Handled, Due
  <2>. QED
    BY <1>1, <2>1, <2>5, Zenon DEF Shape, SweepAndEdit
<1>. QED
  BY <1>2, <1>3, StepCases, Zenon

\* spawn puts the next id into a free slot and steps the counter.
LEMMA SpawnShape ==
  ASSUME IInv, NEW aKind \in TaskKind, spawn(aKind)
  PROVE  Shape
<1>. DEFINE free == {i \in Slots : slots[i] = None}
<1>1. CASE free = {}
  <2>1. UNCHANGED <<slots, next_id>> /\ result' = Err("spawn", "task table full")
    BY <1>1, Zenon DEF spawn
  <2>2. result'.call = "spawn"
    BY <2>1, Zenon DEF Err
  <2>. QED
    BY <2>1, <2>2, Zenon DEF Shape, NoSweep
<1>2. CASE free # {}
  <2>1. /\ next_id < IdHorizon
        /\ slots' = [slots EXCEPT ![First(free)] = NewTask(next_id, aKind)]
        /\ next_id' = saturating_add(next_id, 1, U64_MAX)
        /\ result' = Ok("spawn", next_id) /\ now_ticks' = now_ticks
    BY <1>2, Zenon DEF spawn
  <2>0. result'.call = "spawn"
    BY <2>1, Zenon DEF Ok
  <2>2. First(free) \in free
    BY <1>2, FirstMember, Zenon
  <2>3. next_id \in Nat /\ next_id < U64_MAX /\ U64_MAX \in Nat
    <3>1. next_id \in 1 .. IdHorizon
      BY Zenon DEF IInv, TypeOK
    <3>. QED
      BY <2>1, <3>1, Widths
  <2>4. next_id' > next_id
    BY <2>1, <2>3, SaturatingInWidth
  <2>. QED
    BY <2>0, <2>1, <2>2, <2>4, Zenon DEF Shape, Spawned
<1>. QED
  BY <1>1, <1>2, Zenon

\* Every call has one of the shapes.
LEMMA NextShape ==
  ASSUME IInv, Next
  PROVE  Shape
<1>1. CASE ReadTicks
  BY <1>1, Zenon DEF ReadTicks, Ok, Shape, NoSweep
<1>. QED
  BY <1>1, SpawnShape, StepShape, SleepShape, WakeShape, RemoveShape,
     SetPriorityShape, Zenon DEF Next

\* Every call shape keeps sleepers asleep until they are due or woken by name,
\* and a sweep leaves none overdue.
LEMMA ShapeOnTime ==
  ASSUME IInv, IInv', Shape
  PROVE  NoEarlyWake /\ SweepLeavesNoOverdue
<1>1. slots \in [Slots -> TaskInfo \cup {None}]
  BY Zenon DEF IInv, TypeOK
<1>2. ASSUME NEW i \in Slots PROVE Overdue(i)' => Due(slots'[i], now_ticks')
  <2>1. slots'[i] # None => Settled(slots'[i])
    BY Zenon DEF IInv, SettledTable
  <2>2. now_ticks' \in Nat
    BY Widths, Zenon DEF IInv, TypeOK
  <2>3. SUFFICES ASSUME Overdue(i)' PROVE Due(slots'[i], now_ticks')
    BY Zenon
  <2>4. slots'[i].sleep_until_tick \in Nat /\ slots'[i].sleep_until_tick # None
    BY <2>1, <2>3, Widths, NoneAssumption
       DEF Overdue, Sleeping, Settled, TaskInfo
  <2>. QED
    BY <2>2, <2>3, <2>4, Zenon DEF Overdue, Sleeping, Due
<1>3. CASE NoSweep
  BY <1>3, Zenon DEF NoSweep, NoEarlyWake, SweepLeavesNoOverdue, Sleeping
<1>4. CASE Spawned
  <2>1. PICK t \in Slots, aKind \in TaskKind :
          /\ slots[t] = None
          /\ slots' = [slots EXCEPT ![t] = NewTask(next_id, aKind)]
          /\ result'.call = "spawn"
    BY <1>4, Zenon DEF Spawned
  <2>2. \A i \in Slots : slots[i] # None => slots'[i] = slots[i]
    BY <1>1, <2>1, Zenon
  <2>. QED
    BY <2>1, <2>2, Zenon DEF NoEarlyWake, SweepLeavesNoOverdue, Sleeping
<1>5. ASSUME NEW i \in Slots, slots'[i] = Swept[i]
      PROVE  /\ Sleeping(i) /\ ~ Sleeping(i)' => Overdue(i)
             /\ ~ Due(slots'[i], now_ticks)
  BY <1>5, SweptSlot, Zenon DEF Sleeping
<1>6. CASE SweepOnly
  BY <1>2, <1>5, <1>6, Zenon DEF SweepOnly, NoEarlyWake, SweepLeavesNoOverdue
<1>7. CASE SweepAndEdit
  <2>1. PICK t \in Slots : /\ Swept[t] # None
                           /\ Handled(t, slots'[t])
                           /\ \A i \in Slots \ {t} : slots'[i] = Swept[i]
    BY <1>7, Zenon DEF SweepAndEdit
  <2>2. now_ticks' = now_ticks
    BY <1>7, Zenon DEF SweepAndEdit
  <2>3. ~ Due(slots'[t], now_ticks)
    BY <2>1, Zenon DEF Handled, Due
  <2>4. ASSUME Sleeping(t), ~ Sleeping(t)', slots'[t] # None, ~ Overdue(t)
        PROVE  result' = Ok("wake", slots[t].id)
    <3>1. Swept[t] = slots[t]
      BY <2>4, SweptSlot, Zenon
    <3>. QED
      BY <2>1, <2>4, <3>1, Zenon DEF Handled, Sleeping
  <2>5. NoEarlyWake
    BY <1>5, <2>1, <2>4, Zenon DEF NoEarlyWake
  <2>6. \A i \in Slots : ~ Due(slots'[i], now_ticks)
    BY <1>5, <2>1, <2>3, Zenon
  <2>. QED
    BY <1>2, <2>2, <2>5, <2>6, Zenon DEF SweepLeavesNoOverdue
<1>. QED
  BY <1>3, <1>4, <1>6, <1>7, Zenon DEF Shape

\* wake_due wakes no task before its tick and no sweep leaves one asleep after
\* it, whatever the calls and however long the sleeps, u64::MAX included.
THEOREM NoTaskWakesEarlyOrLate == Spec => WakesAreOnTime
<1>1. ASSUME IInv, IInv', [Next]_vars
      PROVE  [NoEarlyWake /\ SweepLeavesNoOverdue]_vars
  BY <1>1, NextShape, ShapeOnTime, Zenon
<1>. QED
  BY <1>1, Invariance, PTL DEF Spec, WakesAreOnTime

\* Every call shape changes one task at most, apart from waking, and hands an id
\* to one task only.
LEMMA ShapeLocal ==
  ASSUME IInv, Shape
  PROVE  BystandersOnlyWake /\ IdsNeverReused
<1>1. slots \in [Slots -> TaskInfo \cup {None}] /\ next_id \in Nat
  <2>1. next_id \in 1 .. IdHorizon
    BY Zenon DEF IInv, TypeOK
  <2>2. next_id \in Nat
    BY <2>1, Widths
  <2>. QED
    BY <2>2, Zenon DEF IInv, TypeOK
<1>2. CASE NoSweep
  BY <1>2, ZeroIsSlot, Zenon DEF NoSweep, BystandersOnlyWake, IdsNeverReused
<1>3. CASE Spawned
  <2>1. PICK t \in Slots, aKind \in TaskKind :
          /\ slots[t] = None
          /\ slots' = [slots EXCEPT ![t] = NewTask(next_id, aKind)]
          /\ next_id' > next_id
    BY <1>3, Zenon DEF Spawned
  <2>2. slots'[t].id = next_id /\ \A i \in Slots \ {t} : slots'[i] = slots[i]
    BY <1>1, <2>1, Zenon DEF NewTask
  <2>. QED
    BY <1>1, <2>1, <2>2 DEF BystandersOnlyWake, IdsNeverReused
<1>4. ASSUME NEW i \in Slots, slots'[i] = Swept[i]
      PROVE  /\ slots'[i] = slots[i] \/ (Overdue(i) /\ slots'[i] = Awake(slots[i]))
             /\ slots'[i] # None => /\ slots[i] # None
                                    /\ slots'[i].id = slots[i].id
                                    /\ slots'[i].kind = slots[i].kind
  BY <1>4, SweptSlot, Zenon
<1>5. CASE SweepOnly
  BY <1>4, <1>5, ZeroIsSlot, Zenon DEF SweepOnly, BystandersOnlyWake, IdsNeverReused
<1>6. CASE SweepAndEdit
  <2>1. PICK t \in Slots : /\ Swept[t] # None
                           /\ Handled(t, slots'[t])
                           /\ \A i \in Slots \ {t} : slots'[i] = Swept[i]
    BY <1>6, Zenon DEF SweepAndEdit
  <2>2. slots[t] # None /\ Swept[t].id = slots[t].id /\ Swept[t].kind = slots[t].kind
    BY <2>1, SweptSlot, Zenon
  <2>3. slots'[t] # None => /\ slots'[t].id = slots[t].id
                            /\ slots'[t].kind = slots[t].kind
    BY <2>1, <2>2, Zenon DEF Handled
  <2>. QED
    BY <1>4, <2>1, <2>2, <2>3 DEF BystandersOnlyWake, IdsNeverReused
<1>. QED
  BY <1>2, <1>3, <1>5, <1>6, Zenon DEF Shape

\* No call touches a task it was not given except to wake it when it is due,
\* and no id or kind ever changes hands.
THEOREM NoCallTouchesBystanders == Spec => CallsAreLocal
<1>1. ASSUME IInv, [Next]_vars
      PROVE  [BystandersOnlyWake /\ IdsNeverReused]_vars
  BY <1>1, NextShape, ShapeLocal, Zenon
<1>. QED
  BY <1>1, Invariance, PTL DEF Spec, CallsAreLocal

\* % on the three ranges the round-robin arithmetic meets.
LEMMA Wraps ==
  ASSUME NEW x \in Int
  PROVE  /\ x \in 0 .. MAX_TASKS - 1 => x % MAX_TASKS = x
         /\ x \in MAX_TASKS .. 2 * MAX_TASKS - 1 => x % MAX_TASKS = x - MAX_TASKS
         /\ x \in (- MAX_TASKS) .. -1 => x % MAX_TASKS = x + MAX_TASKS
BY TableAssumption

\* The scan gets to a slot at its distance.
LEMMA ScanDistance ==
  ASSUME next_rr_index \in Slots, NEW i \in Slots
  PROVE  /\ Distance(i) \in Slots /\ scan(Distance(i)) = i
         /\ Distance(i) = IF i >= next_rr_index THEN i - next_rr_index
                          ELSE i - next_rr_index + MAX_TASKS
<1>1. MAX_TASKS \in Nat \ {0} /\ i \in 0 .. MAX_TASKS - 1
      /\ next_rr_index \in 0 .. MAX_TASKS - 1
  BY TableAssumption, Zenon DEF Slots
<1>2. CASE i >= next_rr_index
  <2>1. Distance(i) = i - next_rr_index
    BY <1>1, <1>2, Wraps DEF Distance
  <2>2. next_rr_index + Distance(i) = i
    BY <1>1, <2>1
  <2>. QED
    BY <1>1, <1>2, <2>1, <2>2, Wraps DEF scan, Slots
<1>3. CASE i < next_rr_index
  <2>1. Distance(i) = i - next_rr_index + MAX_TASKS
    BY <1>1, <1>3, Wraps DEF Distance
  <2>2. next_rr_index + Distance(i) = i + MAX_TASKS
    BY <1>1, <2>1
  <2>3. scan(Distance(i)) = i
    BY <1>1, <2>2, Wraps DEF scan
  <2>. QED
    BY <1>1, <1>3, <2>1, <2>3 DEF Slots
<1>. QED
  BY <1>1, <1>2, <1>3

\* Moving the pointer behind a slot brings every slot further on nearer.
LEMMA Nearer ==
  ASSUME next_rr_index \in Slots, NEW i \in Slots, NEW k \in Slots,
         Distance(k) < Distance(i), next_rr_index' = (k + 1) % MAX_TASKS
  PROVE  Distance(i)' < Distance(i)
<1>1. MAX_TASKS \in Nat \ {0} /\ i \in 0 .. MAX_TASKS - 1 /\ k \in 0 .. MAX_TASKS - 1
      /\ next_rr_index \in 0 .. MAX_TASKS - 1
  BY TableAssumption, Zenon DEF Slots
<1>2. /\ Distance(i) = IF i >= next_rr_index THEN i - next_rr_index
                       ELSE i - next_rr_index + MAX_TASKS
      /\ Distance(k) = IF k >= next_rr_index THEN k - next_rr_index
                       ELSE k - next_rr_index + MAX_TASKS
  BY ScanDistance, Zenon
<1>3. next_rr_index' = IF k + 1 < MAX_TASKS THEN k + 1 ELSE 0
  <2>1. CASE k + 1 < MAX_TASKS
    BY <1>1, <2>1, Wraps
  <2>2. CASE k + 1 = MAX_TASKS
    BY <1>1, <2>2, Wraps
  <2>. QED
    BY <1>1, <2>1, <2>2
<1>4. Distance(i)' = (i - next_rr_index') % MAX_TASKS
  BY Zenon DEF Distance
<1>5. Distance(i)' = IF i >= next_rr_index' THEN i - next_rr_index'
                     ELSE i - next_rr_index' + MAX_TASKS
  <2>1. next_rr_index' \in 0 .. MAX_TASKS - 1
    BY <1>1, <1>3
  <2>2. CASE i >= next_rr_index'
    BY <1>1, <1>4, <2>1, <2>2, Wraps
  <2>3. CASE i < next_rr_index'
    BY <1>1, <1>4, <2>1, <2>3, Wraps
  <2>. QED
    BY <1>1, <2>1, <2>2, <2>3
<1>. QED
  BY <1>1, <1>2, <1>3, <1>5

\* Only a step answers "step".
LEMMA OnlyStepSteps ==
  ASSUME Next, result'.call = "step"
  PROVE  step
<1>1. CASE ReadTicks
  BY <1>1, Zenon DEF ReadTicks, Ok
<1>2. ASSUME NEW aKind \in TaskKind, spawn(aKind) PROVE FALSE
  <2>1. result' = Err("spawn", "task table full") \/ result' = Ok("spawn", next_id)
    BY <1>2, Zenon DEF spawn
  <2>2. CASE result' = Err("spawn", "task table full")
    BY <2>2, Zenon DEF Err
  <2>3. CASE result' = Ok("spawn", next_id)
    BY <2>3, Zenon DEF Ok
  <2>. QED
    BY <2>1, <2>2, <2>3, Zenon
<1>3. ASSUME NEW call, NEW id, NEW refusal, NEW contents,
             Edit(call, id, refusal, contents)
      PROVE  result'.call = call
  BY <1>3 DEF Edit, Ok, Err
<1>4. ASSUME NEW id \in Ids, NEW n \in SleepArgs, sleep(id, n) PROVE FALSE
  <2>1. CASE result' = Err("sleep", "sleep ticks must be > 0")
    BY <2>1, Zenon DEF Err
  <2>. QED
    BY <1>3, <1>4, <2>1, Zenon DEF sleep
<1>5. ASSUME NEW id \in Ids, wake(id) PROVE FALSE
  BY <1>3, <1>5, Zenon DEF wake
<1>6. ASSUME NEW id \in Ids, remove(id) PROVE FALSE
  BY <1>3, <1>6, Zenon DEF remove
<1>7. ASSUME NEW id \in Ids, NEW p \in PriorityArgs, set_priority(id, p) PROVE FALSE
  BY <1>3, <1>7, Zenon DEF set_priority
<1>. QED
  BY <1>1, <1>2, <1>4, <1>5, <1>6, <1>7, Zenon DEF Next

\* What may run is what the sweep leaves ready.
LEMMA RunnableIsReady ==
  ASSUME IInv, NEW i \in Slots
  PROVE  Runnable(i) <=> i \in ready(Swept)
<1>1. CASE Overdue(i)
  <2>1. Swept[i] # None /\ Swept[i].state = "Ready"
    BY <1>1, SweptSlot, Zenon
  <2>. QED
    BY <1>1, <2>1, Zenon DEF Runnable, ready
<1>2. CASE ~ Overdue(i)
  <2>1. Swept[i] = slots[i]
    BY <1>2, SweptSlot, Zenon
  <2>. QED
    BY <1>2, <2>1, Zenon DEF Runnable, ready
<1>. QED
  BY <1>1, <1>2, Zenon

\* A step runs a task of the highest priority among those that may run, and
\* the pointer moves towards all the others of that priority.
LEMMA StepFair ==
  ASSUME IInv, step
  PROVE  StepRunsTopPriority /\ PassedOverGetsNearer
<1>1. CASE ready(Swept) = {} /\ result' = Err("step", "no ready task")
  <2>1. result'.id = None
    BY <1>1, Zenon DEF Err
  <2>. QED
    BY <1>1, <2>1, RunnableIsReady, Zenon DEF StepRunsTopPriority, PassedOverGetsNearer
<1>2. ASSUME NEW offset \in Slots, StepRuns(offset)
      PROVE  StepRunsTopPriority /\ PassedOverGetsNearer
  <2>. DEFINE k == scan(offset)
  <2>1. /\ k \in Slots /\ Swept[k] # None
        /\ k \in candidates(Swept)
        /\ \A o \in 0 .. offset - 1 : scan(o) \notin candidates(Swept)
        /\ next_rr_index' = (k + 1) % MAX_TASKS
        /\ result' = Ok("step", Swept[k].id)
    BY <1>2, Zenon DEF StepRuns
  <2>2. slots[k].id = Swept[k].id /\ Swept[k].id \in 1 .. U64_MAX
    BY <2>1, SweptSlot, Zenon
  <2>3. result'.id = slots[k].id /\ result'.id # None
    BY <2>1, <2>2, NoneAssumption DEF Ok
  <2>. HIDE DEF k
  <2>4. StepRunsTopPriority
    <3>1. k \in ready(Swept) /\ Runnable(k)
      BY <2>1, RunnableIsReady, Zenon DEF candidates
    <3>2. ASSUME NEW j \in Slots, Runnable(j)
          PROVE  slots[j].priority <= slots[k].priority
      <4>1. j \in ready(Swept)
        BY <3>2, RunnableIsReady, Zenon
      <4>2. Swept[j].priority <= Swept[k].priority
        BY <2>1, <4>1, Zenon DEF candidates
      <4>3. Swept[j] # None
        BY <4>1, Zenon DEF ready
      <4>. QED
        BY <2>1, <4>2, <4>3, SweptSlot, Zenon
    <3>. QED
      BY <2>1, <2>3, <3>1, <3>2, Zenon DEF StepRunsTopPriority
  <2>5. ASSUME NEW i \in candidates(Swept), slots[i].id # result'.id
        PROVE  Distance(i)' < Distance(i)
    <3>1. i \in Slots /\ i # k
      BY <2>3, <2>5, Zenon DEF candidates, ready
    <3>2. next_rr_index \in Slots
      BY Zenon DEF IInv, TypeOK
    <3>3. Distance(i) \in Slots /\ scan(Distance(i)) = i
      BY <3>1, <3>2, ScanDistance, Zenon
    <3>4. Distance(i) >= offset /\ Distance(i) # offset
      BY <2>1, <2>5, <3>1, <3>3, TableAssumption DEF Slots, k
    <3>5. Distance(k) = offset
      <4>1. MAX_TASKS \in Nat \ {0} /\ offset \in 0 .. MAX_TASKS - 1
            /\ next_rr_index \in 0 .. MAX_TASKS - 1
        BY <3>2, TableAssumption, Zenon DEF Slots
      <4>2. k = IF next_rr_index + offset < MAX_TASKS THEN next_rr_index + offset
                ELSE next_rr_index + offset - MAX_TASKS
        BY <4>1, Wraps DEF k, scan
      <4>3. Distance(k) = IF k >= next_rr_index THEN k - next_rr_index
                          ELSE k - next_rr_index + MAX_TASKS
        BY <2>1, <3>2, ScanDistance, Zenon
      <4>. QED
        BY <4>1, <4>2, <4>3
    <3>6. Distance(k) < Distance(i)
      BY <3>3, <3>4, <3>5, TableAssumption DEF Slots
    <3>. QED
      BY <2>1, <3>1, <3>2, <3>6, Nearer, Zenon
  <2>. QED
    BY <2>4, <2>5, Zenon DEF PassedOverGetsNearer, Swept
<1>. QED
  BY <1>1, <1>2, StepCases, Zenon

\* step serves the highest priority first and every task of that priority in
\* turn: whoever is passed over gets nearer with each step.
THEOREM StepServesInTurn == Spec => StepIsFair
<1>1. ASSUME IInv, [Next]_vars
      PROVE  [StepRunsTopPriority /\ PassedOverGetsNearer]_vars
  <2>1. CASE Next /\ result'.call = "step"
    BY <1>1, <2>1, OnlyStepSteps, StepFair, Zenon
  <2>2. CASE result'.call # "step"
    BY <2>2, Zenon DEF StepRunsTopPriority, PassedOverGetsNearer
  <2>. QED
    BY <1>1, <2>1, <2>2, Zenon
<1>. QED
  BY <1>1, Invariance, PTL DEF Spec, StepIsFair

-----------------------------------------------------------------------------
(* The loop of the monitor. *)

\* Why the window is quiet: the deadline always belongs to the last event, and
\* the loop judges it by a tick that is not ahead of the clock.
Windowed ==
  /\ now_ticks \in Nat /\ now_tick \in Nat /\ last_event \in Nat
  /\ now_tick <= now_ticks
  /\ deadline = plus(last_event, INPUT_WINDOW_TICKS)
  /\ WindowIsQuiet

\* Why one session is all: only an enabled taskauto steps tasks, and from the
\* session it begins until the next event it is disabled.
Attended ==
  /\ auto.enabled \in BOOLEAN
  /\ unattended \in {0, 1}
  /\ unattended = 1 => ~ auto.enabled \/ pc \in {"ring3", "dead"}
  /\ (caller = "auto" /\ pc \in {"step", "payload"}) => auto.enabled

\* Why automatic steps are spaced: the next one is planned from the last.
Planned ==
  /\ auto \in [enabled : BOOLEAN, interval_ticks : Nat, next_run_tick : Nat]
  /\ auto_since \in Nat
  /\ auto.enabled => auto.next_run_tick = plus(auto_since, auto.interval_ticks)

MonitorInv == Windowed /\ Attended /\ Planned

\* The deadline arithmetic of input_loop stays in the naturals.
LEMMA Plus == \A a, b \in Nat : plus(a, b) \in Nat
  BY HorizonAssumption DEF plus, saturating_add

\* No command that edits the task table touches the clock.
LEMMA CommandsKeepTime == TaskCommand => now_ticks' = now_ticks
  BY Zenon DEF TaskCommand, spawn, sleep, wake, remove, set_priority, Edit

LEMMA StepKeepsTime == step => now_ticks' = now_ticks
  BY Zenon DEF step

LEMMA InitMonitorInv == MonitorInit => MonitorInv
  <1> SUFFICES ASSUME MonitorInit PROVE MonitorInv
    BY Zenon
  <1>1. now_ticks = 0
    BY Zenon DEF MonitorInit, Init
  <1>2. Windowed
    BY <1>1, MonitorAssumption DEF MonitorInit, Windowed, WindowIsQuiet, plus, saturating_add
  <1>3. Attended /\ Planned
    BY MonitorAssumption, Zenon DEF MonitorInit, Attended, Planned, SchedulerAutoMode
  <1> QED
    BY <1>2, <1>3, Zenon DEF MonitorInv

\* Every step keeps the deadline with the last event and the loop's tick behind
\* the clock.
LEMMA WindowedNext == Windowed /\ [MonitorNext]_monitorVars => Windowed'
  <1> SUFFICES ASSUME Windowed, [MonitorNext]_monitorVars PROVE Windowed'
    BY Zenon
  <1> USE MonitorAssumption, Plus DEF Windowed, WindowIsQuiet
  <1>1. ASSUME Event, now_ticks' = now_ticks,
               pc' \in {"drain", "step", "ring3", "exited"}
        PROVE  Windowed'
    BY <1>1, Zenon DEF Event
  <1>2. CASE Tick
    BY <1>2 DEF Tick, window, stepper, ReadTicks
  <1>3. CASE KeyboardInterrupt
    BY <1>3, Zenon DEF KeyboardInterrupt, window, vars
  <1>4. CASE Command
    <2>1. CASE TaskCommand
      BY <2>1, <1>1, CommandsKeepTime, Zenon DEF TaskCommand, Event
    <2>2. CASE OtherKey \/ Exit \/ taskstep \/ taskauto_off
      BY <2>2, <1>1, Zenon DEF OtherKey, Exit, taskstep, taskauto_off, Event, vars
    <2>3. CASE \E steps \in StepArgs : taskrun(steps)
      BY <2>3, <1>1, Zenon DEF taskrun, Event, vars
    <2>4. CASE \E interval \in IntervalArgs : taskauto_on(interval)
      BY <2>4, <1>1, Zenon DEF taskauto_on, Event, vars
    <2>5. CASE \E k \in FastKinds \cup {KernelMonitor} : usermode(k)
      BY <2>5, <1>1, Zenon DEF usermode, Event, vars
    <2> QED
      BY <1>4, <2>1, <2>2, <2>3, <2>4, <2>5, Zenon DEF Command
  <1>5. CASE Loop
    BY <1>5 DEF Loop, ReadNow, maybe_run, CheckDeadline, EndWindow, vars, window
  <1>6. CASE run_task_step
    BY <1>6, StepKeepsTime, Zenon DEF run_task_step, window, Continue
  <1>7. CASE run_task_payload
    <2>1. pc' # "closed"
      BY <1>7, Zenon DEF run_task_payload, Continue
    <2> QED
      BY <1>7, <2>1, Zenon DEF run_task_payload, vars, window
  <1>8. CASE resume_monitor_after_usermode_exit
    BY <1>8 DEF resume_monitor_after_usermode_exit, vars
  <1>10. CASE LoseMachine
    BY <1>10, Zenon DEF LoseMachine, vars, window
  <1>9. CASE UNCHANGED monitorVars
    BY <1>9, Zenon DEF monitorVars, vars, window
  <1> QED
    BY <1>2, <1>3, <1>4, <1>5, <1>6, <1>7, <1>8, <1>9, <1>10, Zenon DEF MonitorNext, Run

\* taskauto is disabled from its session to the next event.
LEMMA AttendedNext == Attended /\ Planned /\ [MonitorNext]_monitorVars => Attended'
  <1> SUFFICES ASSUME Attended, Planned, [MonitorNext]_monitorVars PROVE Attended'
    BY Zenon
  <1> USE DEF Attended, Planned
  <1>2. CASE Tick \/ KeyboardInterrupt
    BY <1>2 DEF Tick, KeyboardInterrupt, autos, stepper
  <1>4. CASE Command
    <2>1. CASE TaskCommand
      BY <2>1, Zenon DEF TaskCommand, Event, stepper
    <2>2. CASE OtherKey \/ Exit \/ taskstep \/ taskauto_off
      BY <2>2, Zenon DEF OtherKey, Exit, taskstep, taskauto_off, Event, stepper
    <2>3. CASE \E steps \in StepArgs : taskrun(steps)
      BY <2>3, Zenon DEF taskrun, Event
    <2>4. CASE \E interval \in IntervalArgs : taskauto_on(interval)
      BY <2>4 DEF taskauto_on, Event, stepper
    <2>5. CASE \E k \in FastKinds \cup {KernelMonitor} : usermode(k)
      BY <2>5, Zenon DEF usermode, Event
    <2> QED
      BY <1>4, <2>1, <2>2, <2>3, <2>4, <2>5, Zenon DEF Command
  <1>5. CASE Loop
    BY <1>5, Zenon DEF Loop, ReadNow, maybe_run, CheckDeadline, EndWindow, autos, stepper
  <1>6. CASE run_task_step
    BY <1>6, Zenon DEF run_task_step, autos, Continue, NoStepper
  <1>7. CASE run_task_payload
    <2>1. CASE kind \in FastKinds /\ context
      BY <1>7, <2>1 DEF run_task_payload, stepper
    <2>2. CASE ~(kind \in FastKinds /\ context)
      <3>1. /\ unattended' = unattended /\ auto' = auto
            /\ pc' # "step" => pc' \in {"deadline", "drain"}
            /\ pc' = "step" => caller' = "taskrun"
        BY <1>7, <2>2, Zenon DEF run_task_payload, Continue
      <3> QED
        BY <1>7, <3>1, Zenon DEF run_task_payload
    <2> QED
      BY <2>1, <2>2, Zenon
  <1>8. CASE resume_monitor_after_usermode_exit
    BY <1>8, Zenon DEF resume_monitor_after_usermode_exit, NoStepper, SchedulerAutoMode
  <1>10. CASE LoseMachine
    BY <1>10, Zenon DEF LoseMachine, autos, stepper
  <1>9. CASE UNCHANGED monitorVars
    BY <1>9, Zenon DEF monitorVars, autos, stepper
  <1> QED
    BY <1>2, <1>4, <1>5, <1>6, <1>7, <1>8, <1>9, <1>10, Zenon DEF MonitorNext, Run

\* The plan of taskauto is renewed whenever it is enabled or steps.
LEMMA PlannedNext == Windowed /\ Planned /\ [MonitorNext]_monitorVars => Planned'
  <1> SUFFICES ASSUME Windowed, Planned, [MonitorNext]_monitorVars PROVE Planned'
    BY Zenon
  <1> USE MonitorAssumption, Plus DEF Windowed, Planned
  <1>1. ASSUME auto' = auto, auto_since' = auto_since PROVE Planned'
    BY <1>1, Zenon
  <1>2. CASE Tick \/ KeyboardInterrupt \/ run_task_step \/ run_task_payload \/ LoseMachine
    BY <1>1, <1>2, Zenon DEF Tick, KeyboardInterrupt, run_task_step, run_task_payload,
                      LoseMachine, autos
  <1>4. CASE Command
    <2>1. CASE TaskCommand \/ OtherKey \/ Exit \/ taskstep
      BY <1>1, <2>1, Zenon DEF TaskCommand, OtherKey, Exit, taskstep
    <2>2. CASE taskauto_off
      BY <2>2, Zenon DEF taskauto_off
    <2>3. CASE \E steps \in StepArgs : taskrun(steps)
      BY <1>1, <2>3, Zenon DEF taskrun
    <2>4. CASE \E interval \in IntervalArgs : taskauto_on(interval)
      BY <2>4 DEF taskauto_on
    <2>5. CASE \E k \in FastKinds \cup {KernelMonitor} : usermode(k)
      BY <1>1, <2>5, Zenon DEF usermode
    <2> QED
      BY <1>4, <2>1, <2>2, <2>3, <2>4, <2>5, Zenon DEF Command
  <1>5. CASE ReadNow \/ CheckDeadline \/ EndWindow
    BY <1>1, <1>5, Zenon DEF ReadNow, CheckDeadline, EndWindow, autos
  <1>6. CASE maybe_run
    BY <1>6 DEF maybe_run, autos
  <1>8. CASE resume_monitor_after_usermode_exit
    BY <1>8, Zenon DEF resume_monitor_after_usermode_exit, SchedulerAutoMode
  <1>9. CASE UNCHANGED monitorVars
    BY <1>1, <1>9, Zenon DEF monitorVars, autos
  <1> QED
    BY <1>2, <1>4, <1>5, <1>6, <1>8, <1>9, Zenon DEF MonitorNext, Run, Loop

\* The invariant of the monitor, from the first input_loop on.
THEOREM MonitorInvariance == MonitorSpec => []MonitorInv
  <1>1. MonitorInv /\ [MonitorNext]_monitorVars => MonitorInv'
    BY WindowedNext, AttendedNext, PlannedNext, Zenon DEF MonitorInv
  <1> QED
    BY InitMonitorInv, <1>1, PTL DEF MonitorSpec

\* input_loop closes its window only after INPUT_WINDOW_TICKS without an event,
\* for any window, any table and any order of events, steps and sessions.
THEOREM QuietWindow == MonitorSpec => []WindowIsQuiet
  <1>1. MonitorInv => WindowIsQuiet
    BY Zenon DEF MonitorInv, Windowed
  <1> QED
    BY MonitorInvariance, <1>1, PTL

\* Between two events taskauto enters ring 3 at most once, whatever tasks there
\* are: resume_monitor_after_usermode_exit leaves it disabled.
THEOREM OneSession == MonitorSpec => []OneUnattendedSession
  <1>1. MonitorInv => OneUnattendedSession
    BY DEF MonitorInv, Attended, OneUnattendedSession
  <1> QED
    BY MonitorInvariance, <1>1, PTL

\* maybe_run steps a task no sooner than its interval after the last step or
\* after taskauto was enabled, for any intervals.
THEOREM SpacedSteps == MonitorSpec => AutoStepsAreSpaced
  <1> DEFINE Spaced == (caller' = "auto" /\ pc' = "step" /\ pc # "step") =>
                          now_tick >= plus(auto_since, auto.interval_ticks)
  <1>1. MonitorInv /\ [MonitorNext]_monitorVars => Spaced \/ UNCHANGED monitorVars
    <2> SUFFICES ASSUME MonitorInv, MonitorNext, caller' = "auto", pc' = "step", pc # "step"
                 PROVE  now_tick >= plus(auto_since, auto.interval_ticks)
      BY Zenon
    <2>1. CASE Tick \/ KeyboardInterrupt
      BY <2>1, Zenon DEF Tick, KeyboardInterrupt
    <2>2. CASE Command
      BY <2>2, Zenon DEF Command, OtherKey, Exit, TaskCommand, taskstep, taskrun, taskauto_on,
                  taskauto_off, usermode, Event
    <2>3. CASE ReadNow \/ CheckDeadline \/ EndWindow
      BY <2>3, Zenon DEF ReadNow, CheckDeadline, EndWindow
    <2>4. CASE maybe_run
      BY <2>4, Zenon DEF maybe_run, MonitorInv, Planned, autos, stepper
    <2>5. CASE run_task_step
      BY <2>5, Zenon DEF run_task_step
    <2>6. CASE run_task_payload
      BY <2>6, Zenon DEF run_task_payload, Continue
    <2>7. CASE resume_monitor_after_usermode_exit \/ LoseMachine
      BY <2>7, Zenon DEF resume_monitor_after_usermode_exit, LoseMachine
    <2> QED
      BY <2>1, <2>2, <2>3, <2>4, <2>5, <2>6, <2>7, Zenon DEF MonitorNext, Loop, Run
  <1>2. [][Spaced]_monitorVars => AutoStepsAreSpaced
    BY Zenon DEF AutoStepsAreSpaced
  <1> QED
    BY MonitorInvariance, <1>1, <1>2, PTL DEF MonitorSpec

\* A step of the monitor is one whole call of the scheduler, or none.
LEMMA TableStep == [MonitorNext]_monitorVars => [Next]_vars
  <1> SUFFICES ASSUME [MonitorNext]_monitorVars PROVE Next \/ UNCHANGED vars
    BY Zenon
  <1>2. CASE Tick
    BY <1>2, Zenon DEF Tick, Next
  <1>3. CASE TaskCommand
    BY <1>3, Zenon DEF TaskCommand, Next
  <1>4. CASE run_task_step
    BY <1>4, Zenon DEF run_task_step, Next
  <1>5. CASE OtherKey \/ Exit \/ taskstep \/ taskauto_off
    BY <1>5, Zenon DEF OtherKey, Exit, taskstep, taskauto_off
  <1>6. CASE \E steps \in StepArgs : taskrun(steps)
    BY <1>6, Zenon DEF taskrun
  <1>7. CASE \E interval \in IntervalArgs : taskauto_on(interval)
    BY <1>7, Zenon DEF taskauto_on
  <1>8. CASE \E k \in FastKinds \cup {KernelMonitor} : usermode(k)
    BY <1>8, Zenon DEF usermode
  <1>9. CASE KeyboardInterrupt \/ Loop
    BY <1>9, Zenon DEF KeyboardInterrupt, Loop, ReadNow, maybe_run, CheckDeadline, EndWindow
  <1>10. CASE run_task_payload \/ resume_monitor_after_usermode_exit \/ LoseMachine
    BY <1>10, Zenon DEF run_task_payload, resume_monitor_after_usermode_exit, LoseMachine
  <1>11. CASE UNCHANGED monitorVars
    BY <1>11, Zenon DEF monitorVars
  <1> QED
    BY <1>2, <1>3, <1>4, <1>5, <1>6, <1>7, <1>8, <1>9, <1>10, <1>11, ZenonT(60)
       DEF MonitorNext, Command, Run

\* Sessions abandon the calls that were stepping a task, and the scheduler of
\* task.rs does not notice: the monitor implements the task table.
THEOREM SchedulerUnharmed == MonitorSpec => SchedulerSurvives
  <1>1. MonitorInit => Init
    BY Zenon DEF MonitorInit
  <1> QED
    BY <1>1, TableStep, PTL DEF MonitorSpec, SchedulerSurvives, Spec

\* What the scheduler promises holds of the table while the monitor drives it,
\* with automatic steps and sessions that never return to their caller: ids are
\* unique and the bootstrap task stays, sleepers wake on time, calls touch no
\* bystander, and steps are served in turn.
THEOREM TableUnderTheMonitor ==
  MonitorSpec => []TableIsSound /\ WakesAreOnTime /\ CallsAreLocal /\ StepIsFair
  <1>1. MonitorSpec => Spec
    BY SchedulerUnharmed, Zenon DEF SchedulerSurvives
  <1> QED
    BY <1>1, TableStaysSound, NoTaskWakesEarlyOrLate, NoCallTouchesBystanders, StepServesInTurn, PTL
===============================================================================
