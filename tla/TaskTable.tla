------------------------------ MODULE TaskTable ------------------------------
(***************************************************************************)
(* The cooperative scheduler of kernel/src/task.rs: a table of MAX_TASKS   *)
(* slots, a counter that hands out task ids, and a round-robin pointer     *)
(* shared by all priority classes.  Every public function takes the        *)
(* TASK_TABLE lock for the whole call, so each is one atomic action here.  *)
(*                                                                         *)
(* The tick count a call is given (interrupts::ticks()) is read before the *)
(* lock is taken, so it may be older than the clock; `now_ticks` is the    *)
(* last value the calling thread read and only grows.                      *)
(***************************************************************************)
EXTENDS Integers, FiniteSets

CONSTANTS
  MAX_TASKS,              \* slots of the table
  DEFAULT_TASK_PRIORITY,
  U8_MAX,                 \* u8::MAX, the highest priority
  U64_MAX,                \* u64::MAX for ids and ticks
  RUN_COUNT_MAX,          \* u64::MAX for run_count, apart so that a small
                          \* instance can saturate it alone
  TaskKind,               \* what a task runs when it is stepped
  KernelMonitor,          \* the kind of the bootstrap task
  None,
  TickHorizon,            \* bound: the clock stops here
  IdHorizon,              \* bound: no spawn once next_id has got here
  SleepArgs,              \* ticks a caller asks a task to sleep
  PriorityArgs            \* priorities as typed, before the clamp to u8

Slots     == 0 .. MAX_TASKS - 1
TaskState == {"Ready", "Running", "Sleeping"}
TaskInfo  ==
  [id : 1 .. U64_MAX, kind : TaskKind, state : TaskState,
   run_count : 0 .. RUN_COUNT_MAX, priority : 0 .. U8_MAX,
   sleep_until_tick : (0 .. U64_MAX) \cup {None}]
Ids       == 1 .. IdHorizon
Calls     == {"ticks", "spawn", "step", "sleep", "wake", "remove", "set_priority"}
Errors    ==
  {"task table full", "no ready task", "sleep ticks must be > 0",
   "task not found", "task is running", "task is not sleeping",
   "cannot remove bootstrap task"}

ASSUME TableAssumption ==
  /\ MAX_TASKS \in Nat \ {0}
  /\ U8_MAX \in Nat
  /\ DEFAULT_TASK_PRIORITY \in 0 .. U8_MAX
  /\ KernelMonitor \in TaskKind

\* The machine is switched off long before a 64-bit counter runs out of ids
\* or of ticks; the sleep times a user types reach u64::MAX all the same.
ASSUME HorizonAssumption ==
  /\ U64_MAX \in Nat
  /\ RUN_COUNT_MAX \in Nat
  /\ TickHorizon \in Nat /\ TickHorizon < U64_MAX
  /\ IdHorizon \in 2 .. U64_MAX
  /\ SleepArgs \subseteq 0 .. U64_MAX
  /\ PriorityArgs \subseteq Nat

ASSUME NoneAssumption ==
  None \notin TaskInfo /\ None \notin Int /\ None \notin Errors

VARIABLES
  slots,           \* TaskTable.slots
  next_id,         \* TaskTable.next_id
  next_rr_index,   \* TaskTable.next_rr_index
  now_ticks,       \* the tick count the caller last read
  result           \* the last call and what it returned

vars == <<slots, next_id, next_rr_index, now_ticks, result>>

Ok(call, id) == [call |-> call, id |-> id, err |-> None]
Err(call, e) == [call |-> call, id |-> None, err |-> e]

-----------------------------------------------------------------------------
\* Mutants (here and below, named after what they get wrong).
saturating_add_Wrapping(a, b, max) == (a + b) % (max + 1)

saturating_add(a, b, max) == IF a + b > max THEN max ELSE a + b

\* A task as spawn and ensure_bootstrap_task create it.
NewTask(id, kind) ==
  [id |-> id, kind |-> kind, state |-> "Ready", run_count |-> 0,
   priority |-> DEFAULT_TASK_PRIORITY, sleep_until_tick |-> None]

Due(task, now) ==
  /\ task # None
  /\ task.state = "Sleeping"
  /\ task.sleep_until_tick # None
  /\ now >= task.sleep_until_tick

Awake(task) == [task EXCEPT !.state = "Ready", !.sleep_until_tick = None]

wake_due_Skipped(table, now) == table

wake_due(table, now) ==
  [i \in Slots |-> IF Due(table[i], now) THEN Awake(table[i]) ELSE table[i]]

\* The slots holding the id, and the one a loop over the table stops at.
Holding(table, id) == {i \in Slots : table[i] # None /\ table[i].id = id}
First(S)           == CHOOSE i \in S : \A j \in S : i <= j
Find(table, id)    == First(Holding(table, id))

\* The refusals common to sleep, wake, remove and set_priority.
LookupError(table, id) ==
  IF Holding(table, id) = {} THEN "task not found"
  ELSE IF table[Find(table, id)].state = "Running" THEN "task is running"
  ELSE None

-----------------------------------------------------------------------------
\* The table after TaskTable::new() and init().
Init ==
  /\ slots = [i \in Slots |-> IF i = 0 THEN NewTask(1, KernelMonitor) ELSE None]
  /\ next_id = 2
  /\ next_rr_index = 0
  /\ now_ticks = 0
  /\ result = Ok("ticks", None)

\* The caller reads the clock again: any later value, or the same one.
ReadTicks ==
  /\ now_ticks' \in now_ticks .. TickHorizon
  /\ result' = Ok("ticks", None)
  /\ UNCHANGED <<slots, next_id, next_rr_index>>

\* The id is the number of live tasks.
spawn_CountsTasks(kind) ==
  LET free == {i \in Slots : slots[i] = None}
      id   == Cardinality(Slots \ free) + 1
  IN
  /\ free # {}
  /\ next_id < IdHorizon
  /\ slots' = [slots EXCEPT ![First(free)] = NewTask(id, kind)]
  /\ next_id' = saturating_add(next_id, 1, U64_MAX)
  /\ result' = Ok("spawn", id)
  /\ UNCHANGED <<next_rr_index, now_ticks>>

spawn(kind) ==
  LET free == {i \in Slots : slots[i] = None} IN
  /\ \/ /\ free = {}
        /\ result' = Err("spawn", "task table full")
        /\ UNCHANGED <<slots, next_id>>
     \/ /\ free # {}
        /\ next_id < IdHorizon
        /\ slots' = [slots EXCEPT ![First(free)] = NewTask(next_id, kind)]
        /\ next_id' = saturating_add(next_id, 1, U64_MAX)
        /\ result' = Ok("spawn", next_id)
  /\ UNCHANGED <<next_rr_index, now_ticks>>

ready(table) == {i \in Slots : table[i] # None /\ table[i].state = "Ready"}

\* The ready slots whose priority is selected_priority, the highest of all.
candidates(table) ==
  {i \in ready(table) :
     \A j \in ready(table) : table[j].priority <= table[i].priority}

scan_FromZero(offset) == offset

scan(offset) == (next_rr_index + offset) % MAX_TASKS

\* A task is Running only inside the call that steps it.
run(task) ==
  LET running == [task EXCEPT
                    !.state = "Running",
                    !.run_count = saturating_add(@, 1, RUN_COUNT_MAX),
                    !.sleep_until_tick = None]
  IN  [running EXCEPT !.state = "Ready", !.sleep_until_tick = None]

step ==
  LET woken == wake_due(slots, now_ticks) IN
  /\ \/ /\ ready(woken) = {}
        /\ slots' = woken
        /\ result' = Err("step", "no ready task")
        /\ UNCHANGED next_rr_index
     \/ \E offset \in Slots :
          /\ scan(offset) \in candidates(woken)
          /\ \A o \in 0 .. offset - 1 : scan(o) \notin candidates(woken)
          /\ next_rr_index' = (scan(offset) + 1) % MAX_TASKS
          /\ slots' = [woken EXCEPT ![scan(offset)] = run(woken[scan(offset)])]
          /\ result' = Ok("step", woken[scan(offset)].id)
  /\ UNCHANGED <<next_id, now_ticks>>

\* The shape of sleep, wake, remove and set_priority: sweep the table, then
\* refuse, or give the slot that holds the id its new contents.
Edit(call, id, refusal, contents) ==
  LET woken == wake_due(slots, now_ticks) IN
  /\ \/ /\ refusal # None
        /\ slots' = woken
        /\ result' = Err(call, refusal)
     \/ /\ refusal = None
        /\ slots' = [woken EXCEPT ![Find(woken, id)] = contents]
        /\ result' = Ok(call, id)
  /\ UNCHANGED <<next_id, next_rr_index, now_ticks>>

\* The tasksleep command refuses 0 before it calls sleep, which refuses it
\* again; neither sweeps the table first.
sleep(id, sleep_ticks) ==
  LET woken == wake_due(slots, now_ticks) IN
  \/ /\ sleep_ticks = 0
     /\ result' = Err("sleep", "sleep ticks must be > 0")
     /\ UNCHANGED <<slots, next_id, next_rr_index, now_ticks>>
  \/ /\ sleep_ticks > 0
     /\ Edit("sleep", id, LookupError(woken, id),
             [woken[Find(woken, id)] EXCEPT
                !.state = "Sleeping",
                !.sleep_until_tick =
                  saturating_add(now_ticks, sleep_ticks, U64_MAX)])

wake(id) ==
  LET woken  == wake_due(slots, now_ticks)
      lookup == LookupError(woken, id)
  IN  Edit("wake", id,
           IF lookup = None /\ woken[Find(woken, id)].state # "Sleeping"
             THEN "task is not sleeping" ELSE lookup,
           Awake(woken[Find(woken, id)]))

\* The tasks behind the removed one move up.
remove_Compacts(id) ==
  /\ id # 1 /\ Holding(slots, id) # {}
  /\ slots' = [i \in Slots |->
                 CASE i < Find(slots, id)                        -> slots[i]
                   [] i >= Find(slots, id) /\ i < MAX_TASKS - 1 -> slots[i + 1]
                   [] OTHER                                      -> None]
  /\ result' = Ok("remove", id)
  /\ UNCHANGED <<next_id, next_rr_index, now_ticks>>

remove(id) ==
  LET woken == wake_due(slots, now_ticks)
  IN  Edit("remove", id,
           IF id = 1 THEN "cannot remove bootstrap task"
                     ELSE LookupError(woken, id),
           None)

\* taskprio clamps what was typed to a u8 before the call.
set_priority(id, priority_raw) ==
  LET woken == wake_due(slots, now_ticks)
  IN  Edit("set_priority", id, LookupError(woken, id),
           [woken[Find(woken, id)] EXCEPT
              !.priority = IF priority_raw > U8_MAX THEN U8_MAX ELSE priority_raw])

Next ==
  \/ ReadTicks
  \/ \E kind \in TaskKind : spawn(kind)
  \/ step
  \/ \E id \in Ids :
       \/ \E n \in SleepArgs : sleep(id, n)
       \/ wake(id)
       \/ remove(id)
       \/ \E p \in PriorityArgs : set_priority(id, p)

Spec == Init /\ [][Next]_vars

\* `taskauto on`: input_loop comes round after every timer tick and calls
\* maybe_run, so the clock goes on and step goes on being called.
AutoFairness ==
  /\ WF_vars(ReadTicks /\ now_ticks' = now_ticks + 1)
  /\ WF_vars(step)

FairSpec == Spec /\ AutoFairness

-----------------------------------------------------------------------------
snapshot ==
  LET in(state) == Cardinality({i \in Slots :
                                  slots[i] # None /\ slots[i].state = state})
  IN  [total    |-> Cardinality({i \in Slots : slots[i] # None}),
       ready    |-> in("Ready"),
       running  |-> in("Running"),
       sleeping |-> in("Sleeping"),
       capacity |-> MAX_TASKS,
       next_id  |-> next_id]

\* Every value has the type task.rs declares: counters saturate inside their
\* width, the round-robin pointer stays inside the table.
TypeOK ==
  /\ slots \in [Slots -> TaskInfo \cup {None}]
  /\ next_id \in 1 .. IdHorizon
  /\ next_rr_index \in Slots
  /\ now_ticks \in 0 .. TickHorizon
  /\ result \in [call : Calls, id : (1 .. U64_MAX) \cup {None}, err : Errors \cup {None}]

\* No two tasks have the same id and no task has an id still to be handed
\* out, whatever is removed and spawned again: the loops of sleep, wake,
\* remove and set_priority stop at the first match and rely on it.
UniqueIds ==
  \A i, j \in Slots :
    /\ slots[i] # None => slots[i].id < next_id
    /\ slots[i] # None /\ slots[j] # None /\ slots[i].id = slots[j].id => i = j

\* The bootstrap monitor task stays in slot 0 for good: remove refuses it and
\* no spawn finds its slot free.
BootstrapStays ==
  slots[0] # None /\ slots[0].id = 1 /\ slots[0].kind = KernelMonitor

\* A task sleeps exactly when it has a wake-up tick.  wake_due skips a sleeper
\* without one, which would then sleep until an explicit taskwake.
SleepersHaveDeadlines ==
  \A i \in Slots :
    slots[i] # None =>
      (slots[i].state = "Sleeping" <=> slots[i].sleep_until_tick # None)

\* No caller ever sees a Running task: the tasks command counts none and the
\* "task is running" refusals are never returned.
RunningIsInvisible ==
  snapshot.running = 0 /\ result.err # "task is running"

\* The table is sound after every call of task.rs: types, ids, the bootstrap
\* task, the deadlines of sleepers, and no task left Running.
TableIsSound ==
  /\ TypeOK
  /\ UniqueIds
  /\ BootstrapStays
  /\ SleepersHaveDeadlines
  /\ RunningIsInvisible

Sleeping(i) == slots[i] # None /\ slots[i].state = "Sleeping"
Overdue(i)  == Sleeping(i) /\ slots[i].sleep_until_tick <= now_ticks
Runnable(i) == (slots[i] # None /\ slots[i].state = "Ready") \/ Overdue(i)

\* A task that leaves the Sleeping state without being removed was due at the
\* tick the caller read, or was named by a taskwake.
NoEarlyWake ==
  \A i \in Slots :
    Sleeping(i) /\ ~ Sleeping(i)' /\ slots'[i] # None =>
      Overdue(i) \/ result' = Ok("wake", slots[i].id)

\* After any call that sweeps the table nothing is left asleep past its tick,
\* and the sleep just asked for lies in the future, even one of u64::MAX
\* ticks: now + ticks saturates instead of wrapping round to the past.
SweepLeavesNoOverdue ==
  result'.call \notin {"ticks", "spawn"} /\ result'.err # "sleep ticks must be > 0" =>
    \A i \in Slots : ~ Overdue(i)'

\* wake_due wakes a sleeper neither before its tick nor after a sweep that had
\* seen its tick.
WakesAreOnTime == [][NoEarlyWake /\ SweepLeavesNoOverdue]_vars

\* The task a step runs was ready or due, and no task that was ready or due
\* had a higher priority; a step that runs nothing had nothing to run.
StepRunsTopPriority ==
  result'.call = "step" =>
    IF result'.id = None
      THEN \A i \in Slots : ~ Runnable(i)
      ELSE \E i \in Slots :
             /\ Runnable(i)
             /\ slots[i].id = result'.id
             /\ \A j \in Slots :
                  Runnable(j) => slots[j].priority <= slots[i].priority

\* How far the scan of step is from slot i.
Distance(i) == (i - next_rr_index) % MAX_TASKS

\* Each step brings the scan strictly nearer to every other task of the class
\* it served, so a task that stays in the top class waits at most
\* MAX_TASKS - 1 steps.
PassedOverGetsNearer ==
  result'.call = "step" /\ result'.id # None =>
    \A i \in candidates(wake_due(slots, now_ticks)) :
      slots[i].id # result'.id => Distance(i)' < Distance(i)

\* step is fair: priorities first, round robin inside a class.
StepIsFair == [][StepRunsTopPriority /\ PassedOverGetsNearer]_vars

\* A call changes at most one task, apart from waking those that are due.
BystandersOnlyWake ==
  \E target \in Slots :
    \A i \in Slots \ {target} :
      \/ slots'[i] = slots[i]
      \/ Overdue(i) /\ slots'[i] = Awake(slots[i])

\* A task that appears in the table has an id no earlier task had, and a task
\* keeps its id and its kind for as long as it lives.
IdsNeverReused ==
  \A i \in Slots :
    slots'[i] # None =>
      IF slots[i] = None
        THEN slots'[i].id >= next_id /\ next_id' > slots'[i].id
        ELSE /\ slots'[i].id = slots[i].id
             /\ slots'[i].kind = slots[i].kind

\* A call of task.rs is local: no other task is touched except to be woken, and
\* no id ever changes hands.
CallsAreLocal == [][BystandersOnlyWake /\ IdsNeverReused]_vars

\* While step goes on being called, a task that stays ready in the top class
\* is run again and again.
TopTaskRuns ==
  \A i \in Slots :
    <>[](i \in candidates(slots)) =>
      []<>(slots[i] # None /\ result = Ok("step", slots[i].id))

\* While step goes on being called, a sleeper whose tick the clock reaches does
\* not stay asleep on that tick.
SleepersWake ==
  \A i \in Slots : \A t \in 0 .. TickHorizon :
    LET AsleepUntil == Sleeping(i) /\ slots[i].sleep_until_tick = t
    IN  AsleepUntil ~> ~ AsleepUntil
=============================================================================
