------------------------------- MODULE Monitor -------------------------------
(***************************************************************************)
(* The monitor of kernel/src/main.rs: input_loop with its window, the      *)
(* commands that drive the scheduler, taskauto (SchedulerAutoMode), and    *)
(* ring 3 sessions, over the task table of module TaskTable.               *)
(*                                                                         *)
(* A task of a fast-syscall kind leaves for ring 3 in the middle of the    *)
(* call that stepped it, and that call never returns: the exit interrupt   *)
(* starts a new input_loop, with a new window, taskauto off, and nothing   *)
(* of the interrupted command left.                                        *)
(*                                                                         *)
(* Of a session only the promise of module Session is kept here: it is     *)
(* refused, or comes back once, or loses the machine.  now_ticks is the    *)
(* clock; every call reads it where the code calls interrupts::ticks().    *)
(***************************************************************************)
EXTENDS TaskTable

CONSTANTS
  FastKinds,                 \* the task kinds whose payload enters ring 3
  INPUT_WINDOW_TICKS,
  DEFAULT_INTERVAL_TICKS,    \* of SchedulerAutoMode
  IntervalArgs,              \* intervals given to taskauto on
  StepArgs,                  \* steps given to taskrun, after its clamp
  InputHorizon               \* bound: nobody types after this tick

ASSUME MonitorAssumption ==
  /\ FastKinds \subseteq TaskKind \ {KernelMonitor}
  /\ INPUT_WINDOW_TICKS \in Nat \ {0} /\ DEFAULT_INTERVAL_TICKS \in Nat
  /\ IntervalArgs \subseteq Nat \ {0} /\ StepArgs \subseteq Nat \ {0}

VARIABLES
  pc,            \* where the thread is
  caller, left,  \* who is stepping a task, and how many steps are left
  kind,          \* the kind of the task being run
  now_tick,      \* input_loop's own copy of the clock
  deadline,
  auto,          \* SchedulerAutoMode
  context,       \* user memory was set up at boot
  sce,           \* boot enabled the syscall instruction
  last_event,    \* history: tick of the last event, or of the loop's start
  auto_since,    \* history: tick taskauto was enabled or last ran a step
  unattended     \* history: sessions taskauto began since the last event

stepper == <<caller, left, kind>>
window  == <<now_tick, deadline, last_event>>
autos   == <<auto, auto_since, unattended>>
boot    == <<context, sce>>
monitorVars == <<vars, stepper, window, autos, boot, pc>>

SchedulerAutoMode(now) ==
  [enabled |-> FALSE, interval_ticks |-> DEFAULT_INTERVAL_TICKS,
   next_run_tick |-> now]

plus(a, b) == saturating_add(a, b, U64_MAX)

-----------------------------------------------------------------------------
\* The first input_loop, at tick 0 for want of an earlier one.
MonitorInit ==
  /\ Init
  /\ pc = "drain" /\ caller = "none" /\ left = 0 /\ kind = None
  /\ now_tick = 0 /\ deadline = plus(0, INPUT_WINDOW_TICKS) /\ last_event = 0
  /\ auto = SchedulerAutoMode(0) /\ auto_since = 0 /\ unattended = 0
  /\ context \in BOOLEAN /\ sce \in BOOLEAN

\* Any interrupt ends a hlt; the timer's also moves the clock, up to the bound.
Tick ==
  /\ pc \notin {"exited", "dead"}
  /\ ReadTicks
  /\ now_ticks' = IF now_ticks < TickHorizon THEN now_ticks + 1 ELSE now_ticks
  /\ pc' = IF pc = "hlt" THEN "drain" ELSE pc
  /\ UNCHANGED <<stepper, window, autos, boot>>

KeyboardInterrupt ==
  /\ pc = "hlt" /\ now_ticks <= InputHorizon
  /\ pc' = "drain"
  /\ UNCHANGED <<vars, stepper, window, autos, boot>>

-----------------------------------------------------------------------------
(* One decoded event: the window is renewed, then the event is handled. *)

\* Mutants (here and below, named after what they get wrong).
Event_WindowNotRenewed ==
  /\ pc = "drain" /\ now_ticks <= InputHorizon
  /\ last_event' = now_ticks /\ unattended' = 0
  /\ UNCHANGED <<deadline, now_tick, boot>>

Event ==
  /\ pc = "drain" /\ now_ticks <= InputHorizon
  /\ deadline' = plus(now_ticks, INPUT_WINDOW_TICKS)
  /\ last_event' = now_ticks /\ unattended' = 0
  /\ UNCHANGED <<now_tick, boot>>

\* A key that edits the line, or a command that changes nothing here.
OtherKey ==
  /\ Event
  /\ UNCHANGED <<vars, stepper, auto, auto_since, pc>>

\* Escape, or the exit command.
Exit ==
  /\ Event
  /\ pc' = "exited"
  /\ UNCHANGED <<vars, stepper, auto, auto_since>>

\* tasknew, tasksleep, taskwake, taskrm, taskprio.
TaskCommand ==
  /\ Event
  /\ \/ \E k \in TaskKind : spawn(k)
     \/ \E id \in Ids :
          \/ \E n \in SleepArgs : sleep(id, n)
          \/ wake(id)
          \/ remove(id)
          \/ \E p \in PriorityArgs : set_priority(id, p)
  /\ UNCHANGED <<stepper, auto, auto_since, pc>>

taskstep ==
  /\ Event
  /\ caller' = "taskstep" /\ left' = 1 /\ pc' = "step"
  /\ UNCHANGED <<vars, kind, auto, auto_since>>

taskrun(steps) ==
  /\ Event
  /\ caller' = "taskrun" /\ left' = steps /\ pc' = "step"
  /\ UNCHANGED <<vars, kind, auto, auto_since>>

taskauto_on_StepsAtOnce(interval_ticks) ==
  /\ Event
  /\ auto' = [enabled |-> TRUE, interval_ticks |-> interval_ticks,
              next_run_tick |-> now_ticks]
  /\ auto_since' = now_ticks
  /\ UNCHANGED <<vars, stepper, pc>>

taskauto_on(interval_ticks) ==
  /\ Event
  /\ auto' = [enabled |-> TRUE, interval_ticks |-> interval_ticks,
              next_run_tick |-> plus(now_ticks, interval_ticks)]
  /\ auto_since' = now_ticks
  /\ UNCHANGED <<vars, stepper, pc>>

taskauto_off ==
  /\ Event
  /\ auto' = [auto EXCEPT !.enabled = FALSE]
  /\ UNCHANGED <<vars, stepper, auto_since, pc>>

\* usermode, usermode_syscall, usermode_syscall_fail: a launch, or a refusal.
\* KernelMonitor stands for the demo that does not use syscall.
usermode(k) ==
  /\ Event
  /\ IF context THEN pc' = "ring3" /\ kind' = k ELSE UNCHANGED <<pc, kind>>
  /\ UNCHANGED <<vars, caller, left, auto, auto_since>>

-----------------------------------------------------------------------------
(* Stepping a task. *)

\* No command is stepping tasks: its locals are gone.
NoStepper == caller' = "none" /\ left' = 0 /\ kind' = None

\* A step and its payload are done: back to whoever asked for it.
Continue(who, remaining) ==
  IF who = "taskrun" /\ remaining > 0
    THEN pc' = "step" /\ left' = remaining /\ kind' = None /\ UNCHANGED caller
    ELSE pc' = (IF who = "auto" THEN "deadline" ELSE "drain") /\ NoStepper

\* run_task_step_with_label_internal up to the payload; with no task to run,
\* taskrun breaks off.
run_task_step ==
  /\ pc = "step"
  /\ step
  /\ IF result'.id = None
       THEN Continue(caller, 0)
       ELSE /\ pc' = "payload"
            /\ left' = left - 1
            /\ kind' = slots[Find(slots, result'.id)].kind
            /\ UNCHANGED caller
  /\ UNCHANGED <<window, autos, boot>>

\* Kinds that stay in ring 0, and a session that is refused, return.
run_task_payload ==
  /\ pc = "payload"
  /\ IF kind \in FastKinds /\ context
       THEN /\ pc' = "ring3"
            /\ unattended' = IF caller = "auto" THEN unattended + 1 ELSE unattended
            /\ UNCHANGED stepper
       ELSE /\ Continue(caller, left)
            /\ UNCHANGED unattended
  /\ UNCHANGED <<vars, window, auto, auto_since, boot>>

resume_monitor_after_usermode_exit_KeepsAuto ==
  /\ pc = "ring3" /\ (kind \in FastKinds => sce)
  /\ pc' = "drain"
  /\ deadline' = plus(now_ticks, INPUT_WINDOW_TICKS)
  /\ last_event' = now_ticks /\ now_tick' = 0
  /\ NoStepper
  /\ UNCHANGED <<vars, autos, boot>>

resume_monitor_after_usermode_exit_NewTable ==
  /\ pc = "ring3" /\ (kind \in FastKinds => sce)
  /\ pc' = "drain"
  /\ slots' = [i \in Slots |-> IF i = 0 THEN slots[0] ELSE None]
  /\ deadline' = plus(now_ticks, INPUT_WINDOW_TICKS)
  /\ last_event' = now_ticks /\ now_tick' = 0
  /\ auto' = SchedulerAutoMode(now_ticks)
  /\ NoStepper
  /\ UNCHANGED <<next_id, next_rr_index, now_ticks, result, auto_since,
                 unattended, boot>>

\* The exit interrupt: a new input_loop, and so a new SchedulerAutoMode.
resume_monitor_after_usermode_exit ==
  /\ pc = "ring3" /\ (kind \in FastKinds => sce)
  /\ pc' = "drain"
  /\ deadline' = plus(now_ticks, INPUT_WINDOW_TICKS)
  /\ last_event' = now_ticks /\ now_tick' = 0
  /\ auto' = SchedulerAutoMode(now_ticks)
  /\ NoStepper
  /\ UNCHANGED <<vars, auto_since, unattended, boot>>

\* syscall where boot could not enable it.
LoseMachine ==
  /\ pc = "ring3" /\ kind \in FastKinds /\ ~ sce
  /\ pc' = "dead"
  /\ UNCHANGED <<vars, stepper, window, autos, boot>>

-----------------------------------------------------------------------------
(* The rest of an iteration of input_loop. *)

\* Nothing more from the keyboard or the serial line: read the clock once.
ReadNow ==
  /\ pc = "drain"
  /\ now_tick' = now_ticks
  /\ pc' = "auto"
  /\ UNCHANGED <<vars, stepper, deadline, last_event, autos, boot>>

maybe_run_ExactTick ==
  /\ pc = "auto"
  /\ IF ~ auto.enabled \/ now_tick # auto.next_run_tick
       THEN /\ pc' = "deadline"
            /\ UNCHANGED <<autos, stepper>>
       ELSE /\ auto' = [auto EXCEPT !.next_run_tick =
                                        plus(now_tick, auto.interval_ticks)]
            /\ auto_since' = now_tick
            /\ caller' = "auto" /\ left' = 1 /\ pc' = "step"
            /\ UNCHANGED <<kind, unattended>>
  /\ UNCHANGED <<vars, window, boot>>

maybe_run ==
  /\ pc = "auto"
  /\ \/ /\ ~ auto.enabled \/ now_tick < auto.next_run_tick
        /\ pc' = "deadline"
        /\ UNCHANGED <<autos, stepper>>
     \/ /\ auto.enabled /\ now_tick >= auto.next_run_tick
        /\ auto' = [auto EXCEPT !.next_run_tick =
                                   plus(now_tick, auto.interval_ticks)]
        /\ auto_since' = now_tick
        /\ caller' = "auto" /\ left' = 1 /\ pc' = "step"
        /\ UNCHANGED <<kind, unattended>>
  /\ UNCHANGED <<vars, window, boot>>

CheckDeadline_NotWhileAuto ==
  /\ pc = "deadline"
  /\ pc' = IF now_tick >= deadline /\ ~ auto.enabled THEN "closed" ELSE "hlt"
  /\ now_tick' = 0
  /\ UNCHANGED <<vars, stepper, deadline, last_event, autos, boot>>

CheckDeadline ==
  /\ pc = "deadline"
  /\ pc' = IF now_tick >= deadline THEN "closed" ELSE "hlt"
  /\ now_tick' = 0        \* out of scope
  /\ UNCHANGED <<vars, stepper, deadline, last_event, autos, boot>>

\* "Input window ended", and the machine is switched off.
EndWindow ==
  /\ pc = "closed"
  /\ pc' = "exited"
  /\ UNCHANGED <<vars, stepper, window, autos, boot>>

-----------------------------------------------------------------------------
Command ==
  \/ OtherKey \/ Exit
  \/ TaskCommand
  \/ taskstep
  \/ \E steps \in StepArgs : taskrun(steps)
  \/ \E interval \in IntervalArgs : taskauto_on(interval)
  \/ taskauto_off
  \/ \E k \in FastKinds \cup {KernelMonitor} : usermode(k)

Loop == ReadNow \/ maybe_run \/ CheckDeadline \/ EndWindow

Run == \/ run_task_step \/ run_task_payload
       \/ resume_monitor_after_usermode_exit \/ LoseMachine

MonitorNext == Tick \/ KeyboardInterrupt \/ Command \/ Loop \/ Run

MonitorSpec == MonitorInit /\ [][MonitorNext]_monitorVars

\* The clock runs and the thread executes.  The user may type for ever, but
\* slower than the loop: it finds its queues empty again and again.
MonitorFairSpec ==
  /\ MonitorSpec
  /\ WF_monitorVars(Tick) /\ WF_monitorVars(Loop) /\ WF_monitorVars(Run) /\ SF_monitorVars(ReadNow)

-----------------------------------------------------------------------------
(* Properties. *)

\* The table keeps its types under the monitor, and the ticks input_loop and
\* SchedulerAutoMode compute stay within a u64.
MonitorTypeOK ==
  /\ TypeOK
  /\ pc \in {"drain", "step", "payload", "ring3", "auto", "deadline", "hlt",
             "closed", "exited", "dead"}
  /\ caller \in {"none", "taskstep", "taskrun", "auto"}
  /\ left \in Nat /\ kind \in TaskKind \cup {None}
  /\ now_tick \in 0 .. TickHorizon /\ deadline \in 0 .. U64_MAX
  /\ last_event \in 0 .. TickHorizon /\ auto_since \in 0 .. TickHorizon
  /\ auto \in [enabled : BOOLEAN, interval_ticks : 0 .. U64_MAX,
               next_run_tick : 0 .. U64_MAX]
  /\ unattended \in Nat

\* The window closes only after INPUT_WINDOW_TICKS without an event, counted
\* from the last event or from the return of the last session, also when the
\* closing iteration itself stepped a task.
WindowIsQuiet ==
  pc = "closed" => now_ticks >= plus(last_event, INPUT_WINDOW_TICKS)

\* With nobody typing, taskauto enters ring 3 at most once: the session that
\* renews the window also ends taskauto, so a fast-syscall task cannot keep
\* the machine up for ever.
OneUnattendedSession == unattended <= 1

\* taskauto steps a task no sooner than its interval after it was enabled or
\* last stepped one, whatever was typed or run in between.
AutoStepsAreSpaced ==
  [][caller' = "auto" /\ pc' = "step" /\ pc # "step" =>
       now_tick >= plus(auto_since, auto.interval_ticks)]_monitorVars

\* Sessions abandon the calls that were stepping a task, and the scheduler does
\* not notice: all that ever happens to the table is one of its own calls,
\* complete, and its clock never goes back.
SchedulerSurvives == Spec

\* An automatic step that is due is taken, late if need be and however much is
\* typed, unless taskauto is switched off, restarted, or ended by a session or
\* by the end of the window.
AutoRunsOnTime ==
  LET Late == auto.enabled /\ now_ticks >= auto.next_run_tick
  IN  Late ~> (~ Late \/ pc \in {"exited", "dead"})

\* A window that has run out is closed, unless an event or a session renews it.
OverdueWindowCloses ==
  now_ticks >= deadline ~> (now_ticks < deadline \/ pc \in {"exited", "dead"})
=============================================================================
