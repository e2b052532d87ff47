------------------------------ MODULE UserDemo ------------------------------
(***************************************************************************)
(* System calls the kernel makes to itself through int 0x80: the syscall   *)
(* command of main.rs, and run_user_demo of kernel/src/user_program.rs,    *)
(* five calls in a row during which the timer of module Pit goes on        *)
(* ticking, at the rate timerhz set last.                                  *)
(***************************************************************************)
EXTENDS Syscall, Pit, Sequences

CONSTANTS
  UsableBytes,   \* of the memory summary, set before the monitor starts
  Numbers, Args  \* what is typed after the syscall command

ASSUME DemoAssumption ==
  /\ UsableBytes \in Word /\ 42 \in Word
  /\ PIT_MAX_HZ \in Word /\ TickHorizon \in Word
  /\ Numbers \subseteq Word /\ Args \subseteq Word

VARIABLES
  asked, answer,   \* the last syscall command: its input, what it printed
  calls,           \* run_user_demo: values returned so far
  demo             \* idle, running, ok or failed

vars == <<timer, asked, answer, calls, demo>>

env == [ticks |-> TICKS, pit_hz |-> CURRENT_PIT_HZ, usable |-> UsableBytes]

NoQuestion == [env |-> env, number |-> SYSCALL_GET_TICKS, arg0 |-> 0, arg1 |-> 0]

Init ==
  /\ PitInit
  /\ asked = NoQuestion /\ answer = Value(0)
  /\ calls = <<>> /\ demo = "idle"

Tick ==
  /\ timer_interrupt_handler
  /\ UNCHANGED <<asked, answer, calls, demo>>

\* Commands run one at a time.
Timerhz(raw) ==
  /\ demo # "running"
  /\ timerhz(raw)
  /\ calls' = <<>> /\ demo' = "idle"
  /\ UNCHANGED <<asked, answer>>

syscall(number, arg0, arg1) ==
  /\ demo # "running"
  /\ asked' = [env |-> env, number |-> number, arg0 |-> arg0, arg1 |-> arg1]
  /\ answer' = invoke_via_interrupt(env, number, arg0, arg1)
  /\ UNCHANGED <<timer, calls, demo>>

\* Mutant: the uptime is read before the ticks.
Script_UptimeFirst ==
  <<[number |-> SYSCALL_GET_UPTIME_SECONDS, arg0 |-> 0,  arg1 |-> 0],
    [number |-> SYSCALL_GET_TICKS,          arg0 |-> 0,  arg1 |-> 0],
    [number |-> SYSCALL_ADD,                arg0 |-> 40, arg1 |-> 2],
    [number |-> SYSCALL_GET_USABLE_MEMORY,  arg0 |-> 0,  arg1 |-> 0],
    [number |-> SYSCALL_GET_USABLE_FRAMES,  arg0 |-> 0,  arg1 |-> 0]>>

\* The calls of run_user_demo, in order.
Script ==
  <<[number |-> SYSCALL_GET_TICKS,          arg0 |-> 0,  arg1 |-> 0],
    [number |-> SYSCALL_GET_UPTIME_SECONDS, arg0 |-> 0,  arg1 |-> 0],
    [number |-> SYSCALL_ADD,                arg0 |-> 40, arg1 |-> 2],
    [number |-> SYSCALL_GET_USABLE_MEMORY,  arg0 |-> 0,  arg1 |-> 0],
    [number |-> SYSCALL_GET_USABLE_FRAMES,  arg0 |-> 0,  arg1 |-> 0]>>

userdemo ==
  /\ demo # "running"
  /\ calls' = <<>> /\ demo' = "running"
  /\ UNCHANGED <<timer, asked, answer>>

\* One call; the question mark after it returns early on an error.
run_user_demo ==
  /\ demo = "running"
  /\ LET next   == Script[Len(calls) + 1]
         result == invoke_via_interrupt(env, next.number, next.arg0, next.arg1)
     IN  IF result.err # "none"
           THEN demo' = "failed" /\ UNCHANGED calls
           ELSE /\ calls' = Append(calls, result.value)
                /\ demo' = IF Len(calls') = Len(Script) THEN "ok" ELSE "running"
  /\ UNCHANGED <<timer, asked, answer>>

Next ==
  \/ Tick
  \/ \E raw \in Requests : Timerhz(raw)
  \/ \E n \in Numbers, a, b \in Args : syscall(n, a, b)
  \/ userdemo
  \/ run_user_demo

Spec == Init /\ [][Next]_vars

-----------------------------------------------------------------------------
\* Ticks and rate stay in range, and every answer of dispatch fits its register.
TypeOK ==
  /\ PitTypeOK
  /\ asked \in [env : Env, number : Word, arg0 : Word, arg1 : Word]
  /\ answer \in Results
  /\ calls \in Seq(Word) /\ Len(calls) <= Len(Script)
  /\ demo \in {"idle", "running", "ok", "failed"}

\* Going through the registers changes nothing: what a caller of int 0x80 gets
\* back is what dispatch answered, value, error and the unknown number alike.
AnswerIsDispatch ==
  answer = dispatch(asked.env, asked.number, asked.arg0, asked.arg1)

\* A finished userdemo prints figures that fit together although the clock ran
\* on between its calls: the uptime is not before the ticks read first, nor
\* after the present, and the frames are those of the bytes.  It cannot fail.
DemoIsCoherent ==
  /\ demo # "failed"
  /\ demo = "ok" =>
       /\ calls[2] \in (calls[1] \div CURRENT_PIT_HZ) .. seconds
       /\ calls[3] = 42
       /\ calls[5] = calls[4] \div FRAME_SIZE
=============================================================================
