---------------------------- MODULE UsermodeProofs ----------------------------
(***************************************************************************)
(* Ring 3 sessions, for registers of any width, any register contents when *)
(* ring 3 is entered, any number of launches and ticks: the machine is     *)
(* left as it was found, every report is of its own session, and the whole *)
(* keeps the promise of module Session.                                    *)
(***************************************************************************)
EXTENDS Usermode, TLAPS

USE SMTT(90)

-----------------------------------------------------------------------------
(* Facts about sequences, the few that are used: every theorem a module      *)
(* imports is a hypothesis of each of its steps.                             *)

LEMMA Joins ==
  ASSUME NEW S, NEW p \in Seq(S), NEW q \in Seq(S)
  PROVE  /\ p \o q \in Seq(S) /\ Len(p \o q) = Len(p) + Len(q)
         /\ \A i \in 1..Len(p) + Len(q) :
              (p \o q)[i] = IF i <= Len(p) THEN p[i] ELSE q[i - Len(p)]
  OBVIOUS

-----------------------------------------------------------------------------
(* The inductive invariant: what the registers hold before each instruction *)
(* of a program, and what the statics say in each phase.                    *)

\* The first number a fast program calls, and the operands of its second call.
Number0(kind) == IF kind = "SuccessPath" THEN SYSCALL_GET_TICKS
                                         ELSE USER_FAST_SYSCALL_UNKNOWN_NUMBER
Left(kind)    == IF kind = "SuccessPath" THEN 40 ELSE U64
Right(kind)   == IF kind = "SuccessPath" THEN 2 ELSE 1

\* The answers of the two calls, as value and status.
Answer0(kind, value, status) ==
  IF kind = "SuccessPath"
    THEN value \in session.start .. ticks /\ status = SYSCALL_STATUS_OK
    ELSE /\ value = USER_FAST_SYSCALL_UNKNOWN_NUMBER
         /\ status = SYSCALL_STATUS_UNKNOWN_NUMBER

Answer1(kind, value, status) ==
  IF kind = "SuccessPath"
    THEN value = 42 /\ status = SYSCALL_STATUS_OK
    ELSE value = 0 /\ status = SYSCALL_STATUS_OVERFLOW

\* The registers r before instruction i of the fast program of a kind.
Holds(kind, i, r) ==
  /\ i \in 2 .. 5 => r["rax"] = Number0(kind)
  /\ i = 6 => Answer0(kind, r["rax"], r["r10"])
  /\ i = 7 => Answer0(kind, r["r8"], r["r10"])
  /\ i >= 8 => Answer0(kind, r["r8"], r["r9"])
  /\ i \in 9 .. 12 => r["rax"] = SYSCALL_ADD
  /\ i \in 10 .. 12 => r["rdi"] = Left(kind)
  /\ i \in 11 .. 12 => r["rsi"] = Right(kind)
  /\ i = 13 => Answer1(kind, r["rax"], r["r10"])
  /\ i = 14 => Answer1(kind, r["rax"], r["r12"])
  /\ i >= 15 => Answer1(kind, r["r10"], r["r12"])

\* The report that answers the last launch.
Answers(report) ==
  IF session.kind = None
    THEN report = None
    ELSE /\ report \in Report /\ report.kind = session.kind
         /\ Answer0(session.kind, report.call0_value, report.call0_status)
         /\ Answer1(session.kind, report.call1_value, report.call1_status)

InSession == {"user", "int80", "int81", "fast_entry", "fast_body"}
Programmed == stage \in {"MsrProgrammedNoSce", "SceEnabledExperimental"}

\* A program runs under its own kind, and where it can be.
SessionInv ==
  phase \in InSession =>
    /\ context /\ code = CodeOf(session.kind) /\ outcome = "none"
    /\ PENDING_FAST_SYSCALL_KIND = session.kind
    /\ LAST_FAST_SYSCALL_REPORT = None /\ USERMODE_EXIT_EXPECTED
    /\ session.kind = None =>
         \/ phase = "user" /\ ip \in 1 .. 3
         \/ phase = "int80" /\ ip = 3
         \/ phase = "int81" /\ ip = 4
    /\ session.kind # None =>
         /\ Holds(session.kind, ip, regs)
         /\ \/ phase = "user" /\ ip \in 1 .. 15
            \/ phase \in {"fast_entry", "fast_body"} /\ ip \in {5, 12}
            \/ phase = "int81" /\ ip = 16

\* The stack, the flag and the two bases, phase by phase.
MachineInv ==
  /\ phase \in {"monitor", "user"} => rflags_if
  /\ phase \in InSession \ {"user"} => ~ rflags_if
  /\ phase \in {"user", "fast_entry"} => rsp = "user_stack"
  /\ phase = "fast_body" => rsp = "syscall_stack" /\ user_rsp = "user_stack"
  /\ phase \in {"int80", "int81", "resume"} => rsp = "ring0_stack"
  /\ phase = "boot" => rsp = "boot_stack"
  /\ phase = "monitor" => rsp \in {"boot_stack", "ring0_stack"}
  /\ phase \in {"int80", "int81"} =>
       iret_frame = [rsp |-> "user_stack", rflags_if |-> TRUE]
  /\ phase \in InSession \ {"fast_body"} => gs_base = "user"
  /\ phase \in {"user", "int80", "int81", "fast_entry", "monitor", "resume"} =>
       (Programmed => kernel_gs_base = "percpu")
  /\ phase = "fast_body" => gs_base = "percpu" /\ kernel_gs_base = "user"
  /\ phase \in {"fast_entry", "fast_body"} =>
       /\ stage = "SceEnabledExperimental"
       /\ regs["rcx"] = ip + 1 /\ regs["r11"] = 1
  /\ phase = "fast_body" => frame = regs

\* Outside a program the statics are clean, and what was reported stays true.
StaticsInv ==
  /\ phase \in {"boot", "monitor", "resume"} =>
       ~ USERMODE_EXIT_EXPECTED /\ PENDING_FAST_SYSCALL_KIND = None
  /\ phase \in {"boot", "monitor"} => LAST_FAST_SYSCALL_REPORT = None
  /\ phase = "boot" => outcome = "none" /\ session.kind = None
  /\ phase = "resume" => outcome = "none" /\ Answers(LAST_FAST_SYSCALL_REPORT)
  /\ outcome = "returned" => Answers(shown)
  /\ session.start <= ticks
  /\ DiesOnlyWithoutSce

IInv == TypeOK /\ SessionInv /\ MachineInv /\ StaticsInv

-----------------------------------------------------------------------------
(* The programs, instruction by instruction. *)

\* A tuple of seven is a sequence of seven, and so is one of two.
LEMMA Seven ==
  ASSUME NEW S, NEW a \in S, NEW b \in S, NEW c \in S, NEW d \in S, NEW e \in S,
         NEW f \in S, NEW g \in S
  PROVE  <<a, b, c, d, e, f, g>> \in Seq(S) /\ Len(<<a, b, c, d, e, f, g>>) = 7
OBVIOUS

LEMMA Two ==
  ASSUME NEW S, NEW a \in S, NEW b \in S
  PROVE  <<a, b>> \in Seq(S) /\ Len(<<a, b>>) = 2
OBVIOUS

\* The elements of p are those of s, t and u in turn.
Joined(p, s, t, u) ==
  /\ p[1] = s[1] /\ p[2] = s[2] /\ p[3] = s[3] /\ p[4] = s[4] /\ p[5] = s[5]
  /\ p[6] = s[6] /\ p[7] = s[7]
  /\ p[8] = t[1] /\ p[9] = t[2] /\ p[10] = t[3] /\ p[11] = t[4] /\ p[12] = t[5]
  /\ p[13] = t[6] /\ p[14] = t[7]
  /\ p[15] = u[1] /\ p[16] = u[2]

LEMMA Join ==
  ASSUME NEW S, NEW s \in Seq(S), NEW t \in Seq(S), NEW u \in Seq(S),
         Len(s) = 7, Len(t) = 7, Len(u) = 2
  PROVE  Joined(s \o t \o u, s, t, u)
<1> DEFINE q == s \o t
           p == q \o u
<1>1. /\ q \in Seq(S) /\ Len(q) = Len(s) + Len(t)
      /\ \A i \in 1 .. Len(s) + Len(t) : q[i] = IF i <= Len(s) THEN s[i] ELSE t[i - Len(s)]
  BY Joins, Zenon
<1> HIDE DEF q
<1>2. q \in Seq(S)
  BY <1>1, Zenon
<1>3. \A i \in 1 .. Len(q) + Len(u) : (q \o u)[i] = IF i <= Len(q) THEN q[i] ELSE u[i - Len(q)]
  BY <1>2, Joins, Zenon
<1>4. Len(q) = 14
  BY <1>1
<1>5. \A i \in 1 .. Len(q) + Len(u) : p[i] = IF i <= Len(q) THEN q[i] ELSE u[i - Len(q)]
  BY <1>3, Zenon
<1> HIDE DEF p
<1>6. ASSUME NEW i \in 1 .. 14 PROVE p[i] = q[i]
  <2>1. i \in 1 .. Len(q) + Len(u) /\ i <= Len(q)
    BY <1>4
  <2> QED
    BY <1>5, <2>1, Zenon
<1>7. ASSUME NEW i \in 1 .. 14 PROVE p[i] = IF i <= 7 THEN s[i] ELSE t[i - 7]
  <2>1. i \in 1 .. Len(s) + Len(t)
    OBVIOUS
  <2> QED
    BY <1>1, <1>6, <2>1, Zenon
<1>8. /\ p[1] = s[1] /\ p[2] = s[2] /\ p[3] = s[3] /\ p[4] = s[4] /\ p[5] = s[5]
      /\ p[6] = s[6] /\ p[7] = s[7]
  BY <1>7
<1>9. /\ p[8] = t[1] /\ p[9] = t[2] /\ p[10] = t[3] /\ p[11] = t[4] /\ p[12] = t[5]
      /\ p[13] = t[6] /\ p[14] = t[7]
  BY <1>7
<1>10. p[15] = u[1] /\ p[16] = u[2]
  BY <1>5, <1>4
<1> QED
  BY <1>8, <1>10, <1>9, Zenon DEF p, q, Joined

\* What build_fast_syscall_*_code put on the code page.
Fast(kind, insns) ==
  /\ insns[1] = Imm("rax", Number0(kind)) /\ insns[2] = Imm("rdi", 0)
  /\ insns[3] = Imm("rsi", 0) /\ insns[4] = Imm("rdx", 0)
  /\ insns[5] = SyscallInsn
  /\ insns[6] = Copy("r8", "rax") /\ insns[7] = Copy("r9", "r10")
  /\ insns[8] = Imm("rax", SYSCALL_ADD) /\ insns[9] = Imm("rdi", Left(kind))
  /\ insns[10] = Imm("rsi", Right(kind)) /\ insns[11] = Imm("rdx", 0)
  /\ insns[12] = SyscallInsn
  /\ insns[13] = Copy("r12", "r10") /\ insns[14] = Copy("r10", "rax")
  /\ insns[15] = IntInsn(129) /\ insns[16] = HangLoop

\* Its two syscalls, its int 0x81 at the end, and moves for the rest.
LEMMA FastOps ==
  ASSUME NEW kind, NEW insns, Fast(kind, insns), NEW n \in 1 .. 15
  PROVE  /\ n \in {5, 12} => insns[n].op = "syscall"
         /\ n = 15 => insns[n] = IntInsn(129) /\ insns[n].op = "int"
         /\ n \notin {5, 12, 15} => insns[n].op \in {"imm", "copy"}
  BY DEF Fast, Imm, Copy, SyscallInsn, IntInsn

LEMMA FastCode ==
  ASSUME NEW kind \in FastKinds
  PROVE  Fast(kind, CodeOf(kind))
<1> DEFINE s == emit_fast_syscall_capture_slot0(Number0(kind), 0, 0)
           t == emit_fast_syscall_capture_slot1(SYSCALL_ADD, Left(kind), Right(kind))
           u == <<IntInsn(129), HangLoop>>
           S == {Imm("rax", Number0(kind)), Imm("rdi", 0), Imm("rsi", 0), Imm("rdx", 0),
                 SyscallInsn, Copy("r8", "rax"), Copy("r9", "r10"), Imm("rax", SYSCALL_ADD),
                 Imm("rdi", Left(kind)), Imm("rsi", Right(kind)), Copy("r12", "r10"),
                 Copy("r10", "rax"), IntInsn(129), HangLoop}
<1>1. CodeOf(kind) = s \o t \o u
  <2> HIDE DEF S
  <2>1. CASE kind = "SuccessPath"
    <3>1. Number0(kind) = SYSCALL_GET_TICKS /\ Left(kind) = 40 /\ Right(kind) = 2
      BY <2>1, Zenon DEF Number0, Left, Right
    <3> QED
      BY <2>1, <3>1, Zenon DEF CodeOf, build_fast_syscall_success_code
  <2>2. CASE kind = "ErrorPath"
    <3>1. kind # "SuccessPath"
      BY <2>2, Zenon
    <3>2. /\ Number0(kind) = USER_FAST_SYSCALL_UNKNOWN_NUMBER /\ Left(kind) = U64
          /\ Right(kind) = 1
      BY <3>1, Zenon DEF Number0, Left, Right
    <3> QED
      BY <2>2, <3>1, <3>2, Zenon DEF CodeOf, build_fast_syscall_error_code
  <2> QED
    BY <2>1, <2>2, Zenon DEF FastKinds
<1>2. s \in Seq(S) /\ Len(s) = 7
  BY Seven DEF emit_fast_syscall_capture_slot0
<1>3. t \in Seq(S) /\ Len(t) = 7
  BY Seven DEF emit_fast_syscall_capture_slot1
<1>4. u \in Seq(S) /\ Len(u) = 2
  BY Two, ZenonT(60)
<1>5. /\ s[1] = Imm("rax", Number0(kind)) /\ s[2] = Imm("rdi", 0)
      /\ s[3] = Imm("rsi", 0) /\ s[4] = Imm("rdx", 0) /\ s[5] = SyscallInsn
      /\ s[6] = Copy("r8", "rax") /\ s[7] = Copy("r9", "r10")
  BY Zenon DEF emit_fast_syscall_capture_slot0
<1>6. /\ t[1] = Imm("rax", SYSCALL_ADD) /\ t[2] = Imm("rdi", Left(kind))
      /\ t[3] = Imm("rsi", Right(kind)) /\ t[4] = Imm("rdx", 0) /\ t[5] = SyscallInsn
      /\ t[6] = Copy("r12", "r10") /\ t[7] = Copy("r10", "rax")
  BY Zenon DEF emit_fast_syscall_capture_slot1
<1>7. u[1] = IntInsn(129) /\ u[2] = HangLoop
  BY Zenon
<1> HIDE DEF s, t, u, S
<1>8. Joined(s \o t \o u, s, t, u)
  BY <1>2, <1>3, <1>4, Join, Zenon
<1> QED
  BY <1>1, <1>5, <1>6, <1>7, <1>8 DEF Joined, Fast

LEMMA PlainCode == CodeOf(None) = USER_INT_DEMO_CODE
BY NoneAssumption, Zenon DEF CodeOf, FastKinds

-----------------------------------------------------------------------------
(* What the handler of a system call leaves in the registers. *)

\* dispatch answers with a word.
LEMMA DispatchResult ==
  ASSUME NEW e \in Env, NEW n \in Word, NEW a \in Word, NEW b \in Word
  PROVE  dispatch(e, n, a, b) \in Results
BY WidthAssumption
DEF dispatch, checked_add, FromSummary, Value, UnknownNumber, Overflow,
    ContextUnavailable, Results, Env, Word

\* What a call may read during a session.
LEMMA EnvIsEnv ==
  ASSUME TypeOK
  PROVE  env \in Env
BY UsermodeAssumption, WidthAssumption DEF TypeOK, env, Env, Word

\* The value and the status that a result is returned in.
Encoded(result) ==
  IF result.err = "none" THEN [value |-> result.value, status |-> SYSCALL_STATUS_OK]
                         ELSE encode_error(result)

\* Both are words.
LEMMA EncodedWords ==
  ASSUME NEW result \in Results
  PROVE  Encoded(result).value \in Word /\ Encoded(result).status \in Word
BY UsermodeAssumption, WidthAssumption
DEF Encoded, encode_error, Results, Word, SYSCALL_STATUS_OK, SYSCALL_STATUS_UNKNOWN_NUMBER,
    SYSCALL_STATUS_OVERFLOW, SYSCALL_STATUS_CONTEXT_UNAVAILABLE

\* The handler answers in rax and rcx and leaves every other register alone.
LEMMA Handled ==
  ASSUME NEW e \in Env, NEW r \in [RegisterNames -> Word]
  PROVE  LET h == handle_interrupt_from_registers(e, r)
             result == dispatch(e, r["rax"], r["rdi"], r["rsi"])
         IN /\ h \in [RegisterNames -> Word]
            /\ h["rax"] = Encoded(result).value /\ h["rcx"] = Encoded(result).status
            /\ \A n \in RegisterNames \ {"rax", "rcx"} : h[n] = r[n]
<1> DEFINE result == dispatch(e, r["rax"], r["rdi"], r["rsi"])
           h == handle_interrupt_from_registers(e, r)
<1>1. result \in Results
  BY DispatchResult, Zenon DEF RegisterNames
<1>2. h = [r EXCEPT !["rax"] = Encoded(result).value, !["rcx"] = Encoded(result).status]
  BY Zenon DEF handle_interrupt_from_registers, Encoded
<1>3. Encoded(result).value \in Word /\ Encoded(result).status \in Word
  BY <1>1, EncodedWords, Zenon
<1> HIDE DEF h, result
<1>4. /\ h \in [RegisterNames -> Word]
      /\ h["rax"] = Encoded(result).value /\ h["rcx"] = Encoded(result).status
      /\ \A n \in RegisterNames \ {"rax", "rcx"} : h[n] = r[n]
  BY <1>2, <1>3, Zenon DEF RegisterNames
<1> QED
  BY <1>4, Zenon DEF h, result

\* The first call of a fast demo is answered.
LEMMA FirstCall ==
  ASSUME TypeOK, session.start <= ticks, NEW kind \in FastKinds,
         NEW a \in Word, NEW b \in Word
  PROVE  LET result == Encoded(dispatch(env, Number0(kind), a, b))
         IN Answer0(kind, result.value, result.status)
<1>1. CASE kind = "SuccessPath"
  <2>1. dispatch(env, Number0(kind), a, b) = Value(ticks)
    BY <1>1 DEF dispatch, Number0, env, SYSCALL_GET_TICKS, SYSCALL_GET_UPTIME_SECONDS,
       SYSCALL_ADD, SYSCALL_GET_USABLE_MEMORY, SYSCALL_GET_USABLE_FRAMES
  <2>2. ticks \in session.start .. ticks
    BY UsermodeAssumption DEF TypeOK, Word
  <2> QED
    BY <1>1, <2>1, <2>2 DEF Encoded, Value, Answer0
<1>2. CASE kind = "ErrorPath"
  <2>1. dispatch(env, Number0(kind), a, b) = UnknownNumber(USER_FAST_SYSCALL_UNKNOWN_NUMBER)
    BY <1>2, UsermodeAssumption
    DEF dispatch, Number0, Word, SYSCALL_GET_TICKS, SYSCALL_GET_UPTIME_SECONDS,
        SYSCALL_ADD, SYSCALL_GET_USABLE_MEMORY, SYSCALL_GET_USABLE_FRAMES
  <2> QED
    BY <1>2, <2>1 DEF Encoded, UnknownNumber, encode_error, Answer0
<1> QED
  BY <1>1, <1>2, Zenon DEF FastKinds

\* So is the second: 40 + 2 fits a word, and one more than the largest does not.
LEMMA SecondCall ==
  ASSUME NEW kind \in FastKinds
  PROVE  LET result == Encoded(dispatch(env, SYSCALL_ADD, Left(kind), Right(kind)))
         IN Answer1(kind, result.value, result.status)
<1>1. CASE kind = "SuccessPath"
  <2>1. dispatch(env, SYSCALL_ADD, Left(kind), Right(kind)) = Value(42)
    BY <1>1, UsermodeAssumption, WidthAssumption
    DEF dispatch, Left, Right, checked_add, SYSCALL_GET_TICKS, SYSCALL_GET_UPTIME_SECONDS,
        SYSCALL_ADD, SYSCALL_GET_USABLE_MEMORY, SYSCALL_GET_USABLE_FRAMES
  <2> QED
    BY <1>1, <2>1 DEF Encoded, Value, Answer1
<1>2. CASE kind = "ErrorPath"
  <2>1. dispatch(env, SYSCALL_ADD, Left(kind), Right(kind)) = Overflow
    BY <1>2, UsermodeAssumption, WidthAssumption
    DEF dispatch, Left, Right, checked_add, SYSCALL_GET_TICKS, SYSCALL_GET_UPTIME_SECONDS,
        SYSCALL_ADD, SYSCALL_GET_USABLE_MEMORY, SYSCALL_GET_USABLE_FRAMES
  <2> QED
    BY <1>2, <2>1 DEF Encoded, Overflow, encode_error, Answer1
<1> QED
  BY <1>1, <1>2, Zenon DEF FastKinds

-----------------------------------------------------------------------------
(* Every step keeps the invariant. *)

\* Reset starts in it.
LEMMA InitIInv == Init => IInv
<1> SUFFICES ASSUME Init PROVE IInv
  BY Zenon
<1>1. TypeOK
  <2>1. 0 \in Word /\ 0 \in 0 .. TickHorizon
    BY UsermodeAssumption, WidthAssumption DEF Word
  <2>2. regs \in [RegisterNames -> Word] /\ frame \in [RegisterNames -> Word]
    BY <2>1, Zenon DEF Init
  <2>3. /\ session \in [kind : Kinds, start : 0 .. TickHorizon]
        /\ iret_frame \in [rsp : Stacks, rflags_if : BOOLEAN]
    BY <2>1, Zenon DEF Init, Kinds, Stacks
  <2>4. code \in {<<>>} \cup {CodeOf(kind) : kind \in Kinds}
    BY Zenon DEF Init
  <2> QED
    BY <2>1, <2>2, <2>3, <2>4, Zenon DEF Init, TypeOK, Kinds, Stacks, Bases
<1>2. SessionInv /\ MachineInv
  BY Zenon DEF Init, SessionInv, MachineInv, InSession
<1>3. StaticsInv
  BY DEF Init, StaticsInv, DiesOnlyWithoutSce
<1> QED
  BY <1>1, <1>2, <1>3, Zenon DEF IInv

\* Where nothing changes, the invariant stays.
LEMMA Stutter == IInv /\ UNCHANGED vars => IInv'
<1> SUFFICES ASSUME IInv, UNCHANGED vars PROVE IInv'
  BY Zenon
<1> USE DEF vars, cpu, program, boot, statics, seen
<1>1. TypeOK'
  BY DEF IInv, TypeOK
<1>2. SessionInv'
  <2>1. ASSUME NEW kind, Holds(kind, ip, regs) PROVE Holds(kind, ip, regs)'
    BY <2>1 DEF Holds, Answer0, Answer1
  <2> QED
    BY <2>1, Zenon DEF IInv, SessionInv
<1>3. MachineInv'
  BY Zenon DEF IInv, MachineInv, Programmed
<1>4. StaticsInv'
  <2>1. ASSUME NEW report, Answers(report) PROVE Answers(report)'
    BY <2>1, Zenon DEF Answers, Answer0, Answer1
  <2> QED
    BY <2>1, Zenon DEF IInv, StaticsInv, DiesOnlyWithoutSce
<1> QED
  BY <1>1, <1>2, <1>3, <1>4, Zenon DEF IInv

\* A session that goes on keeps the statics' promises: nobody looks at them.
LEMMA StaticsStay ==
  ASSUME IInv, phase' \in InSession, UNCHANGED <<outcome, shown, session, ticks>>
  PROVE  StaticsInv'
<1>1. phase' \notin {"boot", "monitor", "resume", "dead"}
  BY Zenon DEF InSession
<1>2. ASSUME Answers(shown) PROVE Answers(shown)'
  BY <1>2, Zenon DEF Answers, Answer0, Answer1
<1> QED
  BY <1>1, <1>2, Zenon DEF IInv, StaticsInv, DiesOnlyWithoutSce

\* The exit is expected, and its report answers the launch.
LEMMA ExitStep == IInv /\ handle_exit_interrupt_from_registers => IInv'
<1> SUFFICES ASSUME IInv, handle_exit_interrupt_from_registers PROVE IInv'
  BY Zenon
<1> USE DEF boot, seen, program
<1>1. phase = "int81" /\ phase \in InSession
  BY Zenon DEF InSession, handle_exit_interrupt_from_registers
<1> DEFINE k == session.kind
<1>2. /\ USERMODE_EXIT_EXPECTED /\ PENDING_FAST_SYSCALL_KIND = k /\ outcome = "none"
      /\ k \in Kinds
  BY <1>1, Zenon DEF IInv, SessionInv, TypeOK
<1>3. /\ phase' = "resume" /\ USERMODE_EXIT_EXPECTED' = FALSE
      /\ PENDING_FAST_SYSCALL_KIND' = None
      /\ LAST_FAST_SYSCALL_REPORT' = IF k = None THEN None
           ELSE [kind |-> k, call0_value |-> regs["r8"], call0_status |-> regs["r9"],
                 call1_value |-> regs["r10"], call1_status |-> regs["r12"]]
      /\ UNCHANGED <<rsp, rflags_if, regs, frame, iret_frame, user_rsp, gs_base,
                     kernel_gs_base, program, boot, seen, ticks>>
  BY <1>2, Zenon DEF handle_exit_interrupt_from_registers
<1>4. Answers(LAST_FAST_SYSCALL_REPORT')
  <2>1. CASE k = None
    BY <2>1, <1>3, Zenon DEF Answers
  <2>2. CASE k # None
    <3>1. k \in FastKinds /\ ip = 16 /\ Holds(k, ip, regs)
      BY <1>1, <1>2, <2>2, Zenon DEF IInv, SessionInv, Kinds
    <3>2. Answer0(k, regs["r8"], regs["r9"]) /\ Answer1(k, regs["r10"], regs["r12"])
      BY <3>1 DEF Holds
    <3>3. LAST_FAST_SYSCALL_REPORT' \in Report
      <4>1. /\ regs["r8"] \in Word /\ regs["r9"] \in Word /\ regs["r10"] \in Word
            /\ regs["r12"] \in Word
        BY Zenon DEF IInv, TypeOK, RegisterNames
      <4> QED
        BY <1>3, <2>2, <3>1, <4>1, Zenon DEF Report
    <3> QED
      BY <1>3, <2>2, <3>2, <3>3, Zenon DEF Answers
  <2> QED
    BY <2>1, <2>2, Zenon
<1>5. TypeOK'
  <2>1. LAST_FAST_SYSCALL_REPORT' \in Report \cup {None}
    BY <1>4, Zenon DEF Answers
  <2>2. /\ phase' \in {"boot", "off", "monitor", "user", "int80", "int81", "fast_entry",
                      "fast_body", "resume", "dead"}
        /\ PENDING_FAST_SYSCALL_KIND' \in Kinds /\ USERMODE_EXIT_EXPECTED' \in BOOLEAN
    BY <1>3, Zenon DEF Kinds
  <2>3. /\ TypeOK
        /\ UNCHANGED <<outcome, code, ip, regs, frame, iret_frame, rsp, user_rsp, gs_base,
                       kernel_gs_base, rflags_if, context, ticks, stage, shown, session>>
    BY <1>3, Zenon DEF IInv
  <2> QED
    BY <2>1, <2>2, <2>3, ZenonT(60) DEF TypeOK
<1>6. SessionInv'
  BY <1>3, Zenon DEF SessionInv, InSession
<1>7. MachineInv'
  BY <1>1, <1>3, Zenon DEF IInv, MachineInv, InSession, Programmed
<1>8. StaticsInv'
  <2>1. Answers(LAST_FAST_SYSCALL_REPORT)'
    BY <1>3, <1>4, Zenon DEF Answers, Answer0, Answer1
  <2> QED
    BY <1>2, <1>3, <2>1, Zenon DEF IInv, StaticsInv, DiesOnlyWithoutSce
<1> QED
  BY <1>5, <1>6, <1>7, <1>8, Zenon DEF IInv

\* The monitor is back, and says what the session left it.
LEMMA ResumeStep == IInv /\ resume_monitor_after_usermode_exit => IInv'
<1> SUFFICES ASSUME IInv, resume_monitor_after_usermode_exit PROVE IInv'
  BY Zenon
<1> USE DEF resume_monitor_after_usermode_exit, boot, program, cpu
<1>1. TypeOK'
  BY Zenon DEF IInv, TypeOK
<1>2. SessionInv'
  BY Zenon DEF SessionInv, InSession
<1>3. MachineInv'
  BY Zenon DEF IInv, MachineInv, InSession, Programmed
<1>4. StaticsInv'
  BY Zenon DEF IInv, StaticsInv, DiesOnlyWithoutSce, Answers, Answer0, Answer1
<1> QED
  BY <1>1, <1>2, <1>3, <1>4, Zenon DEF IInv

\* A tick changes only the clock, which a report may not be ahead of.
LEMMA TimerStep == IInv /\ timer_interrupt_handler => IInv'
<1> SUFFICES ASSUME IInv, timer_interrupt_handler PROVE IInv'
  BY Zenon
<1> USE DEF timer_interrupt_handler, boot, program, cpu, statics, seen
<1>1. /\ ticks \in Nat /\ session.start \in Nat /\ ticks' = ticks + 1
      /\ ticks' \in 0 .. TickHorizon
  BY UsermodeAssumption, WidthAssumption DEF IInv, TypeOK, Word
<1>2. TypeOK'
  BY <1>1 DEF IInv, TypeOK
<1>3. SessionInv'
  <2>1. ASSUME NEW kind, Holds(kind, ip, regs) PROVE Holds(kind, ip, regs)'
    BY <1>1, <2>1 DEF Holds, Answer0, Answer1
  <2> QED
    BY <2>1, Zenon DEF IInv, SessionInv, InSession
<1>4. MachineInv'
  BY Zenon DEF IInv, MachineInv, InSession, Programmed
<1>5. StaticsInv'
  BY <1>1 DEF IInv, StaticsInv, DiesOnlyWithoutSce, Answers, Answer0, Answer1
<1> QED
  BY <1>2, <1>3, <1>4, <1>5, Zenon DEF IInv

\* Boot ends at the monitor, or switches the machine off.
LEMMA BootStep == IInv /\ kernel_main => IInv'
<1> SUFFICES ASSUME IInv, kernel_main PROVE IInv'
  BY Zenon
<1> USE DEF kernel_main, statics, seen
<1>1. TypeOK'
  <2>1. code' \in {<<>>} \cup {CodeOf(kind) : kind \in Kinds}
    <3>1. CodeOf(None) = USER_INT_DEMO_CODE /\ None \in Kinds
      BY PlainCode, Zenon DEF Kinds
    <3> QED
      BY <3>1, Zenon DEF IInv, TypeOK
  <2> QED
    BY <2>1 DEF IInv, TypeOK, Bases
<1>2. SessionInv'
  BY Zenon DEF SessionInv, InSession
<1>3. MachineInv'
  BY Zenon DEF IInv, MachineInv, InSession, Programmed
<1>4. StaticsInv'
  BY Zenon DEF IInv, StaticsInv, DiesOnlyWithoutSce
<1> QED
  BY <1>1, <1>2, <1>3, <1>4, Zenon DEF IInv

\* A launch is refused, or starts the program of its kind.
LEMMA LaunchStep ==
  ASSUME IInv, NEW kind \in Kinds, run_demo_code(kind)
  PROVE  IInv'
<1> USE DEF run_demo_code, boot
<1>1. CASE ~ context
  <2> USE <1>1 DEF cpu, program, statics
  <2>1. TypeOK'
    BY UsermodeAssumption, WidthAssumption DEF IInv, TypeOK, Word
  <2>2. SessionInv'
    BY Zenon DEF SessionInv, InSession
  <2>3. MachineInv'
    BY Zenon DEF IInv, MachineInv, InSession, Programmed
  <2>4. StaticsInv'
    BY DEF IInv, StaticsInv, DiesOnlyWithoutSce, TypeOK
  <2> QED
    BY <2>1, <2>2, <2>3, <2>4, Zenon DEF IInv
<1>2. CASE context
  <2> USE <1>2
  <2>1. TypeOK'
    BY UsermodeAssumption, WidthAssumption DEF IInv, TypeOK, Word, Stacks, Bases
  <2>2. SessionInv'
    <3>1. /\ phase' = "user" /\ ip' = 1 /\ session' = [kind |-> kind, start |-> ticks]
          /\ outcome' = "none" /\ code' = CodeOf(kind)
          /\ PENDING_FAST_SYSCALL_KIND' = kind /\ LAST_FAST_SYSCALL_REPORT' = None
          /\ USERMODE_EXIT_EXPECTED' /\ context'
      BY Zenon
    <3>2. Holds(kind, 1, regs)'
      BY <3>1 DEF Holds
    <3> QED
      BY <3>1, <3>2 DEF SessionInv
  <2>3. MachineInv'
    BY Zenon DEF IInv, MachineInv, InSession, Programmed
  <2>4. StaticsInv'
    BY DEF IInv, StaticsInv, DiesOnlyWithoutSce, TypeOK
  <2> QED
    BY <2>1, <2>2, <2>3, <2>4, Zenon DEF IInv
<1> QED
  BY <1>1, <1>2, Zenon

\* Out of it: the answer is in rax and r10, the program goes on behind syscall,
\* and the bases and the stack are swapped back.
LEMMA BridgeStep == IInv /\ syscall_interrupt_dispatch_bridge => IInv'
<1> SUFFICES ASSUME IInv, syscall_interrupt_dispatch_bridge PROVE IInv'
  BY Zenon
<1> USE DEF boot, statics, seen
<1>1. /\ phase = "fast_body" /\ phase \in InSession /\ phase' = "user"
      /\ rsp' = (IF gs_base = "percpu" THEN user_rsp ELSE "none")
      /\ gs_base' = kernel_gs_base /\ kernel_gs_base' = gs_base
      /\ UNCHANGED <<code, frame, iret_frame, user_rsp, boot, statics, seen, ticks>>
  BY Zenon DEF InSession, syscall_interrupt_dispatch_bridge
<1>2. /\ frame = regs /\ regs["rcx"] = ip + 1 /\ regs["r11"] = 1
      /\ stage = "SceEnabledExperimental" /\ user_rsp = "user_stack"
      /\ gs_base = "percpu" /\ kernel_gs_base = "user"
  BY <1>1, Zenon DEF IInv, MachineInv
<1> DEFINE k == session.kind
<1>3. /\ k \in FastKinds /\ k # None /\ ip \in {5, 12} /\ Holds(k, ip, regs)
      /\ session.start <= ticks /\ TypeOK
  BY <1>1, Zenon DEF IInv, SessionInv, StaticsInv, TypeOK, Kinds
<1> DEFINE h == handle_interrupt_from_registers(env, regs)
           answer == Encoded(dispatch(env, regs["rax"], regs["rdi"], regs["rsi"]))
           popped == [h EXCEPT !["r10"] = h["rcx"], !["rcx"] = regs["rcx"],
                               !["r11"] = regs["r11"]]
<1>4. regs \in [RegisterNames -> Word] /\ env \in Env
  BY <1>3, EnvIsEnv, Zenon DEF TypeOK
<1>5. /\ h \in [RegisterNames -> Word]
      /\ h["rax"] = answer.value /\ h["rcx"] = answer.status
      /\ \A n \in RegisterNames \ {"rax", "rcx"} : h[n] = regs[n]
  BY <1>4, Handled, Zenon
<1>6. regs' = popped /\ ip' = popped["rcx"] /\ rflags_if' = (popped["r11"] = 1)
  BY <1>2, Zenon DEF syscall_interrupt_dispatch_bridge
<1> HIDE DEF h, answer
<1>7. /\ popped \in [RegisterNames -> Word]
      /\ popped["rcx"] = ip + 1 /\ popped["r11"] = 1
      /\ popped["rax"] = answer.value /\ popped["r10"] = answer.status
      /\ \A n \in RegisterNames \ {"rax", "rcx", "r10", "r11"} : popped[n] = regs[n]
  BY <1>2, <1>4, <1>5, Zenon DEF RegisterNames
<1> HIDE DEF popped
<1>8. ip' = ip + 1 /\ rflags_if' = TRUE
  BY <1>6, <1>7, Zenon
<1>9. Holds(k, ip + 1, regs')
  <2>1. CASE ip = 5
    <3>1. regs["rax"] = Number0(k) /\ regs["rdi"] \in Word /\ regs["rsi"] \in Word
      BY <1>3, <1>4, <2>1 DEF Holds, RegisterNames
    <3>2. Answer0(k, answer.value, answer.status)
      BY <3>1, <1>3, FirstCall, Zenon DEF answer
    <3> QED
      BY <3>2, <2>1, <1>6, <1>7 DEF Holds
  <2>2. CASE ip = 12
    <3>1. regs["rax"] = SYSCALL_ADD /\ regs["rdi"] = Left(k) /\ regs["rsi"] = Right(k)
      BY <1>3, <2>2 DEF Holds
    <3>2. Answer1(k, answer.value, answer.status)
      BY <3>1, <1>3, SecondCall, Zenon DEF answer
    <3>3. Answer0(k, regs["r8"], regs["r9"])
      BY <1>3, <2>2 DEF Holds
    <3>4. regs'["r8"] = regs["r8"] /\ regs'["r9"] = regs["r9"]
      BY <1>6, <1>7, Zenon DEF RegisterNames
    <3> QED
      BY <3>2, <3>3, <3>4, <2>2, <1>6, <1>7 DEF Holds
  <2> QED
    BY <1>3, <2>1, <2>2, Zenon
<1>10. Holds(k, ip, regs)'
  BY <1>1, <1>8, <1>9 DEF Holds, Answer0, Answer1
<1>11. TypeOK'
  BY <1>1, <1>2, <1>3, <1>6, <1>7, <1>8 DEF TypeOK, Stacks, Bases
<1>12. SessionInv'
  BY <1>1, <1>3, <1>8, <1>10 DEF IInv, SessionInv
<1>13. MachineInv'
  BY <1>1, <1>2, <1>8, Zenon DEF MachineInv, InSession
<1>14. StaticsInv'
  BY <1>1, StaticsStay, Zenon DEF InSession
<1> QED
  BY <1>11, <1>12, <1>13, <1>14, Zenon DEF IInv

\* Into the fast system call: swapgs finds the per-CPU block.
LEMMA FastEntryStep == IInv /\ jingos_fast_syscall_entry => IInv'
<1> SUFFICES ASSUME IInv, jingos_fast_syscall_entry PROVE IInv'
  BY Zenon
<1> USE DEF jingos_fast_syscall_entry, boot, statics, seen, program
<1>1. phase = "fast_entry" /\ phase \in InSession /\ phase' = "fast_body"
  BY Zenon DEF InSession
<1>2. TypeOK'
  <2>1. rsp' \in Stacks /\ user_rsp' \in Stacks
    BY Zenon DEF IInv, TypeOK, Stacks
  <2> QED
    BY <1>1, <2>1 DEF IInv, TypeOK
<1>3. SessionInv'
  <2>1. ASSUME NEW kind, Holds(kind, ip, regs) PROVE Holds(kind, ip, regs)'
    BY <2>1 DEF Holds, Answer0, Answer1
  <2> QED
    BY <1>1, <2>1, Zenon DEF IInv, SessionInv
<1>4. MachineInv'
  BY <1>1, Zenon DEF IInv, MachineInv, InSession, Programmed
<1>5. StaticsInv'
  BY <1>1, StaticsStay, Zenon DEF InSession
<1> QED
  BY <1>2, <1>3, <1>4, <1>5, Zenon DEF IInv

\* int 0x80 and back: only registers change, and the plain demo ignores them.
LEMMA Int80Step == IInv /\ jingos_syscall_interrupt_entry => IInv'
<1> SUFFICES ASSUME IInv, jingos_syscall_interrupt_entry PROVE IInv'
  BY Zenon
<1> USE DEF jingos_syscall_interrupt_entry, iretq, boot, statics, seen, program
<1>1. /\ phase = "int80" /\ phase \in InSession /\ session.kind = None /\ ip = 3
      /\ iret_frame = [rsp |-> "user_stack", rflags_if |-> TRUE]
  BY Zenon DEF IInv, SessionInv, MachineInv, InSession
<1>2. phase' = "user" /\ rsp' = "user_stack" /\ rflags_if'
  BY <1>1, Zenon
<1>3. regs' \in [RegisterNames -> Word]
  <2>1. regs \in [RegisterNames -> Word] /\ env \in Env
    BY EnvIsEnv, Zenon DEF IInv, TypeOK
  <2> QED
    BY <2>1, Handled, Zenon
<1>4. TypeOK'
  BY <1>2, <1>3 DEF IInv, TypeOK, Stacks
<1>5. SessionInv'
  BY <1>1, <1>2 DEF IInv, SessionInv
<1>6. MachineInv'
  BY <1>1, <1>2, Zenon DEF IInv, MachineInv, InSession, Programmed
<1>7. StaticsInv'
  BY <1>1, <1>2, StaticsStay, Zenon DEF InSession
<1> QED
  BY <1>4, <1>5, <1>6, <1>7, Zenon DEF IInv

\* int 0x80 in the plain demo, int 0x81 at the end of every one.
LEMMA IntStep == IInv /\ exec_int => IInv'
<1> SUFFICES ASSUME IInv, exec_int PROVE IInv'
  BY Zenon
<1> USE DEF exec_int, boot, statics, seen
<1>1. /\ code = CodeOf(session.kind) /\ session.kind \in Kinds /\ phase = "user"
      /\ phase \in InSession
  BY Zenon DEF IInv, SessionInv, InSession, TypeOK
<1> DEFINE k == session.kind
<1>2. /\ iret_frame' \in [rsp : Stacks, rflags_if : BOOLEAN] /\ rsp' \in Stacks
      /\ rflags_if' \in BOOLEAN /\ ip' \in Nat
  <2>1. rsp \in Stacks /\ ip \in Nat /\ rflags_if \in BOOLEAN
    BY Zenon DEF IInv, TypeOK
  <2>2. iret_frame' \in [rsp : Stacks, rflags_if : BOOLEAN]
    BY <2>1, Zenon
  <2>3. rsp' \in Stacks /\ ip' \in Nat
    BY <2>1 DEF Stacks
  <2>4. rflags_if' \in BOOLEAN
    BY Zenon
  <2> QED
    BY <2>2, <2>3, <2>4, Zenon
<1>3. CASE k = None
  <2>1. /\ code[1] = Imm("rax", SYSCALL_GET_TICKS) /\ code[2] = IntInsn(128)
        /\ code[3] = IntInsn(129)
    BY <1>1, <1>3, PlainCode DEF USER_INT_DEMO_CODE
  <2>2. \/ ip = 2 /\ phase' = "int80" /\ ip' = 3
        \/ ip = 3 /\ phase' = "int81" /\ ip' = 4
    BY <1>1, <1>3, <2>1 DEF IInv, SessionInv, insn, Imm, IntInsn
  <2> QED
    <3>1. TypeOK'
      BY <1>2, <2>2 DEF IInv, TypeOK
    <3>2. SessionInv'
      BY <1>1, <1>3, <2>2, Zenon DEF IInv, SessionInv
    <3>3. MachineInv'
      BY <1>1, <2>2, Zenon DEF IInv, MachineInv, InSession, Programmed
    <3>4. StaticsInv'
      BY <1>1, <2>2, StaticsStay, Zenon DEF InSession
    <3> QED
      BY <3>1, <3>2, <3>3, <3>4, Zenon DEF IInv
<1>4. CASE k # None
  <2>1. k \in FastKinds /\ Fast(k, code)
    BY <1>1, <1>4, FastCode, Zenon DEF Kinds
  <2>2. ip \in 1 .. 15 /\ Holds(k, ip, regs)
    BY <1>1, <1>4, Zenon DEF IInv, SessionInv
  <2>3. ip = 15 /\ insn = IntInsn(129)
    BY <2>1, <2>2, FastOps DEF insn
  <2>4. phase' = "int81" /\ ip' = 16
    BY <2>3 DEF IntInsn
  <2>5. Holds(k, ip, regs)'
    BY <2>2, <2>3, <2>4 DEF Holds, Answer0, Answer1
  <2>6. TypeOK'
    BY <1>2, <2>4 DEF IInv, TypeOK
  <2>7. SessionInv'
    BY <1>1, <1>4, <2>4, <2>5, Zenon DEF IInv, SessionInv
  <2>8. MachineInv'
    BY <1>1, <2>4, Zenon DEF IInv, MachineInv, InSession, Programmed
  <2>9. StaticsInv'
    BY <1>1, <2>4, StaticsStay, Zenon DEF InSession
  <2> QED
    BY <2>6, <2>7, <2>8, <2>9, Zenon DEF IInv
<1> QED
  BY <1>3, <1>4, Zenon

\* Only the fast demos execute syscall, at their fifth and twelfth instruction.
LEMMA SyscallStep == IInv /\ exec_syscall => IInv'
<1> SUFFICES ASSUME IInv, exec_syscall PROVE IInv'
  BY Zenon
<1> USE DEF exec_syscall, boot, statics, seen, program
<1>1. /\ code = CodeOf(session.kind) /\ session.kind \in Kinds /\ phase = "user"
      /\ phase \in InSession
  BY Zenon DEF IInv, SessionInv, InSession, TypeOK
<1> DEFINE k == session.kind
<1>2. k # None
  <2> SUFFICES ASSUME k = None PROVE FALSE
    BY Zenon
  <2>1. /\ code[1] = Imm("rax", SYSCALL_GET_TICKS) /\ code[2] = IntInsn(128)
        /\ code[3] = IntInsn(129)
    BY <1>1, PlainCode DEF USER_INT_DEMO_CODE
  <2> QED
    BY <1>1, <2>1 DEF IInv, SessionInv, insn, IntInsn, Imm
<1>3. k \in FastKinds /\ Fast(k, code)
  BY <1>1, <1>2, FastCode, Zenon DEF Kinds
<1>4. ip \in 1 .. 15 /\ Holds(k, ip, regs)
  BY <1>1, <1>2, Zenon DEF IInv, SessionInv
<1>5. ip \in {5, 12}
  BY <1>3, <1>4, FastOps DEF insn
<1>6. rflags_if /\ regs \in [RegisterNames -> Word]
  BY <1>1, Zenon DEF IInv, MachineInv, TypeOK
<1>7. CASE stage = "SceEnabledExperimental"
  <2>1. /\ regs' = [regs EXCEPT !["rcx"] = ip + 1, !["r11"] = 1]
        /\ ~ rflags_if' /\ phase' = "fast_entry"
    BY <1>6, <1>7, Zenon
  <2>2. ip + 1 \in Word /\ 1 \in Word
    BY <1>5, UsermodeAssumption, WidthAssumption DEF Word
  <2>3. /\ regs' \in [RegisterNames -> Word]
        /\ regs'["rcx"] = ip + 1 /\ regs'["r11"] = 1
        /\ \A q \in RegisterNames \ {"rcx", "r11"} : regs'[q] = regs[q]
    BY <1>6, <2>1, <2>2, Zenon DEF RegisterNames
  <2>4. Holds(k, ip, regs)'
    BY <1>4, <1>5, <2>3 DEF Holds, RegisterNames, Answer0
  <2>5. TypeOK'
    BY <2>1, <2>3, <1>7, Zenon DEF IInv, TypeOK
  <2>6. SessionInv'
    BY <1>1, <1>2, <1>5, <2>1, <2>4, Zenon DEF IInv, SessionInv
  <2>7. MachineInv'
    BY <1>1, <2>1, <2>3, <1>7, Zenon DEF IInv, MachineInv, InSession, Programmed
  <2>8. StaticsInv'
    BY <1>1, <2>1, StaticsStay, Zenon DEF InSession
  <2> QED
    BY <2>5, <2>6, <2>7, <2>8, Zenon DEF IInv
<1>8. CASE stage # "SceEnabledExperimental"
  <2>1. phase' = "dead" /\ UNCHANGED <<regs, rflags_if>>
    BY <1>8, Zenon
  <2>2. TypeOK'
    BY <2>1 DEF IInv, TypeOK
  <2>3. SessionInv' /\ MachineInv'
    BY <2>1, Zenon DEF SessionInv, MachineInv, InSession
  <2>4. StaticsInv'
    <3>1. ASSUME Answers(shown) PROVE Answers(shown)'
      BY <3>1, Zenon DEF Answers, Answer0, Answer1
    <3> QED
      BY <1>2, <1>8, <2>1, <3>1, Zenon DEF IInv, StaticsInv, DiesOnlyWithoutSce
  <2> QED
    BY <2>2, <2>3, <2>4, Zenon DEF IInv
<1> QED
  BY <1>7, <1>8, Zenon

\* A step that puts v into register r and goes to the next instruction.
Writes(r, v) ==
  /\ regs' \in [RegisterNames -> Word]
  /\ regs'[r] = v
  /\ \A q \in RegisterNames \ {r} : regs'[q] = regs[q]
  /\ ip' = ip + 1

LEMMA ImmStep ==
  ASSUME TypeOK, exec_local, NEW r \in RegisterNames, NEW v \in Word, code[ip] = Imm(r, v)
  PROVE  Writes(r, v)
<1>1. insn.op = "imm" /\ insn.dst = r /\ insn.value = v
  BY DEF insn, Imm
<1>2. regs' = [regs EXCEPT ![r] = v] /\ ip' = ip + 1
  BY <1>1, Zenon DEF exec_local
<1> QED
  BY <1>2, Zenon DEF Writes, TypeOK

LEMMA CopyStep ==
  ASSUME TypeOK, exec_local, NEW r \in RegisterNames, NEW q \in RegisterNames,
         code[ip] = Copy(r, q)
  PROVE  Writes(r, regs[q])
<1>1. insn.op = "copy" /\ insn.dst = r /\ insn.src = q
  BY DEF insn, Copy
<1>2. regs' = [regs EXCEPT ![r] = regs[q]] /\ ip' = ip + 1
  BY <1>1, Zenon DEF exec_local
<1> QED
  BY <1>2, Zenon DEF Writes, TypeOK

\* A step that neither ticks nor changes the session keeps the answers of its
\* kind what they were.
LEMMA SameAnswers ==
  ASSUME session' = session, ticks' = ticks, Holds(session.kind, ip', regs')
  PROVE  Holds(session.kind, ip, regs)'
BY DEF Holds, Answer0, Answer1

\* A move between registers keeps what the later instructions rely on.
LEMMA LocalStep == IInv /\ exec_local => IInv'
<1> SUFFICES ASSUME IInv, exec_local PROVE IInv'
  BY Zenon
<1> USE DEF exec_local, boot, statics, seen
<1>1. code = CodeOf(session.kind) /\ session.kind \in Kinds /\ phase \in InSession
  BY Zenon DEF IInv, SessionInv, InSession, TypeOK
<1>2. CASE session.kind = None
  <2>1. /\ code[1] = Imm("rax", SYSCALL_GET_TICKS) /\ code[2] = IntInsn(128)
        /\ code[3] = IntInsn(129)
    BY <1>1, <1>2, PlainCode DEF USER_INT_DEMO_CODE
  <2>2. ip = 1
    BY <1>1, <1>2, <2>1 DEF IInv, SessionInv, insn, IntInsn
  <2>3. regs' \in [RegisterNames -> Word] /\ ip' = 2
    <3>1. SYSCALL_GET_TICKS \in Word /\ "rax" \in RegisterNames
      BY WidthAssumption DEF Word, RegisterNames, SYSCALL_GET_TICKS
    <3> QED
      BY <2>1, <2>2, <3>1, ImmStep DEF Writes, IInv
  <2>4. TypeOK'
    BY <2>3 DEF IInv, TypeOK
  <2>5. SessionInv'
    BY <1>1, <1>2, <2>3 DEF IInv, SessionInv, InSession
  <2>6. MachineInv'
    BY Zenon DEF IInv, MachineInv, InSession, Programmed
  <2>7. StaticsInv'
    BY <1>1, StaticsStay, Zenon
  <2> QED
    BY <2>4, <2>5, <2>6, <2>7, Zenon DEF IInv
<1>3. CASE session.kind # None
  <2> DEFINE k == session.kind
  <2>1. k \in FastKinds /\ Fast(k, code)
    BY <1>1, <1>3, FastCode, Zenon DEF Kinds
  <2>2. ip \in 1 .. 15 /\ Holds(k, ip, regs)
    BY <1>1, <1>3, Zenon DEF IInv, SessionInv
  <2>3. ip \notin {5, 12, 15}
    BY <2>1 DEF Fast, insn, SyscallInsn, IntInsn
  <2>4. ip' = ip + 1 /\ ip' \in 2 .. 15
    <3>1. insn.op # "hang"
      BY <2>1, <2>2, <2>3 DEF Fast, insn, Imm, Copy
    <3> QED
      BY <2>2, <2>3, <3>1
  <2>5. regs \in [RegisterNames -> Word]
    BY Zenon DEF IInv, TypeOK
  <2>6. Number0(k) \in Word /\ Left(k) \in Word /\ Right(k) \in Word /\ SYSCALL_ADD \in Word
        /\ 0 \in Word
    BY UsermodeAssumption, WidthAssumption DEF Number0, Left, Right, Word, SYSCALL_ADD,
       SYSCALL_GET_TICKS
  <2>7. regs' \in [RegisterNames -> Word] /\ Holds(k, ip', regs')
    <3>1. TypeOK
      BY Zenon DEF IInv
    <3> USE DEF RegisterNames
    <3>2. CASE ip = 1
      <4>1. Writes("rax", Number0(k))
        BY <3>1, <3>2, <2>1, <2>6, ImmStep, Zenon DEF Fast
      <4> QED
        BY <4>1, <3>2, <2>2, <2>5 DEF Holds, Writes
    <3>3. CASE ip = 2
      <4>1. Writes("rdi", 0)
        BY <3>1, <3>3, <2>1, <2>6, ImmStep, Zenon DEF Fast
      <4> QED
        BY <4>1, <3>3, <2>2, <2>5 DEF Holds, Writes
    <3>4. CASE ip = 3
      <4>1. Writes("rsi", 0)
        BY <3>1, <3>4, <2>1, <2>6, ImmStep, Zenon DEF Fast
      <4> QED
        BY <4>1, <3>4, <2>2, <2>5 DEF Holds, Writes
    <3>5. CASE ip = 4
      <4>1. Writes("rdx", 0)
        BY <3>1, <3>5, <2>1, <2>6, ImmStep, Zenon DEF Fast
      <4> QED
        BY <4>1, <3>5, <2>2, <2>5 DEF Holds, Writes
    <3>6. CASE ip = 6
      <4>1. Writes("r8", regs["rax"])
        BY <3>1, <3>6, <2>1, <2>6, CopyStep, Zenon DEF Fast
      <4> QED
        BY <4>1, <3>6, <2>2, <2>5 DEF Holds, Writes
    <3>7. CASE ip = 7
      <4>1. Writes("r9", regs["r10"])
        BY <3>1, <3>7, <2>1, <2>6, CopyStep, Zenon DEF Fast
      <4> QED
        BY <4>1, <3>7, <2>2, <2>5 DEF Holds, Writes
    <3>8. CASE ip = 8
      <4>1. Writes("rax", SYSCALL_ADD)
        BY <3>1, <3>8, <2>1, <2>6, ImmStep, Zenon DEF Fast
      <4> QED
        BY <4>1, <3>8, <2>2, <2>5 DEF Holds, Writes
    <3>9. CASE ip = 9
      <4>1. Writes("rdi", Left(k))
        BY <3>1, <3>9, <2>1, <2>6, ImmStep, Zenon DEF Fast
      <4> QED
        BY <4>1, <3>9, <2>2, <2>5 DEF Holds, Writes
    <3>10. CASE ip = 10
      <4>1. Writes("rsi", Right(k))
        BY <3>1, <3>10, <2>1, <2>6, ImmStep, Zenon DEF Fast
      <4> QED
        BY <4>1, <3>10, <2>2, <2>5 DEF Holds, Writes
    <3>11. CASE ip = 11
      <4>1. Writes("rdx", 0)
        BY <3>1, <3>11, <2>1, <2>6, ImmStep, Zenon DEF Fast
      <4> QED
        BY <4>1, <3>11, <2>2, <2>5 DEF Holds, Writes
    <3>12. CASE ip = 13
      <4>1. Writes("r12", regs["r10"])
        BY <3>1, <3>12, <2>1, <2>6, CopyStep, ZenonT(60) DEF Fast
      <4> QED
        BY <4>1, <3>12, <2>2, <2>5 DEF Holds, Writes
    <3>13. CASE ip = 14
      <4>1. Writes("r10", regs["rax"])
        BY <3>1, <3>13, <2>1, <2>6, CopyStep, ZenonT(60) DEF Fast
      <4> QED
        BY <4>1, <3>13, <2>2, <2>5 DEF Holds, Writes
    <3>14. \/ ip = 1 \/ ip = 2 \/ ip = 3 \/ ip = 4 \/ ip = 6 \/ ip = 7 \/ ip = 8
           \/ ip = 9 \/ ip = 10 \/ ip = 11 \/ ip = 13 \/ ip = 14
      BY <2>2, <2>3
    <3> QED
      BY <3>2, <3>3, <3>4, <3>5, <3>6, <3>7, <3>8, <3>9, <3>10, <3>11, <3>12, <3>13,
         <3>14, Zenon
  <2>8. Holds(k, ip, regs)'
    <3>1. session' = session /\ ticks' = ticks
      BY Zenon
    <3> QED
      BY <2>7, <3>1, SameAnswers, Zenon
  <2>9. TypeOK'
    BY <2>4, <2>7 DEF IInv, TypeOK
  <2>10. SessionInv'
    BY <1>1, <1>3, <2>4, <2>8 DEF IInv, SessionInv, InSession
  <2>11. MachineInv'
    BY Zenon DEF IInv, MachineInv, InSession, Programmed
  <2>12. StaticsInv'
    BY <1>1, StaticsStay, Zenon
  <2> QED
    BY <2>9, <2>10, <2>11, <2>12, Zenon DEF IInv
<1> QED
  BY <1>2, <1>3, Zenon

\* IInv is inductive.
THEOREM Invariance == Spec => []IInv
<1>1. IInv /\ [Next]_vars => IInv'
  <2> SUFFICES ASSUME IInv, [Next]_vars PROVE IInv'
    BY Zenon
  <2>1. CASE UNCHANGED vars
    BY <2>1, Stutter, Zenon
  <2>2. CASE Next
    BY <2>2, BootStep, LaunchStep, LocalStep, SyscallStep, IntStep, Int80Step,
       FastEntryStep, BridgeStep, ExitStep, ResumeStep, TimerStep, Zenon
    DEF Next, UserStep, Handler
  <2> QED
    BY <2>1, <2>2, Zenon
<1> QED
  BY <1>1, InitIInv, PTL DEF Spec

-----------------------------------------------------------------------------
(* What the monitor and the user can rely on. *)

\* The report that answers a launch has passed, and is not None.
LEMMA AnswersPass ==
  ASSUME NEW report, Answers(report), session.kind \in FastKinds
  PROVE  /\ report \in Report /\ report # None /\ report.kind = session.kind
         /\ passed(report)
         /\ session.kind = "SuccessPath" => report.call0_value \in session.start .. ticks
<1>1. /\ session.kind # None /\ report \in Report /\ report # None
      /\ report.kind = session.kind
      /\ Answer0(session.kind, report.call0_value, report.call0_status)
      /\ Answer1(session.kind, report.call1_value, report.call1_status)
  BY NoneAssumption, Zenon DEF Answers
<1>2. CASE session.kind = "SuccessPath"
  BY <1>1, <1>2, Zenon DEF passed, Answer0, Answer1
<1>3. CASE session.kind = "ErrorPath"
  BY <1>1, <1>3, Zenon DEF passed, Answer0, Answer1
<1> QED
  BY <1>1, <1>2, <1>3, Zenon DEF FastKinds

\* The invariant says so of the last report.
LEMMA ReportFromIInv == IInv => ReportIsOfThisSession
<1> SUFFICES ASSUME IInv, outcome = "returned"
             PROVE  IF session.kind = None
                      THEN shown = None
                      ELSE /\ shown # None
                           /\ shown.kind = session.kind
                           /\ passed(shown)
                           /\ session.kind = "SuccessPath" =>
                                shown.call0_value \in session.start .. ticks
  BY Zenon DEF ReportIsOfThisSession
<1>1. Answers(shown) /\ session.kind \in Kinds
  BY Zenon DEF IInv, StaticsInv, TypeOK
<1>2. CASE session.kind = None
  BY <1>1, <1>2, Zenon DEF Answers
<1>3. CASE session.kind # None
  <2>1. session.kind \in FastKinds
    BY <1>1, <1>3, Zenon DEF Kinds
  <2> QED
    BY <1>1, <1>3, <2>1, AnswersPass, Zenon
<1> QED
  BY <1>2, <1>3, Zenon

\* What resume_monitor_after_usermode_exit prints is the answer of the session
\* just ended, under its kind, as passed, with ticks read while it ran.
THEOREM ReportOfThisSession == Spec => []ReportIsOfThisSession
BY ReportFromIInv, Invariance, PTL

\* run_demo_code hands the machine over and gets it back in order: types, statics,
\* stacks, gs bases and the interrupt flag.
THEOREM SoundMachine == Spec => []MachineIsSound
<1>1. IInv => MachineIsSound
  BY Zenon DEF IInv, MachineIsSound, MachineInv, StaticsInv, SessionInv, CleanHandover,
         StubsBalance, InSession, Programmed
<1> QED
  BY <1>1, Invariance, PTL

\* No session runs into the jmp $ behind its int 0x81, and only a CPU without SCE
\* loses the machine to one.
THEOREM SessionsEnd == Spec => []SessionsEndWell
<1>1. IInv => SessionsEndWell
  <2> SUFFICES ASSUME IInv, phase = "user" PROVE insn.op # "hang"
    BY Zenon DEF IInv, StaticsInv, SessionsEndWell, NeverHangs
  <2>1. code = CodeOf(session.kind) /\ session.kind \in Kinds
    BY Zenon DEF IInv, SessionInv, InSession, TypeOK
  <2>2. CASE session.kind = None
    <3>1. /\ code[1] = Imm("rax", SYSCALL_GET_TICKS) /\ code[2] = IntInsn(128)
          /\ code[3] = IntInsn(129)
      BY <2>1, <2>2, PlainCode DEF USER_INT_DEMO_CODE
    <3> QED
      BY <3>1, <2>2 DEF IInv, SessionInv, InSession, insn, Imm, IntInsn
  <2>3. CASE session.kind # None
    <3>1. Fast(session.kind, code)
      BY <2>1, <2>3, FastCode, Zenon DEF Kinds
    <3>2. ip \in 1 .. 15
      BY <2>3, Zenon DEF IInv, SessionInv, InSession
    <3>3. insn.op \in {"imm", "copy", "syscall", "int"}
      BY <3>1, <3>2, FastOps DEF insn
    <3> QED
      BY <3>3, Zenon
  <2> QED
    BY <2>2, <2>3, Zenon
<1> QED
  BY <1>1, Invariance, PTL

\* From run_demo_code to resume_monitor_after_usermode_exit a session is one launch
\* of module Session: refused, or answered once under its own kind, or lost.
THEOREM SessionSafety == Spec => Promise!Init /\ [][Promise!Next]_(Promise!vars)
<1>1. Init => Promise!Init
  <2> SUFFICES ASSUME Init PROVE Promise!Init
    BY Zenon
  <2>1. phase = "boot" /\ outcome = "none" /\ session.kind = None
    BY Zenon DEF Init
  <2> QED
    BY <2>1, Zenon DEF Promise!Init
<1>2. IInv /\ IInv' /\ [Next]_vars => [Promise!Next]_(Promise!vars)
  <2> SUFFICES ASSUME IInv, IInv', [Next]_vars PROVE [Promise!Next]_(Promise!vars)
    BY Zenon
  <2>1. CASE kernel_main
    BY <2>1, Zenon DEF kernel_main, seen, Promise!vars
  <2>2. ASSUME NEW kind \in Kinds, run_demo_code(kind)
        PROVE  Promise!Refuse(kind) \/ Promise!Launch(kind)
    <3>1. phase = "monitor" /\ session'.kind = kind
      BY <2>2, Zenon DEF run_demo_code
    <3>2. CASE ~ context
      <4>1. outcome' = "refused" /\ phase' = "monitor"
        BY <2>2, <3>1, <3>2, Zenon DEF run_demo_code
      <4> QED
        BY <3>1, <4>1, Zenon DEF Promise!Refuse
    <3>3. CASE context
      <4>1. outcome' = "none" /\ phase' = "user"
        BY <2>2, <3>1, <3>3, Zenon DEF run_demo_code
      <4> QED
        BY <3>1, <4>1, Zenon DEF Promise!Launch
    <3> QED
      BY <3>2, <3>3, Zenon
  <2>3. CASE exec_local
    BY <2>3, Zenon DEF exec_local, seen, Promise!vars
  <2>4. CASE exec_syscall
    BY <2>4, Zenon DEF exec_syscall, seen, Promise!vars, Promise!Next, Promise!Die, IInv, TypeOK,
       Kinds, StaticsInv, DiesOnlyWithoutSce
  <2>5. CASE exec_int
    BY <2>5, Zenon DEF exec_int, seen, Promise!vars
  <2>6. CASE jingos_syscall_interrupt_entry
    BY <2>6, Zenon DEF jingos_syscall_interrupt_entry, iretq, seen, Promise!vars
  <2>7. CASE jingos_fast_syscall_entry
    BY <2>7, Zenon DEF jingos_fast_syscall_entry, seen, Promise!vars
  <2>8. CASE syscall_interrupt_dispatch_bridge
    BY <2>8, Zenon DEF syscall_interrupt_dispatch_bridge, seen, Promise!vars
  <2>9. CASE handle_exit_interrupt_from_registers
    BY <2>9, Zenon DEF handle_exit_interrupt_from_registers, iretq, seen, Promise!vars
  <2>10. CASE resume_monitor_after_usermode_exit
    <3>1. /\ phase = "resume" /\ phase' = "monitor" /\ outcome' = "returned"
          /\ session' = session
      BY <2>10, Zenon DEF resume_monitor_after_usermode_exit
    <3>2. Answers(shown)' /\ session.kind \in Kinds
      BY <3>1, Zenon DEF IInv, StaticsInv, TypeOK
    <3>3. CASE session.kind = None
      <4>1. shown' = None /\ None \notin FastKinds
        BY <3>1, <3>2, <3>3, NoneAssumption, Zenon DEF Answers
      <4> QED
        BY <3>1, <3>3, <4>1, Zenon DEF Promise!Next, Promise!Return
    <3>4. CASE session.kind \in FastKinds
      <4>1. shown' # None /\ passed(shown')
        <5>1. ReportIsOfThisSession'
          BY ReportFromIInv, PTL
        <5>2. session'.kind # None
          BY <3>1, <3>4, NoneAssumption, Zenon
        <5> QED
          BY <3>1, <5>1, <5>2, Zenon DEF ReportIsOfThisSession
      <4> QED
        BY <3>1, <3>4, <4>1, Zenon DEF Promise!Next, Promise!Return
    <3> QED
      BY <3>2, <3>3, <3>4, Zenon DEF Kinds
  <2>11. CASE timer_interrupt_handler
    BY <2>11, Zenon DEF timer_interrupt_handler, seen, Promise!vars
  <2>12. CASE UNCHANGED vars
    BY <2>12, Zenon DEF vars, seen, Promise!vars
  <2> QED
    BY <2>1, <2>2, <2>3, <2>4, <2>5, <2>6, <2>7, <2>8, <2>9, <2>10, <2>11, <2>12, Zenon
    DEF Next, UserStep, Handler, Promise!Next, Promise!Kinds, Kinds
<1> QED
  BY <1>1, <1>2, Invariance, PTL DEF Spec

===============================================================================
