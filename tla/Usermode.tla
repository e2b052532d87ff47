------------------------------ MODULE Usermode ------------------------------
(***************************************************************************)
(* Ring 3 sessions: kernel/src/usermode.rs, the entry stubs of             *)
(* interrupts.rs and resume_monitor_after_usermode_exit of main.rs.        *)
(*                                                                         *)
(* The monitor launches a session by writing a small program to the user   *)
(* code page and leaving for ring 3 with iretq; it never returns from that *)
(* call.  The program makes system calls (int 0x80, or the syscall         *)
(* instruction) and ends with int 0x81, whose handler starts the monitor   *)
(* again on a fresh stack.  What the two sides know of each other is in    *)
(* three statics: PENDING_FAST_SYSCALL_KIND, LAST_FAST_SYSCALL_REPORT and  *)
(* USERMODE_EXIT_EXPECTED.                                                 *)
(*                                                                         *)
(* One action is one user instruction, or one kernel handler that runs     *)
(* with interrupts off; the timer may tick wherever the interrupt flag is  *)
(* set.                                                                    *)
(***************************************************************************)
EXTENDS Syscall, Sequences

CONSTANTS
  None,
  USER_FAST_SYSCALL_UNKNOWN_NUMBER,
  PIT_HZ,          \* pit_hz(), not changed during a session
  UsableBytes,     \* the memory summary kernel_main stores before boot ends
  Garbage,         \* what registers may hold when ring 3 is entered
  TickHorizon      \* bound: the clock stops here

\* The numbers in the programs are words and the unknown call is no call; ticks
\* do not wrap within a behaviour.
ASSUME UsermodeAssumption ==
  /\ U64 >= 42
  /\ USER_FAST_SYSCALL_UNKNOWN_NUMBER \in Word \ 0 .. SYSCALL_GET_USABLE_FRAMES
  /\ PIT_HZ \in Word \ {0} /\ UsableBytes \in Word \cup {NoSummary}
  /\ Garbage \subseteq Word /\ TickHorizon \in Word

FastKinds == {"SuccessPath", "ErrorPath"}     \* FastSyscallDemoKind
Kinds     == FastKinds \cup {None}            \* None: the int 0x80 demo

Report == [kind : FastKinds, call0_value : Word, call0_status : Word,
           call1_value : Word, call1_status : Word]

\* Option's None is neither a kind nor a report.
ASSUME NoneAssumption == None \notin FastKinds \cup Report

VARIABLES
  phase,      \* who runs: boot, monitor, user, a handler; off or dead
  outcome,    \* how the last launch ended: none, refused, returned
  code, ip,   \* the program on the user code page, the next instruction
  regs,       \* the general registers
  frame,      \* registers pushed on entry by the fast syscall stub
  iret_frame, \* stack and IF pushed by the CPU when an int is taken
  rsp,        \* the stack in use
  user_rsp,   \* FAST_SYSCALL_CPU_LOCAL.user_rsp
  gs_base, kernel_gs_base,
  rflags_if,  \* RFLAGS.IF
  ticks,
  context,    \* USER_MODE_CONTEXT is Some
  stage,      \* FAST_SYSCALL_STATUS.stage
  PENDING_FAST_SYSCALL_KIND,
  LAST_FAST_SYSCALL_REPORT,
  USERMODE_EXIT_EXPECTED,
  shown,      \* the report the monitor printed when it resumed, or None
  session     \* the last launch: its kind and the tick it began at

cpu     == <<regs, frame, iret_frame, rsp, user_rsp, gs_base, kernel_gs_base>>
program == <<code, ip>>
boot    == <<context, stage>>
statics == <<PENDING_FAST_SYSCALL_KIND, LAST_FAST_SYSCALL_REPORT,
             USERMODE_EXIT_EXPECTED>>
seen    == <<outcome, shown, session>>
vars    == <<phase, cpu, program, boot, statics, seen, rflags_if, ticks>>

-----------------------------------------------------------------------------
(* The programs. *)

Imm(reg, value) == [op |-> "imm", dst |-> reg, value |-> value]
Copy(dst, src)  == [op |-> "copy", dst |-> dst, src |-> src]
SyscallInsn     == [op |-> "syscall"]
IntInsn(vector) == [op |-> "int", vector |-> vector]
HangLoop        == [op |-> "hang"]

\* Mutants (here and below, named after what they get wrong).
USER_INT_DEMO_CODE_NoExit ==
  <<Imm("rax", SYSCALL_GET_TICKS), IntInsn(128), HangLoop>>

USER_INT_DEMO_CODE ==
  <<Imm("rax", SYSCALL_GET_TICKS), IntInsn(128), IntInsn(129), HangLoop>>

\* rcx holds the status after int 0x80, the return address after syscall.
emit_fast_syscall_capture_slot0_ReadsRcx(number, arg0, arg1) ==
  <<Imm("rax", number), Imm("rdi", arg0), Imm("rsi", arg1), Imm("rdx", 0),
    SyscallInsn, Copy("r8", "rax"), Copy("r9", "rcx")>>

emit_fast_syscall_capture_slot0(number, arg0, arg1) ==
  <<Imm("rax", number), Imm("rdi", arg0), Imm("rsi", arg1), Imm("rdx", 0),
    SyscallInsn, Copy("r8", "rax"), Copy("r9", "r10")>>

emit_fast_syscall_capture_slot1_ValueFirst(number, arg0, arg1) ==
  <<Imm("rax", number), Imm("rdi", arg0), Imm("rsi", arg1), Imm("rdx", 0),
    SyscallInsn, Copy("r10", "rax"), Copy("r12", "r10")>>

emit_fast_syscall_capture_slot1(number, arg0, arg1) ==
  <<Imm("rax", number), Imm("rdi", arg0), Imm("rsi", arg1), Imm("rdx", 0),
    SyscallInsn, Copy("r12", "r10"), Copy("r10", "rax")>>

build_fast_syscall_success_code ==
  emit_fast_syscall_capture_slot0(SYSCALL_GET_TICKS, 0, 0) \o
  emit_fast_syscall_capture_slot1(SYSCALL_ADD, 40, 2) \o
  <<IntInsn(129), HangLoop>>

build_fast_syscall_error_code ==
  emit_fast_syscall_capture_slot0(USER_FAST_SYSCALL_UNKNOWN_NUMBER, 0, 0) \o
  emit_fast_syscall_capture_slot1(SYSCALL_ADD, U64, 1) \o
  <<IntInsn(129), HangLoop>>

CodeOf(kind) ==
  CASE kind = "SuccessPath" -> build_fast_syscall_success_code
    [] kind = "ErrorPath"   -> build_fast_syscall_error_code
    [] OTHER                -> USER_INT_DEMO_CODE

\* FastSyscallDemoReport::passed.
passed(report) ==
  CASE report.kind = "SuccessPath" ->
         /\ report.call0_status = SYSCALL_STATUS_OK
         /\ report.call1_value = 42
         /\ report.call1_status = SYSCALL_STATUS_OK
    [] report.kind = "ErrorPath" ->
         /\ report.call0_value = USER_FAST_SYSCALL_UNKNOWN_NUMBER
         /\ report.call0_status = SYSCALL_STATUS_UNKNOWN_NUMBER
         /\ report.call1_value = 0
         /\ report.call1_status = SYSCALL_STATUS_OVERFLOW

-----------------------------------------------------------------------------
(* Boot and launch. *)

Init ==
  /\ phase = "boot" /\ outcome = "none"
  /\ code = <<>> /\ ip = 1
  /\ regs = [r \in RegisterNames |-> 0] /\ frame = regs
  /\ rsp = "boot_stack" /\ user_rsp = "none"
  /\ iret_frame = [rsp |-> "none", rflags_if |-> FALSE]
  /\ gs_base = "none" /\ kernel_gs_base = "none"
  /\ rflags_if = FALSE /\ ticks = 0
  /\ context = FALSE /\ stage = "Uninitialized"
  /\ PENDING_FAST_SYSCALL_KIND = None
  /\ LAST_FAST_SYSCALL_REPORT = None
  /\ USERMODE_EXIT_EXPECTED = FALSE
  /\ shown = None /\ session = [kind |-> None, start |-> 0]

\* kernel_main up to the monitor: init_memory may fail (no frame, a page mapped
\* already), the CPU may lack syscall, STAR may reject the selectors, and
\* EFER.SCE may not stick; interrupts::init sets IF last.  If wait_for_ticks
\* then sees no tick, the machine is switched off.
kernel_main ==
  /\ phase = "boot"
  /\ context' \in BOOLEAN
  /\ IF context' THEN code' = USER_INT_DEMO_CODE ELSE UNCHANGED code
  /\ \/ /\ stage' \in {"UnsupportedCpu", "Scaffolded"}
        /\ UNCHANGED kernel_gs_base
     \/ /\ stage' \in {"MsrProgrammedNoSce", "SceEnabledExperimental"}
        /\ kernel_gs_base' = "percpu"
  /\ phase' \in {"monitor", "off"} /\ rflags_if' = TRUE
  /\ UNCHANGED <<ip, regs, frame, iret_frame, rsp, user_rsp, gs_base, statics, seen, ticks>>

\* run_demo, run_fast_syscall_demo and run_fast_syscall_error_demo, called from
\* a command or from a task's payload.  enter_user_mode loads gs with the user
\* selector, whose base is 0, keeps IF, and leaves the registers as they are.
run_demo_code(kind) ==
  /\ phase = "monitor"
  /\ session' = [kind |-> kind, start |-> ticks]
  /\ shown' = None
  /\ \/ /\ ~ context
        /\ outcome' = "refused"
        /\ UNCHANGED <<phase, cpu, program, statics>>
     \/ /\ context
        /\ outcome' = "none"
        /\ PENDING_FAST_SYSCALL_KIND' = kind
        /\ LAST_FAST_SYSCALL_REPORT' = None
        /\ code' = CodeOf(kind) /\ ip' = 1
        /\ USERMODE_EXIT_EXPECTED' = TRUE
        /\ \E g \in Garbage : regs' = [r \in RegisterNames |-> g]
        /\ rsp' = "user_stack" /\ gs_base' = "user"
        /\ phase' = "user"
        /\ UNCHANGED <<frame, iret_frame, user_rsp, kernel_gs_base>>
  /\ UNCHANGED <<boot, rflags_if, ticks>>

-----------------------------------------------------------------------------
(* Ring 3. *)

insn == code[ip]

\* Moves between registers, and the final jmp $ that goes nowhere.
exec_local ==
  /\ phase = "user" /\ insn.op \in {"imm", "copy", "hang"}
  /\ regs' = CASE insn.op = "imm"  -> [regs EXCEPT ![insn.dst] = insn.value]
               [] insn.op = "copy" -> [regs EXCEPT ![insn.dst] = regs[insn.src]]
               [] OTHER            -> regs
  /\ ip' = IF insn.op = "hang" THEN ip ELSE ip + 1
  /\ UNCHANGED <<phase, code, frame, iret_frame, rsp, user_rsp, gs_base, kernel_gs_base,
                 boot, statics, seen, rflags_if, ticks>>

\* The CPU's part of syscall: rcx and r11 take the return address and the
\* flags, SFMASK clears IF.  Without SCE it is an invalid opcode, for which the
\* IDT has no handler; with SCE but no LSTAR it jumps to nowhere.
exec_syscall ==
  /\ phase = "user" /\ insn.op = "syscall"
  /\ IF stage = "SceEnabledExperimental"
       THEN /\ regs' = [regs EXCEPT !["rcx"] = ip + 1,
                                    !["r11"] = IF rflags_if THEN 1 ELSE 0]
            /\ rflags_if' = FALSE
            /\ phase' = "fast_entry"
       ELSE /\ phase' = "dead"
            /\ UNCHANGED <<regs, rflags_if>>
  /\ UNCHANGED <<frame, iret_frame, rsp, user_rsp, gs_base, kernel_gs_base,
                 program, boot, statics, seen, ticks>>

\* The CPU's part of int n: the interrupt gate clears IF and the stack is the
\* one in TSS.rsp0.
exec_int ==
  /\ phase = "user" /\ insn.op = "int"
  /\ phase' = IF insn.vector = 128 THEN "int80" ELSE "int81"
  /\ ip' = ip + 1
  /\ rflags_if' = FALSE
  /\ rsp' = "ring0_stack"
  /\ iret_frame' = [rsp |-> rsp, rflags_if |-> rflags_if]
  /\ UNCHANGED <<code, regs, frame, user_rsp, gs_base, kernel_gs_base,
                 boot, statics, seen, ticks>>
-----------------------------------------------------------------------------
(* Handlers; interrupts are off in all of them. *)

env == [ticks |-> ticks, pit_hz |-> PIT_HZ, usable |-> UsableBytes]

\* The CPU's part of iretq, back to ring 3.
iretq ==
  /\ rsp' = iret_frame.rsp /\ rflags_if' = iret_frame.rflags_if
  /\ phase' = "user"

\* int 0x80: push every register, dispatch on the pushed copy, pop, iretq.
jingos_syscall_interrupt_entry ==
  /\ phase = "int80"
  /\ regs' = handle_interrupt_from_registers(env, regs)
  /\ iretq
  /\ UNCHANGED <<frame, iret_frame, user_rsp, gs_base, kernel_gs_base,
                 program, boot, statics, seen, ticks>>

\* syscall, up to the call of the bridge: swapgs, save and load rsp in the block
\* that gs points to, push.
jingos_fast_syscall_entry ==
  /\ phase = "fast_entry"
  /\ gs_base' = kernel_gs_base /\ kernel_gs_base' = gs_base
  /\ user_rsp' = IF gs_base' = "percpu" THEN rsp ELSE user_rsp
  /\ rsp' = IF gs_base' = "percpu" THEN "syscall_stack" ELSE "none"
  /\ frame' = regs
  /\ phase' = "fast_body"
  /\ UNCHANGED <<regs, iret_frame, program, boot, statics, seen, rflags_if, ticks>>

syscall_interrupt_dispatch_bridge_OneSwapgs ==
  /\ phase = "fast_body"
  /\ LET handled == handle_interrupt_from_registers(env, frame)
     IN  regs' = [handled EXCEPT !["r10"] = handled["rcx"],
                                 !["rcx"] = frame["rcx"],
                                 !["r11"] = frame["r11"]]
  /\ ip' = frame["rcx"] /\ rflags_if' = (frame["r11"] = 1)
  /\ rsp' = IF gs_base = "percpu" THEN user_rsp ELSE "none"
  /\ phase' = "user"
  /\ UNCHANGED <<code, frame, iret_frame, user_rsp, gs_base, kernel_gs_base,
                 boot, statics, seen, ticks>>

\* The rest of it: the status moves from rcx to r10, because sysretq takes the
\* return address and the flags from the rcx and r11 pushed first.
syscall_interrupt_dispatch_bridge ==
  /\ phase = "fast_body"
  /\ LET handled == handle_interrupt_from_registers(env, frame)
         popped  == [handled EXCEPT !["r10"] = handled["rcx"],
                                    !["rcx"] = frame["rcx"],
                                    !["r11"] = frame["r11"]]
     IN  /\ regs' = popped
         /\ ip' = popped["rcx"]
         /\ rflags_if' = (popped["r11"] = 1)
  /\ rsp' = IF gs_base = "percpu" THEN user_rsp ELSE "none"
  /\ gs_base' = kernel_gs_base /\ kernel_gs_base' = gs_base
  /\ phase' = "user"
  /\ UNCHANGED <<code, frame, iret_frame, user_rsp, boot, statics, seen, ticks>>

\* int 0x81, first half: an exit nobody expects is ignored.
handle_exit_interrupt_from_registers ==
  /\ phase = "int81"
  /\ USERMODE_EXIT_EXPECTED' = FALSE
  /\ IF ~ USERMODE_EXIT_EXPECTED
       THEN /\ iretq
            /\ UNCHANGED <<PENDING_FAST_SYSCALL_KIND, LAST_FAST_SYSCALL_REPORT>>
       ELSE /\ PENDING_FAST_SYSCALL_KIND' = None
            /\ LAST_FAST_SYSCALL_REPORT' =
                 IF PENDING_FAST_SYSCALL_KIND = None
                   THEN None
                   ELSE [kind |-> PENDING_FAST_SYSCALL_KIND,
                         call0_value |-> regs["r8"],
                         call0_status |-> regs["r9"],
                         call1_value |-> regs["r10"],
                         call1_status |-> regs["r12"]]
            /\ phase' = "resume"
            /\ UNCHANGED <<rsp, rflags_if>>
  /\ UNCHANGED <<regs, frame, iret_frame, user_rsp, gs_base, kernel_gs_base,
                 program, boot, seen, ticks>>

\* Second half: take and print the report, enable interrupts, start a new
\* input loop on the stack of the interrupt.  kernel_main has stored the
\* MONITOR_CONTEXT it needs before the first command.
resume_monitor_after_usermode_exit ==
  /\ phase = "resume"
  /\ shown' = LAST_FAST_SYSCALL_REPORT
  /\ LAST_FAST_SYSCALL_REPORT' = None
  /\ outcome' = "returned"
  /\ rflags_if' = TRUE
  /\ phase' = "monitor"
  /\ UNCHANGED <<cpu, program, boot, session, ticks,
                 PENDING_FAST_SYSCALL_KIND, USERMODE_EXIT_EXPECTED>>

\* The timer interrupt, taken between two instructions; it restores everything.
timer_interrupt_handler ==
  /\ rflags_if /\ phase \in {"monitor", "user"} /\ ticks < TickHorizon
  /\ ticks' = ticks + 1
  /\ UNCHANGED <<phase, cpu, program, boot, statics, seen, rflags_if>>

-----------------------------------------------------------------------------
Handler == \/ jingos_syscall_interrupt_entry
           \/ jingos_fast_syscall_entry
           \/ syscall_interrupt_dispatch_bridge
           \/ handle_exit_interrupt_from_registers
           \/ resume_monitor_after_usermode_exit

UserStep == exec_local \/ exec_syscall \/ exec_int

Next == \/ kernel_main
        \/ \E kind \in Kinds : run_demo_code(kind)
        \/ UserStep
        \/ Handler
        \/ timer_interrupt_handler

Spec == Init /\ [][Next]_vars

\* A CPU that is not halted executes its next instruction.
FairSpec == Spec /\ WF_vars(UserStep) /\ WF_vars(Handler)

-----------------------------------------------------------------------------
(* Properties. *)

Stacks == {"boot_stack", "user_stack", "syscall_stack", "ring0_stack", "none"}
Bases  == {"none", "user", "percpu"}

\* Every register and static has its type: a sum that does not fit a register is
\* an error, never a value.
TypeOK ==
  /\ phase \in {"boot", "off", "monitor", "user", "int80", "int81", "fast_entry",
                "fast_body", "resume", "dead"}
  /\ outcome \in {"none", "refused", "returned"}
  /\ code \in {<<>>} \cup {CodeOf(kind) : kind \in Kinds}
  /\ ip \in Nat
  /\ regs \in [RegisterNames -> Word] /\ frame \in [RegisterNames -> Word]
  /\ iret_frame \in [rsp : Stacks, rflags_if : BOOLEAN]
  /\ rsp \in Stacks /\ user_rsp \in Stacks
  /\ gs_base \in Bases /\ kernel_gs_base \in Bases
  /\ rflags_if \in BOOLEAN /\ context \in BOOLEAN
  /\ ticks \in 0 .. TickHorizon
  /\ stage \in {"Uninitialized", "UnsupportedCpu", "Scaffolded",
                "MsrProgrammedNoSce", "SceEnabledExperimental"}
  /\ PENDING_FAST_SYSCALL_KIND \in Kinds
  /\ LAST_FAST_SYSCALL_REPORT \in Report \cup {None}
  /\ USERMODE_EXIT_EXPECTED \in BOOLEAN
  /\ shown \in Report \cup {None}
  /\ session \in [kind : Kinds, start : 0 .. TickHorizon]

\* What the monitor prints after a session is the answer of that session: a
\* fast-syscall demo is reported under its own kind, as passed, with a tick
\* count read while it ran; the int 0x80 demo reports nothing.  The values
\* survive the second call, whose stub overwrites r10 and rcx.
ReportIsOfThisSession ==
  outcome = "returned" =>
    IF session.kind = None
      THEN shown = None
      ELSE /\ shown # None
           /\ shown.kind = session.kind
           /\ passed(shown)
           /\ session.kind = "SuccessPath" =>
                shown.call0_value \in session.start .. ticks

\* Whenever the monitor runs it runs with interrupts on, on a kernel stack, and
\* no session leaves a trace in the statics: the next launch starts clean.
CleanHandover ==
  phase = "monitor" =>
    /\ rflags_if
    /\ rsp \in {"boot_stack", "ring0_stack"}
    /\ ~ USERMODE_EXIT_EXPECTED
    /\ PENDING_FAST_SYSCALL_KIND = None
    /\ LAST_FAST_SYSCALL_REPORT = None

\* The entry stubs undo themselves: whenever ring 3 runs it runs on its own
\* stack and gs base, with interrupts on, and the per-CPU block is parked in
\* KERNEL_GS_BASE if boot has put it there.  The body of a fast system call
\* sees the per-CPU block and its own stack, interrupts off.
StubsBalance ==
  /\ phase = "user" =>
       /\ rflags_if /\ rsp = "user_stack" /\ gs_base = "user"
       /\ stage = "SceEnabledExperimental" => kernel_gs_base = "percpu"
  /\ phase = "fast_body" =>
       ~ rflags_if /\ rsp = "syscall_stack" /\ gs_base = "percpu"

\* Sessions of usermode.rs and the stubs of syscall.rs leave the machine as they
\* found it.
MachineIsSound == TypeOK /\ CleanHandover /\ StubsBalance

\* No session reaches the jmp $ behind its int 0x81: the exit is always
\* expected, and never the "ignored unexpected int 0x81" that would return.
NeverHangs == phase = "user" => insn.op # "hang"

\* The machine is lost to a session only if it executed syscall on a CPU that
\* boot left without SCE, which the int 0x80 demo never does.
DiesOnlyWithoutSce ==
  phase = "dead" => session.kind # None /\ stage # "SceEnabledExperimental"

\* A session of run_demo_code never hangs, and loses the machine only to a
\* missing SCE.
SessionsEndWell == NeverHangs /\ DiesOnlyWithoutSce

\* A session keeps the promise of module Session: every launch is refused, or
\* answered exactly once and under its own kind, or loses the machine.
Promise == INSTANCE Session WITH
  FastKinds <- FastKinds,
  PlainKind <- None,
  mode <- CASE phase \in {"boot", "off", "monitor"} -> "monitor"
            [] phase = "dead"                       -> "dead"
            [] OTHER                                -> "ring3",
  kind <- session.kind,
  told <- IF outcome = "none" THEN "nothing"
          ELSE IF outcome = "refused" THEN "refused"
          ELSE IF shown = None THEN "returned"
          ELSE IF passed(shown) THEN "passed" ELSE "unexpected"

\* run_demo_code to resume_monitor_after_usermode_exit, seen as one session.
KeepsPromise == Promise!Spec
=============================================================================
