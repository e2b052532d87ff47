------------------------------- MODULE Syscall -------------------------------
(***************************************************************************)
(* The system calls of kernel/src/syscall.rs as pure functions: what       *)
(* dispatch computes, how a result travels in registers, and how the       *)
(* caller reads it back.  `env` is the kernel state a call may read: the   *)
(* tick counter, the PIT rate and the memory summary (None before boot has *)
(* set it).                                                                *)
(***************************************************************************)
EXTENDS Integers

CONSTANTS
  U64,         \* u64::MAX
  FRAME_SIZE,  \* Size4KiB::SIZE
  NoSummary    \* kernel_memory_summary() = None

ASSUME WidthAssumption ==
  U64 \in Nat /\ FRAME_SIZE \in Nat \ {0} /\ NoSummary \notin Nat

SYSCALL_GET_TICKS          == 0
SYSCALL_GET_UPTIME_SECONDS == 1
SYSCALL_ADD                == 2
SYSCALL_GET_USABLE_MEMORY  == 3
SYSCALL_GET_USABLE_FRAMES  == 4

SYSCALL_STATUS_OK                  == 0
SYSCALL_STATUS_UNKNOWN_NUMBER      == 1
SYSCALL_STATUS_OVERFLOW            == 2
SYSCALL_STATUS_CONTEXT_UNAVAILABLE == 3

Word == 0 .. U64

\* What dispatch reads: ticks(), pit_hz() and the usable bytes of the summary,
\* from which summarize_memory also computes the usable frames.
Env == [ticks : Word, pit_hz : Word \ {0}, usable : Word \cup {NoSummary}]

\* Result<u64, SyscallError>; UnknownNumber carries the number.
Value(v)           == [err |-> "none", value |-> v]
UnknownNumber(n)   == [err |-> "UnknownNumber", value |-> n]
Overflow           == [err |-> "Overflow", value |-> 0]
ContextUnavailable == [err |-> "ContextUnavailable", value |-> 0]

Results ==
  [err : {"none", "UnknownNumber", "Overflow", "ContextUnavailable"},
   value : Word]

checked_add(a, b) == IF a + b > U64 THEN Overflow ELSE Value(a + b)

FromSummary(usable, v) ==
  IF usable = NoSummary THEN ContextUnavailable ELSE Value(v)

dispatch(env, number, arg0, arg1) ==
  CASE number = SYSCALL_GET_TICKS          -> Value(env.ticks)
    [] number = SYSCALL_GET_UPTIME_SECONDS -> Value(env.ticks \div env.pit_hz)
    [] number = SYSCALL_ADD                -> checked_add(arg0, arg1)
    [] number = SYSCALL_GET_USABLE_MEMORY  -> FromSummary(env.usable, env.usable)
    [] number = SYSCALL_GET_USABLE_FRAMES  ->
         FromSummary(env.usable, env.usable \div FRAME_SIZE)
    [] OTHER                               -> UnknownNumber(number)

\* Mutant: the number of an unknown call is not passed on.
encode_error_DropsNumber(error) ==
  [value |-> 0,
   status |-> CASE error.err = "UnknownNumber" -> SYSCALL_STATUS_UNKNOWN_NUMBER
                [] error.err = "Overflow"      -> SYSCALL_STATUS_OVERFLOW
                [] OTHER                       -> SYSCALL_STATUS_CONTEXT_UNAVAILABLE]

\* The pair of registers an error is returned in.
encode_error(error) ==
  CASE error.err = "UnknownNumber"      ->
         [value |-> error.value, status |-> SYSCALL_STATUS_UNKNOWN_NUMBER]
    [] error.err = "Overflow"           ->
         [value |-> 0, status |-> SYSCALL_STATUS_OVERFLOW]
    [] error.err = "ContextUnavailable" ->
         [value |-> 0, status |-> SYSCALL_STATUS_CONTEXT_UNAVAILABLE]

\* What the register file `r` holds after the handler: rax is the value and
\* rcx the status, everything else is as it was.
handle_interrupt_from_registers(env, r) ==
  LET result  == dispatch(env, r["rax"], r["rdi"], r["rsi"])
      encoded == IF result.err = "none"
                   THEN [value |-> result.value, status |-> SYSCALL_STATUS_OK]
                   ELSE encode_error(result)
  IN  [r EXCEPT !["rax"] = encoded.value, !["rcx"] = encoded.status]

decode_response(status, value) ==
  CASE status = SYSCALL_STATUS_OK             -> Value(value)
    [] status = SYSCALL_STATUS_UNKNOWN_NUMBER -> UnknownNumber(value)
    [] status = SYSCALL_STATUS_OVERFLOW       -> Overflow
    [] OTHER                                  -> ContextUnavailable

\* The registers of SyscallRegisters that a call reads, writes or must keep.
RegisterNames ==
  {"rax", "rcx", "rdx", "rsi", "rdi", "r8", "r9", "r10", "r11", "r12"}

\* int 0x80 issued by the kernel itself, as userdemo does.
invoke_via_interrupt(env, number, arg0, arg1) ==
  LET before == [[n \in RegisterNames |-> 0] EXCEPT
                   !["rax"] = number, !["rdi"] = arg0, !["rsi"] = arg1]
      after  == handle_interrupt_from_registers(env, before)
  IN  decode_response(after["rcx"], after["rax"])
=============================================================================
