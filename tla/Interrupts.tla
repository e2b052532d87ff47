----------------------------- MODULE Interrupts -----------------------------
(***************************************************************************)
(* The interrupt side of the kernel (kernel/src/interrupts.rs) against the *)
(* input loop of main.rs, one processor.                                   *)
(*                                                                         *)
(* The thread drains SCANCODE_BUFFER, handles what it got, may print the   *)
(* keyboard counters, and halts; the two handlers run between any two of   *)
(* its steps at which interrupts are enabled.  Both sides take the same    *)
(* spin lock: a handler that finds it held by the thread it interrupted    *)
(* would spin for ever, so the thread takes it with interrupts disabled.   *)
(* The interrupt controller, the timer chip and the keyboard are external. *)
(***************************************************************************)
EXTENDS ScancodeBuffer

CONSTANTS
  U64_MAX,        \* the tick counter wraps past this
  PS2_QUEUE,      \* bound: bytes the keyboard holds back
  KeyHorizon      \* bound: bytes the keyboard sends in all

ASSUME InterruptsAssumption ==
  U64_MAX \in Nat /\ PS2_QUEUE \in Nat /\ KeyHorizon \in Nat

VARIABLES
  SCANCODE_BUFFER,
  buffer_lock, pics_lock,     \* the owner of each spin lock, or "free"
  TICKS, KEYBOARD_IRQS,
  rflags_if,
  irr, isr, unmasked,         \* interrupt controller: requested, in service
  ps2, sent,                  \* keyboard: bytes waiting, bytes sent in all
  pc, op,                     \* the thread, and why it wants the buffer
  handler, hpc, byte,         \* the running handler, its step, its scancode
  got,                        \* what the last pop_scancode returned
  count, printed,             \* keyboard_counters: first load, result
  taken                       \* history: scancodes handed to the loop

buffer == <<SCANCODE_BUFFER, buffer_lock, got, taken>>
clock  == <<TICKS, KEYBOARD_IRQS>>
pic    == <<irr, isr, unmasked>>
kbd    == <<ps2, sent>>
irq    == <<handler, hpc, byte, pics_lock>>
stats  == <<count, printed>>
vars   == <<buffer, clock, pic, kbd, irq, stats, rflags_if, pc, op>>

Init ==
  /\ SCANCODE_BUFFER = new
  /\ buffer_lock = "free" /\ pics_lock = "free"
  /\ TICKS = 0 /\ KEYBOARD_IRQS = 0
  /\ rflags_if = FALSE
  /\ irr = {} /\ isr = {} /\ unmasked = {}
  /\ ps2 = <<>> /\ sent = 0
  /\ pc = "boot" /\ op = "pop"
  /\ handler = "none" /\ hpc = "none" /\ byte = NoScancode
  /\ got = NoScancode /\ taken = 0
  /\ count = 0 /\ printed = [count |-> 0, dropped |-> 0]

\* interrupts::init: the thread owns PICS only with interrupts off.
init ==
  /\ pc = "boot"
  /\ unmasked' = {"Timer", "Keyboard"}
  /\ rflags_if' = TRUE
  /\ pc' = "loop"
  /\ UNCHANGED <<buffer, clock, irr, isr, kbd, irq, stats, op>>

-----------------------------------------------------------------------------
(* Hardware. *)

\* The timer chip; a request that is still pending absorbs the next one.
PitTick ==
  /\ "Timer" \notin irr
  /\ irr' = irr \cup {"Timer"}
  /\ UNCHANGED <<buffer, clock, isr, unmasked, kbd, irq, stats, rflags_if, pc, op>>

\* The keyboard requests an interrupt for each byte it offers at port 0x60.
KeyByte(scancode) ==
  /\ sent < KeyHorizon /\ Len(ps2) < PS2_QUEUE
  /\ sent' = sent + 1
  /\ ps2' = Append(ps2, scancode)
  /\ irr' = IF ps2 = <<>> THEN irr \cup {"Keyboard"} ELSE irr
  /\ UNCHANGED <<buffer, clock, isr, unmasked, irq, stats, rflags_if, pc, op>>

\* The controller holds a request back while one of the same or a higher
\* priority is in service.
Deliverable(i) ==
  /\ i \in irr \cap unmasked
  /\ IF i = "Timer" THEN "Timer" \notin isr
                    ELSE isr = {} /\ "Timer" \notin irr

\* The CPU takes an interrupt: the gate clears IF, and hlt is over.
TakeInterrupt(i) ==
  /\ rflags_if /\ handler = "none"
  /\ Deliverable(i)
  /\ irr' = irr \ {i} /\ isr' = isr \cup {i}
  /\ rflags_if' = FALSE
  /\ handler' = i
  /\ hpc' = IF i = "Timer" THEN "tick" ELSE "read_port"
  /\ pc' = IF pc = "hlt" THEN "loop" ELSE pc
  /\ UNCHANGED <<buffer, clock, unmasked, kbd, byte, pics_lock, stats, op>>

-----------------------------------------------------------------------------
(* Handlers. *)

At(step) == handler # "none" /\ hpc = step

timer_fetch_add ==
  /\ At("tick")
  /\ TICKS' = (TICKS + 1) % (U64_MAX + 1)
  /\ hpc' = "lock_pics"
  /\ UNCHANGED <<buffer, KEYBOARD_IRQS, pic, kbd, handler, byte, pics_lock,
                 stats, rflags_if, pc, op>>

\* Reading the port lets the keyboard offer its next byte.
keyboard_read_port ==
  /\ At("read_port")
  /\ byte' = Head(ps2) /\ ps2' = Tail(ps2)
  /\ irr' = IF ps2' # <<>> THEN irr \cup {"Keyboard"} ELSE irr
  /\ KEYBOARD_IRQS' = KEYBOARD_IRQS + 1
  /\ hpc' = "lock_buffer"
  /\ UNCHANGED <<buffer, TICKS, isr, unmasked, sent, handler, pics_lock,
                 stats, rflags_if, pc, op>>

keyboard_lock_buffer ==
  /\ At("lock_buffer") /\ buffer_lock = "free"
  /\ buffer_lock' = "handler"
  /\ hpc' = "push"
  /\ UNCHANGED <<SCANCODE_BUFFER, got, taken, clock, pic, kbd, handler, byte,
                 pics_lock, stats, rflags_if, pc, op>>

\* The guard is a temporary of the statement, so the lock is free after it.
keyboard_push ==
  /\ At("push")
  /\ SCANCODE_BUFFER' = push(SCANCODE_BUFFER, byte)
  /\ buffer_lock' = "free"
  /\ hpc' = "lock_pics"
  /\ UNCHANGED <<got, taken, clock, pic, kbd, handler, byte, pics_lock,
                 stats, rflags_if, pc, op>>

lock_pics ==
  /\ At("lock_pics") /\ pics_lock = "free"
  /\ pics_lock' = "handler"
  /\ hpc' = "eoi"
  /\ UNCHANGED <<buffer, clock, pic, kbd, handler, byte, stats, rflags_if, pc, op>>

notify_end_of_interrupt ==
  /\ At("eoi")
  /\ isr' = isr \ {handler}
  /\ pics_lock' = "free"
  /\ hpc' = "iretq"
  /\ UNCHANGED <<buffer, clock, irr, unmasked, kbd, handler, byte, stats,
                 rflags_if, pc, op>>

iretq ==
  /\ At("iretq")
  /\ handler' = "none" /\ hpc' = "none" /\ byte' = NoScancode
  /\ rflags_if' = TRUE
  /\ UNCHANGED <<buffer, clock, pic, kbd, pics_lock, stats, pc, op>>

-----------------------------------------------------------------------------
(* The thread: it runs when no handler does. *)

Thread(step) == handler = "none" /\ pc = step

others == <<clock, pic, kbd, irq>>

\* Mutant: the lock is taken with interrupts enabled.
disable_IrqsOn(o) ==
  /\ Thread(IF o = "pop" THEN "loop" ELSE "counted")
  /\ op' = o
  /\ pc' = "lock"
  /\ UNCHANGED <<buffer, others, stats, rflags_if>>

\* without_interrupts, around a use of the buffer by pop_scancode or by the
\* second half of keyboard_counters: disable, lock, use and unlock, enable.
disable(o) ==
  /\ Thread(IF o = "pop" THEN "loop" ELSE "counted")
  /\ op' = o
  /\ rflags_if' = FALSE
  /\ pc' = "lock"
  /\ UNCHANGED <<buffer, others, stats>>

lock ==
  /\ Thread("lock") /\ buffer_lock = "free"
  /\ buffer_lock' = "thread"
  /\ pc' = "use"
  /\ UNCHANGED <<SCANCODE_BUFFER, got, taken, others, stats, rflags_if, op>>

pop_scancode ==
  /\ Thread("use") /\ op = "pop"
  /\ LET popped == pop(SCANCODE_BUFFER)
     IN  /\ SCANCODE_BUFFER' = popped.rest
         /\ got' = popped.value
         /\ taken' = IF popped.value = NoScancode THEN taken ELSE taken + 1
  /\ buffer_lock' = "free"
  /\ pc' = "enable"
  /\ UNCHANGED <<others, stats, rflags_if, op>>

read_dropped ==
  /\ Thread("use") /\ op = "counters"
  /\ printed' = [count |-> count, dropped |-> SCANCODE_BUFFER.dropped]
  /\ buffer_lock' = "free"
  /\ pc' = "enable"
  /\ UNCHANGED <<SCANCODE_BUFFER, got, taken, others, count, rflags_if, op>>

enable ==
  /\ Thread("enable")
  /\ rflags_if' = TRUE
  /\ pc' = CASE op = "counters"    -> "loop"
             [] got = NoScancode   -> "idle"
             [] OTHER              -> "handle"
  /\ UNCHANGED <<buffer, others, stats, op>>

\* handle_key_event; a command may print the keyboard counters.
handle_key_event ==
  /\ Thread("handle")
  /\ pc' \in {"loop", "count"}
  /\ UNCHANGED <<buffer, others, stats, rflags_if, op>>

\* First half of keyboard_counters, with interrupts enabled.
load_irqs ==
  /\ Thread("count")
  /\ count' = KEYBOARD_IRQS
  /\ pc' = "counted"
  /\ UNCHANGED <<buffer, others, printed, rflags_if, op>>

\* The rest of an iteration of input_loop, then hlt until an interrupt.
hlt ==
  /\ Thread("idle")
  /\ pc' = "hlt"
  /\ UNCHANGED <<buffer, others, stats, rflags_if, op>>

-----------------------------------------------------------------------------
Handler == \/ timer_fetch_add
           \/ keyboard_read_port \/ keyboard_lock_buffer \/ keyboard_push
           \/ lock_pics \/ notify_end_of_interrupt \/ iretq

ThreadStep == \/ \E o \in {"pop", "counters"} : disable(o)
              \/ lock \/ pop_scancode \/ read_dropped \/ enable
              \/ handle_key_event \/ load_irqs \/ hlt

Interrupt == \E i \in {"Timer", "Keyboard"} : TakeInterrupt(i)

Next == \/ init
        \/ PitTick
        \/ \E scancode \in Scancode : KeyByte(scancode)
        \/ Interrupt
        \/ Handler
        \/ ThreadStep

Spec == Init /\ [][Next]_vars

\* The processor executes, takes interrupts it is offered, and the timer chip
\* runs; nothing is assumed of the keyboard.  The loop is not starved by its
\* handlers: a handler is shorter than a period of the timer.
FairSpec ==
  /\ Spec
  /\ WF_vars(init) /\ WF_vars(PitTick) /\ WF_vars(Interrupt)
  /\ WF_vars(Handler) /\ SF_vars(ThreadStep)

-----------------------------------------------------------------------------
(* Properties. *)

\* The ring is consistent after every push and pop of interrupts.rs (indices and
\* length agree, every queued slot was written), TICKS stays within its width,
\* and every other variable has its type.
TypeOK ==
  /\ Consistent(SCANCODE_BUFFER)
  /\ buffer_lock \in {"free", "thread", "handler"}
  /\ pics_lock \in {"free", "handler"}
  /\ TICKS \in 0 .. U64_MAX /\ KEYBOARD_IRQS \in 0 .. KeyHorizon
  /\ rflags_if \in BOOLEAN
  /\ irr \subseteq {"Timer", "Keyboard"} /\ isr \subseteq {"Timer", "Keyboard"}
  /\ unmasked \subseteq {"Timer", "Keyboard"}
  /\ ps2 \in Seq(Scancode) /\ Len(ps2) <= PS2_QUEUE /\ sent \in 0 .. KeyHorizon
  /\ pc \in {"boot", "loop", "lock", "use", "enable", "handle", "count",
             "counted", "idle", "hlt"}
  /\ op \in {"pop", "counters"}
  /\ handler \in {"none", "Timer", "Keyboard"}
  /\ hpc \in {"none", "tick", "read_port", "lock_buffer", "push", "lock_pics",
              "eoi", "iretq"}
  /\ byte \in Scancode \cup {NoScancode} /\ got \in Scancode \cup {NoScancode}
  /\ count \in Nat /\ taken \in Nat
  /\ printed \in [count : Nat, dropped : Nat]

\* A handler never spins on a lock of the thread it interrupted: whenever it
\* wants SCANCODE_BUFFER or PICS, the lock is free.
HandlersNeverSpin ==
  /\ At("lock_buffer") => buffer_lock = "free"
  /\ At("lock_pics")   => pics_lock = "free"

\* Every keyboard interrupt is accounted for: its scancode went to the loop, is
\* queued, was counted as dropped, or is in the hands of the handler.
ScancodesConserved ==
  LET InHand == IF hpc \in {"lock_buffer", "push"} THEN 1 ELSE 0
  IN  KEYBOARD_IRQS = taken + SCANCODE_BUFFER.len + SCANCODE_BUFFER.dropped
                            + InHand

\* No byte is left behind at port 0x60: while the keyboard offers one, its
\* interrupt is requested or its handler has yet to read it.
OfferedIsRequested ==
  ps2 # <<>> => "Keyboard" \in irr \/ At("read_port")

\* The counters the monitor prints never hide a loss: whatever was counted and
\* not called dropped did reach the buffer.  The interrupt count is loaded
\* before the drop count, with interrupts enabled in between.
LossIsNotHidden ==
  printed.count <= taken + SCANCODE_BUFFER.len + printed.dropped

\* From port 0x60 to the loop of main.rs every scancode is where the counters of
\* interrupts.rs say it is.
ScancodesAreAccountedFor ==
  /\ TypeOK
  /\ ScancodesConserved
  /\ OfferedIsRequested
  /\ LossIsNotHidden

\* Scancodes reach the loop once each and in order; only a full buffer loses.
Fifo == INSTANCE BoundedFifo WITH
  Capacity <- SCANCODE_BUFFER_SIZE, Item <- Scancode, Nothing <- NoScancode,
  queue <- Contents(SCANCODE_BUFFER), dropped <- SCANCODE_BUFFER.dropped

\* The handlers and pop_scancode together behave as module BoundedFifo says.
IsFifo == Fifo!Spec

\* A queued scancode is taken, although the loop may have looked just before it
\* came and halted just after: the next timer interrupt ends the hlt.
QueuedIsTaken ==
  \A n \in 0 .. KeyHorizon :
    (SCANCODE_BUFFER.len > 0 /\ taken = n) ~> taken > n
=============================================================================
