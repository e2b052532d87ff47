--------------------------------- MODULE Pit ---------------------------------
(***************************************************************************)
(* The timer's rate: program_pit and set_pit_hz of                         *)
(* kernel/src/interrupts.rs, the monitor's timerhz and uptime and the      *)
(* system call get_uptime_seconds.                                         *)
(*                                                                         *)
(* The PIT divides PIT_INPUT_HZ by a 16-bit divisor, sent as two bytes;    *)
(* the kernel keeps the rate, rounded down, in CURRENT_PIT_HZ.  All that   *)
(* is known of time is the number of ticks and the rate in force now.      *)
(* Module UserDemo composes the timer with the system calls that read it.  *)
(***************************************************************************)
EXTENDS Integers

CONSTANTS
  PIT_INPUT_HZ, PIT_MIN_HZ, PIT_MAX_HZ,
  BYTE,        \* 256: one more than a byte holds
  U32_MAX,
  BOOT_HZ,     \* the rate interrupts::init asks for
  Requests,    \* the numbers timerhz is given
  TickHorizon  \* bound: the clock stops here

U16_MAX == BYTE * BYTE - 1

\* The slowest rate the kernel allows needs a divisor that fits 16 bits.
ASSUME PitAssumption ==
  /\ PIT_INPUT_HZ \in Nat \ {0} /\ PIT_MIN_HZ \in Nat \ {0} /\ PIT_MAX_HZ = PIT_INPUT_HZ
  /\ PIT_MIN_HZ <= PIT_MAX_HZ
  /\ BYTE \in Nat \ {0} /\ PIT_INPUT_HZ \div PIT_MIN_HZ <= U16_MAX
  /\ U32_MAX \in Nat /\ PIT_MAX_HZ <= U32_MAX /\ BOOT_HZ \in 0 .. U32_MAX /\ Requests \subseteq Nat
  /\ TickHorizon \in Nat

VARIABLES
  TICKS,
  CURRENT_PIT_HZ,
  reload        \* the divisor the PIT counts down from

timer == <<TICKS, CURRENT_PIT_HZ, reload>>

clamp(x, lo, hi) == IF x < lo THEN lo ELSE IF x > hi THEN hi ELSE x

divisor(requested_hz) ==
  clamp(PIT_INPUT_HZ \div clamp(requested_hz, PIT_MIN_HZ, PIT_MAX_HZ), 1, U16_MAX)

\* The rate program_pit returns.
programmed_hz(requested_hz) ==
  clamp(PIT_INPUT_HZ \div divisor(requested_hz), PIT_MIN_HZ, PIT_MAX_HZ)

\* Mutants (here and below, named after what they get wrong).
channel0_HighByteLost(d) == d % BYTE

\* The two writes to channel 0, put together again by the PIT.
channel0(d) == LET low == d % BYTE
                   high == (d \div BYTE) % BYTE
               IN low + BYTE * high

\* interrupts::init ends with set_pit_hz(100).
PitInit ==
  /\ TICKS = 0
  /\ CURRENT_PIT_HZ = programmed_hz(BOOT_HZ)
  /\ reload = channel0(divisor(BOOT_HZ))

\* timerhz: u64 cut to u32, then program_pit with interrupts off.
timerhz(raw) ==
  LET requested_hz == IF raw > U32_MAX THEN U32_MAX ELSE raw
  IN /\ reload' = channel0(divisor(requested_hz))
     /\ CURRENT_PIT_HZ' = programmed_hz(requested_hz)
     /\ UNCHANGED TICKS

timer_interrupt_handler ==
  /\ TICKS < TickHorizon
  /\ TICKS' = TICKS + 1
  /\ UNCHANGED <<CURRENT_PIT_HZ, reload>>

PitNext == timer_interrupt_handler \/ \E raw \in Requests : timerhz(raw)

PitSpec == PitInit /\ [][PitNext]_timer

\* uptime, and get_uptime_seconds.
seconds == TICKS \div CURRENT_PIT_HZ

centiseconds_Unreduced == (TICKS * 100) \div CURRENT_PIT_HZ

centiseconds == ((TICKS % CURRENT_PIT_HZ) * 100) \div CURRENT_PIT_HZ

-----------------------------------------------------------------------------
(* Properties. *)

\* program_pit keeps rate and divisor in range: the divisor fits 16 bits and is
\* never the zero the PIT would take for 65536.
PitTypeOK ==
  /\ TICKS \in 0 .. TickHorizon
  /\ CURRENT_PIT_HZ \in PIT_MIN_HZ .. PIT_MAX_HZ
  /\ reload \in 1 .. U16_MAX

\* The rate the kernel computes with is the rate of the divisor in the PIT,
\* rounded down: they are set by one command and never drift apart.
RateIsTheDivisors == CURRENT_PIT_HZ = PIT_INPUT_HZ \div reload

\* Asking for the rate timerhz reports changes nothing, neither the rate nor the
\* divisor: a script that asks for old_hz again restores the timer exactly.
ReportedRateIsAFixpoint ==
  divisor(CURRENT_PIT_HZ) = reload /\ programmed_hz(CURRENT_PIT_HZ) = CURRENT_PIT_HZ

\* timerhz never makes the timer slower than asked: with the rate rounded down
\* through a divisor rounded down, the new rate is at least the request, cut to
\* what the PIT can do.
NeverSlowerThanAsked ==
  [][\A raw \in Requests : timerhz(raw) =>
       CURRENT_PIT_HZ' >= clamp(raw, PIT_MIN_HZ, PIT_MAX_HZ)]_timer

\* uptime prints two digits after the point, and its reading goes back only
\* when timerhz changes the rate all earlier ticks are counted at.
UptimeGoesBackOnlyByTimerhz ==
  [][/\ centiseconds' \in 0 .. 99
     /\ CURRENT_PIT_HZ' = CURRENT_PIT_HZ =>
          100 * seconds + centiseconds <= 100 * seconds' + centiseconds']_timer
==============================================================================
