----------------------------- MODULE CodecProofs -----------------------------
(***************************************************************************)
(* The kernel's two codes.  System calls: the register ABI loses nothing,  *)
(* for words of any width, and the clock the calls read keeps its rate.    *)
(* The keyboard: however the scancodes of the keys are cut and delayed,    *)
(* the decoder reads what was typed, for every set of keys.                *)
(***************************************************************************)
EXTENDS UserDemo, Keyboard, WellFoundedInduction, TLAPS

USE SMTT(90)

-----------------------------------------------------------------------------
(* Facts about sequences, the few that are used: every theorem a module      *)
(* imports is a hypothesis of each of its steps.                             *)

LEMMA CellInSet ==
  ASSUME NEW S, NEW seq \in Seq(S), NEW n \in 1..Len(seq)
  PROVE  seq[n] \in S
  OBVIOUS

LEMMA Cells ==
  ASSUME NEW S, NEW q \in Seq(S)
  PROVE  Len(q) \in Nat /\ q \in [1..Len(q) -> S] /\ DOMAIN q = 1..Len(q)
  OBVIOUS

LEMMA AppendsOne ==
  ASSUME NEW S, NEW q \in Seq(S), NEW e \in S
  PROVE  /\ Append(q, e) \in Seq(S) /\ Append(q, e) # <<>>
         /\ Len(Append(q, e)) = Len(q) + 1
         /\ \A i \in 1..Len(q) : Append(q, e)[i] = q[i]
         /\ Append(q, e)[Len(q) + 1] = e
  OBVIOUS

-----------------------------------------------------------------------------
(* The timer, for every input clock, limits and requests. *)

\* Dividing rounds down.
LEMMA DivBounds ==
  ASSUME NEW n \in Nat, NEW d \in Nat \ {0}
  PROVE  /\ n \div d \in Nat
         /\ d * (n \div d) <= n
         /\ n < d * (n \div d) + d
  OBVIOUS

\* The quotient is the largest number of times d fits.
LEMMA DivLargest ==
  ASSUME NEW n \in Nat, NEW d \in Nat \ {0}, NEW k \in Nat, d * k <= n
  PROVE  k <= n \div d
<1>1. /\ n \div d \in Nat /\ n < d * (n \div d) + d  BY DivBounds
<1>2. SUFFICES ASSUME n \div d + 1 <= k PROVE FALSE  BY <1>1
<1> DEFINE q == n \div d
<1>3. \E e \in Nat : k = q + 1 + e  
  <2>1. k - (q + 1) \in Nat /\ k = q + 1 + (k - (q + 1)) BY <1>1, <1>2
  <2> QED BY <2>1
<1>4. PICK e \in Nat : k = q + 1 + e  BY <1>3
<1> HIDE DEF q
<1>5. q \in Nat BY <1>1 DEF q
<1>6. d * k = d * q + d + d * e  BY <1>4, <1>5
<1>7. d * e >= 0 BY <1>4
<1>8. n < d * q + d BY <1>1 DEF q
<1> QED BY <1>4, <1>5, <1>6, <1>7, <1>8

\* A larger divisor gives no larger quotient.
LEMMA DivAntitone ==
  ASSUME NEW n \in Nat, NEW d \in Nat \ {0}, NEW e \in Nat \ {0}, d <= e
  PROVE  n \div e <= n \div d
<1> DEFINE q == n \div e
<1>1. q \in Nat /\ e * q <= n  BY DivBounds
<1> HIDE DEF q
<1>2. d * q <= e * q BY <1>1
<1>3. d * q <= n /\ d * q \in Nat BY <1>1, <1>2
<1>4. q <= n \div d BY <1>1, <1>3, DivLargest
<1> QED BY <1>4 DEF q

\* Dividing by a quotient and again by the result comes back to the quotient.
LEMMA DivFixpoint ==
  ASSUME NEW n \in Nat \ {0}, NEW h \in 1 .. n
  PROVE  LET q == n \div h
             p == n \div q
         IN q \in 1 .. n /\ h <= p /\ p <= n /\ n \div p = q
<1> DEFINE q == n \div h
           p == n \div q
           r == n \div p
<1>0. /\ n \in Nat /\ h \in Nat \ {0} /\ 1 \in Nat \ {0}
      /\ 1 <= h /\ h <= n /\ n \div 1 = n
  OBVIOUS
<1>1. q \in Nat /\ h * q <= n  BY <1>0, DivBounds
<1>2. 1 <= q
  <2>1. h * 1 <= n OBVIOUS
  <2> QED BY <2>1, DivLargest
<1>3. q <= n
  <2>1. n \div h <= n \div 1 BY ONLY <1>0, DivAntitone, Zenon
  <2> QED BY <1>0, <2>1
<1> HIDE DEF q
<1>4. p \in Nat /\ q * p <= n  BY <1>1, <1>2, DivBounds
<1>5. h <= p
  <2>1. q * h <= n BY <1>1
  <2> QED BY <2>1, <1>1, <1>2, DivLargest
<1>6. p <= n
  <2>0. q \in Nat \ {0} /\ 1 <= q BY <1>1, <1>2
  <2>1. n \div q <= n \div 1 BY ONLY <1>0, <2>0, DivAntitone, Zenon
  <2> QED BY <1>0, <2>1
<1> HIDE DEF p
<1>7. r <= q
  <2>0. p \in Nat \ {0} /\ h <= p BY <1>0, <1>4, <1>5
  <2>1. n \div p <= n \div h BY ONLY <1>0, <2>0, DivAntitone, Zenon
  <2> QED BY <2>1 DEF q
<1>8. q <= r
  <2>1. p * q <= n /\ p \in Nat \ {0} BY <1>1, <1>4, <1>5
  <2> QED BY <2>1, <1>1, DivLargest
<1>9. r \in Nat BY <1>4, <1>5, DivBounds
<1> QED BY <1>1, <1>2, <1>3, <1>4, <1>5, <1>6, <1>7, <1>8, <1>9 DEF p, q

-----------------------------------------------------------------------------
(* program_pit. *)

\* No clamp after the first one ever applies, and the PIT gets the divisor.
LEMMA Programmed ==
  ASSUME NEW requested \in Nat
  PROVE  LET hz == clamp(requested, PIT_MIN_HZ, PIT_MAX_HZ)
             d  == divisor(requested)
             p  == programmed_hz(requested)
         IN /\ hz \in PIT_MIN_HZ .. PIT_MAX_HZ
            /\ d = PIT_INPUT_HZ \div hz /\ d \in 1 .. U16_MAX
            /\ p = PIT_INPUT_HZ \div d /\ p \in PIT_MIN_HZ .. PIT_MAX_HZ /\ hz <= p
            /\ divisor(p) = d /\ programmed_hz(p) = p
<1> DEFINE hz == clamp(requested, PIT_MIN_HZ, PIT_MAX_HZ)
           q  == PIT_INPUT_HZ \div hz
           p  == PIT_INPUT_HZ \div q
<1>1. hz \in PIT_MIN_HZ .. PIT_MAX_HZ  BY PitAssumption DEF clamp
<1> HIDE DEF hz
<1>2. /\ hz \in 1 .. PIT_INPUT_HZ /\ PIT_INPUT_HZ \in Nat \ {0}
      /\ hz \in Nat \ {0} /\ PIT_MIN_HZ \in Nat \ {0} /\ PIT_MIN_HZ <= hz
  BY <1>1, PitAssumption
<1>3. q \in 1 .. PIT_INPUT_HZ /\ hz <= p /\ p <= PIT_INPUT_HZ /\ PIT_INPUT_HZ \div p = q
  BY <1>2, DivFixpoint, Zenon
<1>4. q <= PIT_INPUT_HZ \div PIT_MIN_HZ  BY <1>2, DivAntitone, Zenon
<1>5. U16_MAX \in Int  BY PitAssumption DEF U16_MAX
<1>6. q \in 1 .. U16_MAX  BY <1>3, <1>4, <1>5, PitAssumption, DivBounds
<1> HIDE DEF q
<1>7. p \in Nat  BY <1>2, <1>3, DivBounds
<1> HIDE DEF p
<1>8. divisor(requested) = q  BY <1>5, <1>6 DEF divisor, clamp, hz, q
<1>9. p \in PIT_MIN_HZ .. PIT_MAX_HZ  BY <1>2, <1>3, <1>7, PitAssumption
<1>10. programmed_hz(requested) = p  BY <1>8, <1>9, PitAssumption DEF programmed_hz, clamp, p
<1>11. clamp(p, PIT_MIN_HZ, PIT_MAX_HZ) = p  BY <1>9, PitAssumption DEF clamp
<1>12. divisor(p) = q  BY <1>3, <1>5, <1>6, <1>11 DEF divisor, clamp
<1>13. programmed_hz(p) = p  BY <1>12, <1>9, PitAssumption DEF programmed_hz, clamp, p
<1> QED BY <1>1, <1>3, <1>6, <1>8, <1>9, <1>10, <1>12, <1>13 DEF p, q, hz

\* Two bytes carry every divisor.
LEMMA Channel0 ==
  ASSUME NEW d \in 1 .. U16_MAX
  PROVE  channel0(d) = d
<1> DEFINE h == d \div BYTE
<1>1. d \in Nat /\ BYTE \in Nat \ {0}  BY PitAssumption DEF U16_MAX
<1>2. h \in Nat /\ BYTE * h <= d  BY <1>1, DivBounds
<1>3. d = BYTE * h + (d % BYTE)  BY <1>1
<1> HIDE DEF h
<1>4. h < BYTE
  <2>1. BYTE * h < BYTE * BYTE  BY <1>1, <1>2 DEF U16_MAX
  <2>2. SUFFICES ASSUME BYTE <= h PROVE FALSE  BY <1>1, <1>2
  <2>3. BYTE * BYTE <= BYTE * h  BY <1>1, <1>2, <2>2
  <2> QED BY <2>1, <2>3, <1>1, <1>2
<1>5. h % BYTE = h  BY <1>1, <1>2, <1>4
<1>6. (d % BYTE) + BYTE * h = d  BY <1>1, <1>2, <1>3
<1> QED BY <1>5, <1>6 DEF channel0, h

-----------------------------------------------------------------------------
(* The invariant. *)

PitInv == PitTypeOK /\ RateIsTheDivisors /\ ReportedRateIsAFixpoint

\* What any request leaves behind.
LEMMA AnyRequest ==
  ASSUME NEW requested \in Nat
  PROVE  LET p == programmed_hz(requested)
             d == channel0(divisor(requested))
         IN /\ p \in PIT_MIN_HZ .. PIT_MAX_HZ /\ d \in 1 .. U16_MAX
            /\ p = PIT_INPUT_HZ \div d
            /\ divisor(p) = d /\ programmed_hz(p) = p
  BY Programmed, Channel0, Zenon

\* timerhz cuts to u32 what it is given.
LEMMA Cut ==
  ASSUME NEW raw \in Requests
  PROVE  (IF raw > U32_MAX THEN U32_MAX ELSE raw) \in Nat
  BY PitAssumption, Zenon

LEMMA PitInvInit == PitInit => PitInv
<1> SUFFICES ASSUME PitInit PROVE PitInv  OBVIOUS
<1>1. BOOT_HZ \in Nat /\ TICKS \in 0 .. TickHorizon  BY PitAssumption DEF PitInit
<1> QED BY <1>1, AnyRequest DEF PitInit, PitInv, PitTypeOK, RateIsTheDivisors, ReportedRateIsAFixpoint

LEMMA PitInvNext == PitInv /\ [PitNext]_timer => PitInv'
<1> SUFFICES ASSUME PitInv, [PitNext]_timer PROVE PitInv'  OBVIOUS
<1> USE DEF PitInv, PitTypeOK, RateIsTheDivisors, ReportedRateIsAFixpoint
<1>1. CASE timer_interrupt_handler
  <2>1. TICKS' \in 0 .. TickHorizon  BY <1>1, PitAssumption DEF timer_interrupt_handler
  <2>2. CURRENT_PIT_HZ' = CURRENT_PIT_HZ /\ reload' = reload  BY <1>1 DEF timer_interrupt_handler
  <2> QED BY <2>1, <2>2
<1>2. CASE \E raw \in Requests : timerhz(raw)
  <2>1. PICK raw \in Requests : timerhz(raw)  BY <1>2
  <2> DEFINE requested == IF raw > U32_MAX THEN U32_MAX ELSE raw
  <2>2. requested \in Nat  BY Cut
  <2>3. /\ CURRENT_PIT_HZ' = programmed_hz(requested)
        /\ reload' = channel0(divisor(requested)) /\ TICKS' = TICKS
    BY <2>1, Zenon DEF timerhz
  <2> HIDE DEF requested
  <2> QED BY <2>2, <2>3, AnyRequest
<1>3. CASE UNCHANGED timer  BY <1>3 DEF timer
<1> QED BY <1>1, <1>2, <1>3 DEF PitNext

LEMMA PitInductive == PitSpec => []PitInv
  BY PitInvInit, PitInvNext, PTL DEF PitSpec

\* The rate kept by set_pit_hz stays between the limits, so uptime never divides
\* by zero, and the divisor fits the two bytes program_pit sends.
THEOREM PitTypeCorrect == PitSpec => []PitTypeOK
<1>1. PitInv => PitTypeOK  BY DEF PitInv
<1> QED BY <1>1, PitInductive, PTL

\* CURRENT_PIT_HZ is the rate of the divisor last written to the PIT.
THEOREM KernelKnowsTheRate == PitSpec => []RateIsTheDivisors
<1>1. PitInv => RateIsTheDivisors  BY DEF PitInv
<1> QED BY <1>1, PitInductive, PTL

\* timerhz with the rate it reported last is a no-op.
THEOREM RestoringIsExact == PitSpec => []ReportedRateIsAFixpoint
<1>1. PitInv => ReportedRateIsAFixpoint  BY DEF PitInv
<1> QED BY <1>1, PitInductive, PTL

\* timerhz gives at least the rate asked for, within the PIT's limits.
THEOREM NeverSlower == PitSpec => NeverSlowerThanAsked
<1>1. ASSUME NEW raw \in Requests, timerhz(raw)
      PROVE  CURRENT_PIT_HZ' >= clamp(raw, PIT_MIN_HZ, PIT_MAX_HZ)
  <2> DEFINE requested == IF raw > U32_MAX THEN U32_MAX ELSE raw
  <2>1. requested \in Nat  BY Cut
  <2>2. CURRENT_PIT_HZ' = programmed_hz(requested)  BY <1>1 DEF timerhz
  <2>3. clamp(requested, PIT_MIN_HZ, PIT_MAX_HZ) = clamp(raw, PIT_MIN_HZ, PIT_MAX_HZ)
    BY PitAssumption DEF clamp
  <2> HIDE DEF requested
  <2>4. /\ clamp(requested, PIT_MIN_HZ, PIT_MAX_HZ) \in PIT_MIN_HZ .. PIT_MAX_HZ
        /\ programmed_hz(requested) \in PIT_MIN_HZ .. PIT_MAX_HZ
        /\ clamp(requested, PIT_MIN_HZ, PIT_MAX_HZ) <= programmed_hz(requested)
    BY <2>1, Programmed, Zenon
  <2> QED BY <2>2, <2>3, <2>4, PitAssumption
<1>2. PitNext => \A raw \in Requests : timerhz(raw) =>
                CURRENT_PIT_HZ' >= clamp(raw, PIT_MIN_HZ, PIT_MAX_HZ)
  BY <1>1, Zenon
<1> QED BY <1>2, PTL DEF PitSpec, NeverSlowerThanAsked

-----------------------------------------------------------------------------
(* uptime. *)

\* What uptime prints is the whole number of hundredths in t ticks at h.
LEMMA Hundredths ==
  ASSUME NEW t \in Nat, NEW h \in Nat \ {0}
  PROVE  LET s == t \div h
             c == ((t % h) * 100) \div h
         IN /\ s \in Nat /\ c \in 0 .. 99
            /\ h * (100 * s + c) <= 100 * t
            /\ 100 * t < h * (100 * s + c + 1)
<1> DEFINE s == t \div h
           r == t % h
           c == (r * 100) \div h
<1>1. s \in Nat /\ r \in Nat /\ r < h /\ t = h * s + r  OBVIOUS
<1> HIDE DEF s, r
<1>2. c \in Nat /\ h * c <= r * 100 /\ r * 100 < h * c + h  BY <1>1, DivBounds
<1> HIDE DEF c
<1>3. c < 100
  <2>1. SUFFICES ASSUME 100 <= c PROVE FALSE  BY <1>2
  <2>2. h * 100 <= h * c  BY <1>2, <2>1
  <2> QED BY <2>2, <1>1, <1>2
<1>4. 100 * t = h * (100 * s) + r * 100  BY <1>1
<1>5. h * (100 * s + c) = h * (100 * s) + h * c  BY <1>1, <1>2
<1>6. h * (100 * s + c + 1) = h * (100 * s) + h * c + h  BY <1>1, <1>2
<1>7. h * (100 * s) \in Nat /\ h * c \in Nat  BY <1>1, <1>2
<1>8. h * (100 * s + c) <= 100 * t  BY <1>1, <1>2, <1>4, <1>5, <1>7
<1>9. 100 * t < h * (100 * s + c + 1)  BY <1>1, <1>2, <1>4, <1>6, <1>7
<1> QED BY <1>1, <1>2, <1>3, <1>8, <1>9 DEF s, r, c

\* More ticks at the same rate are no fewer hundredths.
LEMMA HundredthsMonotone ==
  ASSUME NEW t \in Nat, NEW u \in Nat, t <= u, NEW h \in Nat \ {0}
  PROVE  100 * (t \div h) + (((t % h) * 100) \div h) <=
           100 * (u \div h) + (((u % h) * 100) \div h)
<1> DEFINE s == t \div h
           c == ((t % h) * 100) \div h
           z == u \div h
           d == ((u % h) * 100) \div h
<1>1. s \in Nat /\ c \in 0 .. 99 /\ h * (100 * s + c) <= 100 * t
  BY Hundredths, ZenonT(60)
<1>2. z \in Nat /\ d \in 0 .. 99 /\ 100 * u < h * (100 * z + d + 1)
  BY Hundredths, ZenonT(60)
<1> HIDE DEF s, c, z, d
<1>3. h * (100 * s + c) < h * (100 * z + d + 1)  BY <1>1, <1>2
<1>4. SUFFICES ASSUME 100 * z + d + 1 <= 100 * s + c PROVE FALSE
  BY <1>1, <1>2 DEF s, c, z, d
<1>5. h * (100 * z + d + 1) <= h * (100 * s + c)  BY <1>1, <1>2, <1>4
<1> QED BY <1>1, <1>2, <1>3, <1>5

\* As long as the rate stands, what uptime prints never goes back.
THEOREM UptimeMonotone == PitSpec => UptimeGoesBackOnlyByTimerhz
<1>1. ASSUME PitInv, PitInv', [PitNext]_timer
      PROVE  /\ centiseconds' \in 0 .. 99
             /\ CURRENT_PIT_HZ' = CURRENT_PIT_HZ =>
                  100 * seconds + centiseconds <= 100 * seconds' + centiseconds'
  <2>1. TICKS \in Nat /\ TICKS' \in Nat /\ TICKS <= TICKS'
    BY <1>1, PitAssumption
       DEF PitInv, PitTypeOK, PitNext, timer, timer_interrupt_handler, timerhz
  <2>2. CURRENT_PIT_HZ \in Nat \ {0} /\ CURRENT_PIT_HZ' \in Nat \ {0}
    BY <1>1, PitAssumption DEF PitInv, PitTypeOK
  <2>3. centiseconds' \in 0 .. 99  BY <2>1, <2>2, Hundredths, Zenon DEF centiseconds
  <2>4. ASSUME CURRENT_PIT_HZ' = CURRENT_PIT_HZ
        PROVE  100 * seconds + centiseconds <= 100 * seconds' + centiseconds'
    BY <2>1, <2>2, <2>4, HundredthsMonotone, ZenonT(60) DEF seconds, centiseconds
  <2> QED BY <2>3, <2>4
<1> QED BY <1>1, PitInductive, PTL DEF PitSpec, UptimeGoesBackOnlyByTimerhz

-----------------------------------------------------------------------------
(* The system calls. *)

\* dispatch answers with a word, and with zero next to an error without one.
LEMMA DispatchResult ==
  ASSUME NEW e \in Env, NEW n \in Word, NEW a \in Word, NEW b \in Word
  PROVE  /\ dispatch(e, n, a, b) \in Results
         /\ dispatch(e, n, a, b).err \in {"Overflow", "ContextUnavailable"}
              => dispatch(e, n, a, b).value = 0
BY WidthAssumption
DEF dispatch, checked_add, FromSummary, Value, UnknownNumber, Overflow,
    ContextUnavailable, Results, Env, Word

\* What a caller of int 0x80 reads back is what dispatch answered.
THEOREM AbiIsLossless ==
  ASSUME NEW e \in Env, NEW n \in Word, NEW a \in Word, NEW b \in Word
  PROVE  invoke_via_interrupt(e, n, a, b) = dispatch(e, n, a, b)
<1> DEFINE before == [[r \in RegisterNames |-> 0] EXCEPT
                        !["rax"] = n, !["rdi"] = a, !["rsi"] = b]
           res == dispatch(e, n, a, b)
           encoded == IF res.err = "none"
                        THEN [value |-> res.value, status |-> SYSCALL_STATUS_OK]
                        ELSE encode_error(res)
           after  == [before EXCEPT !["rax"] = encoded.value,
                                    !["rcx"] = encoded.status]
<1>1. before["rax"] = n /\ before["rdi"] = a /\ before["rsi"] = b
  BY Zenon DEF RegisterNames
<1>2. invoke_via_interrupt(e, n, a, b) = decode_response(after["rcx"], after["rax"])
  <2>1. invoke_via_interrupt(e, n, a, b)
          = decode_response(handle_interrupt_from_registers(e, before)["rcx"],
                            handle_interrupt_from_registers(e, before)["rax"])
    BY Zenon DEF invoke_via_interrupt
  <2>2. handle_interrupt_from_registers(e, before) = after
    <3> HIDE DEF before
    <3> QED
      BY <1>1, Zenon DEF handle_interrupt_from_registers
  <2> HIDE DEF before, after
  <2> QED
    BY <2>1, <2>2, Zenon
<1>3. after["rcx"] = encoded.status /\ after["rax"] = encoded.value
  BY Zenon DEF RegisterNames
<1>4. /\ res \in Results
      /\ res.err \in {"Overflow", "ContextUnavailable"} => res.value = 0
  BY DispatchResult, Zenon
<1>5. res = [err |-> res.err, value |-> res.value]
  BY <1>4, Zenon DEF Results
<1> HIDE DEF res
<1>6. decode_response(encoded.status, encoded.value) = res
  BY <1>4, <1>5
  DEF decode_response, encode_error, Value, UnknownNumber, Overflow,
      ContextUnavailable, SYSCALL_STATUS_OK, SYSCALL_STATUS_UNKNOWN_NUMBER,
      SYSCALL_STATUS_OVERFLOW, SYSCALL_STATUS_CONTEXT_UNAVAILABLE, Results
<1> QED
  BY <1>2, <1>3, <1>6, Zenon DEF res

-----------------------------------------------------------------------------
\* The timer's registers fit the kernel's words, and uptime never divides by zero.
LEMMA Ranges ==
  ASSUME PitTypeOK
  PROVE  /\ TICKS \in 0 .. TickHorizon /\ TICKS \in Nat /\ TICKS \in Word
         /\ CURRENT_PIT_HZ \in Nat \ {0} /\ CURRENT_PIT_HZ \in Word
BY PitAssumption, DemoAssumption, WidthAssumption DEF PitTypeOK, Word

\* Every step of UserDemo is a step of the timer or leaves it alone.
LEMMA TimerStep == [Next]_vars => [PitNext]_timer
BY Zenon DEF Next, vars, Tick, Timerhz, syscall, userdemo, run_user_demo, PitNext

\* The timer under userdemo and the syscall command is the timer of module Pit.
THEOREM TimerIsThePit == Spec => PitSpec
<1>1. Init => PitInit
  BY Zenon DEF Init
<1> QED
  BY <1>1, TimerStep, PTL DEF Spec, PitSpec

\* So asking timerhz for the rate it reported restores the timer exactly.
THEOREM DemoRateIsAFixpoint == Spec => []ReportedRateIsAFixpoint
BY TimerIsThePit, RestoringIsExact, PTL

\* So the uptime goes back only when timerhz changes the rate.
THEOREM DemoUptimeMonotone == Spec => UptimeGoesBackOnlyByTimerhz
BY TimerIsThePit, UptimeMonotone, PTL

\* What a call may read has the types dispatch expects.
LEMMA EnvIsEnv ==
  ASSUME TypeOK
  PROVE  env \in Env
BY Ranges, WidthAssumption, DemoAssumption, Zenon DEF TypeOK, env, Env, Word

\* Later ticks do not make an earlier second.
LEMMA DivMonotone ==
  ASSUME NEW m \in Nat, NEW n \in Nat, m <= n, NEW h \in Nat \ {0}
  PROVE  m \div h <= n \div h /\ m \div h \in Nat /\ n \div h \in Nat
<1> DEFINE p == m \div h
           q == n \div h
<1>1. /\ p \in Int /\ q \in Int
      /\ h * p <= m /\ m < h * (p + 1)
      /\ h * q <= n /\ n < h * (q + 1)
  OBVIOUS
<1> HIDE DEF p, q
<1>2. p < q + 1
  <2>1. h * p < h * (q + 1)
    BY <1>1
  <2> QED
    BY <1>1, <2>1
<1>3. 0 <= p /\ 0 <= q
  BY <1>1
<1> QED
  BY <1>1, <1>2, <1>3 DEF p, q

\* What run_user_demo has read so far fits together at every call.
Coherent ==
  /\ demo # "failed"
  /\ demo = "ok" => Len(calls) = 5
  /\ demo = "running" => Len(calls) < 5
  /\ Len(calls) >= 1 => calls[1] <= TICKS
  /\ Len(calls) >= 2 =>
       calls[2] \in (calls[1] \div CURRENT_PIT_HZ) .. (TICKS \div CURRENT_PIT_HZ)
  /\ Len(calls) >= 3 => calls[3] = 42
  /\ Len(calls) >= 4 => calls[4] = UsableBytes
  /\ Len(calls) >= 5 => calls[5] = UsableBytes \div FRAME_SIZE

\* Coherent is what makes DemoIsCoherent inductive.
IInv == TypeOK /\ AnswerIsDispatch /\ Coherent

\* The monitor starts in it, before the first command.
LEMMA InitIInv == Init => IInv
<1> SUFFICES ASSUME Init PROVE IInv
  BY Zenon
<1>1. PitTypeOK /\ TICKS = 0
  BY PitInvInit, Zenon DEF Init, PitInit, PitInv
<1>2. env \in Env /\ 0 \in Word
  BY <1>1, Ranges, WidthAssumption, DemoAssumption, Zenon DEF env, Env, Word
<1>3. asked \in [env : Env, number : Word, arg0 : Word, arg1 : Word]
  BY <1>2, Zenon DEF Init, NoQuestion, SYSCALL_GET_TICKS
<1>4. answer \in Results
  BY <1>2, Zenon DEF Init, Results, Value
<1>5. TypeOK
  BY <1>1, <1>3, <1>4 DEF TypeOK, Init, Script
<1>6. AnswerIsDispatch
  <2>1. asked.env.ticks = 0 /\ asked.number = SYSCALL_GET_TICKS
    BY <1>1, Zenon DEF Init, NoQuestion, env
  <2>2. dispatch(asked.env, asked.number, asked.arg0, asked.arg1) = Value(0)
    BY <2>1 DEF dispatch, SYSCALL_GET_TICKS, SYSCALL_GET_UPTIME_SECONDS,
                SYSCALL_ADD, SYSCALL_GET_USABLE_MEMORY, SYSCALL_GET_USABLE_FRAMES
  <2> QED
    BY <2>2, Zenon DEF AnswerIsDispatch, Init
<1>7. Coherent
  BY DEF Coherent, Init
<1> QED
  BY <1>5, <1>6, <1>7, Zenon DEF IInv

\* A tick only moves the upper end of what the uptime may be.
LEMMA TickIInv ==
  ASSUME IInv, PitTypeOK', Tick
  PROVE  IInv'
<1>1. TICKS \in Nat /\ TICKS' \in Nat /\ TICKS <= TICKS'
  BY Ranges DEF IInv, TypeOK, Tick, timer_interrupt_handler
<1>2. TypeOK' /\ AnswerIsDispatch'
  BY Zenon DEF IInv, TypeOK, AnswerIsDispatch, Tick
<1>3. CURRENT_PIT_HZ \in Nat \ {0} /\ CURRENT_PIT_HZ' = CURRENT_PIT_HZ /\ calls' = calls /\ demo' = demo
  BY Ranges, Zenon DEF IInv, TypeOK, Tick, timer_interrupt_handler
<1>4. /\ TICKS \div CURRENT_PIT_HZ <= TICKS' \div CURRENT_PIT_HZ
      /\ TICKS \div CURRENT_PIT_HZ \in Nat /\ TICKS' \div CURRENT_PIT_HZ \in Nat
  BY <1>1, <1>3, DivMonotone, Zenon
<1>5. Len(calls) >= 1 => calls[1] \in Nat
  <2>1. calls \in Seq(Word) /\ Word \subseteq Nat
    BY DEF IInv, TypeOK, Word
  <2>2. Len(calls) \in Nat
    BY <2>1, Cells, Zenon
  <2>3. ASSUME Len(calls) >= 1 PROVE calls[1] \in Word
    BY <2>1, <2>2, <2>3, CellInSet
  <2> QED
    BY <2>1, <2>3, Zenon
<1>6. Coherent'
  <2>1. Len(calls) >= 1 => calls[1] <= TICKS'
    BY <1>1, <1>5 DEF IInv, Coherent
  <2>2. Len(calls) >= 2 =>
          calls[2] \in (calls[1] \div CURRENT_PIT_HZ) .. (TICKS' \div CURRENT_PIT_HZ)
    BY <1>4 DEF IInv, Coherent
  <2> QED
    BY <1>3, <2>1, <2>2, Zenon DEF IInv, Coherent
<1> QED
  BY <1>2, <1>6, Zenon DEF IInv

\* timerhz forgets the last demo, whose figures were of the old rate.
LEMMA TimerhzIInv ==
  ASSUME IInv, PitTypeOK', NEW raw \in Requests, Timerhz(raw)
  PROVE  IInv'
<1>1. calls' = <<>> /\ demo' = "idle"
  BY Zenon DEF Timerhz
<1>2. Len(calls') = 0 /\ calls' \in Seq(Word) /\ Len(Script) = 5
  BY <1>1 DEF Script
<1> QED
  BY <1>1, <1>2 DEF IInv, TypeOK, AnswerIsDispatch, Coherent, Timerhz

\* The syscall command prints the answer to its own question.
LEMMA SyscallIInv ==
  ASSUME IInv, NEW n \in Numbers, NEW a \in Args, NEW b \in Args, syscall(n, a, b)
  PROVE  IInv'
<1>1. /\ env \in Env /\ n \in Word /\ a \in Word /\ b \in Word
  BY EnvIsEnv, DemoAssumption, Zenon DEF IInv
<1>2. answer' = dispatch(env, n, a, b) /\ answer' \in Results
  BY <1>1, AbiIsLossless, DispatchResult DEF syscall
<1>3. asked' = [env |-> env, number |-> n, arg0 |-> a, arg1 |-> b]
  BY Zenon DEF syscall
<1>4. AnswerIsDispatch'
  BY <1>2, <1>3, Zenon DEF AnswerIsDispatch
<1>5. TypeOK'
  BY <1>1, <1>2, <1>3 DEF IInv, TypeOK, syscall, PitTypeOK, timer
<1>6. Coherent'
  BY Zenon DEF IInv, Coherent, syscall, timer
<1> QED
  BY <1>4, <1>5, <1>6, Zenon DEF IInv

\* A demo starts with no answers.
LEMMA UserdemoIInv ==
  ASSUME IInv, userdemo
  PROVE  IInv'
<1>1. calls' = <<>> /\ demo' = "running"
  BY Zenon DEF userdemo
<1>2. Len(calls') = 0 /\ calls' \in Seq(Word) /\ Len(Script) = 5
  BY <1>1 DEF Script
<1> QED
  BY <1>1, <1>2 DEF IInv, TypeOK, AnswerIsDispatch, Coherent, userdemo, PitTypeOK, timer

\* What the call in place i of the script is answered.
ScriptAnswer(e, i) ==
  LET next == Script[i] IN invoke_via_interrupt(e, next.number, next.arg0, next.arg1)

\* The answers run_user_demo gets, call by call.
LEMMA ScriptAnswers ==
  ASSUME NEW e \in Env, e.usable \in Word, 42 \in Word, NEW i \in 1 .. 5
  PROVE  LET res == ScriptAnswer(e, i)
         IN  /\ res \in Results /\ res.err = "none"
             /\ i = 1 => res.value = e.ticks
             /\ i = 2 => res.value = e.ticks \div e.pit_hz
             /\ i = 3 => res.value = 42
             /\ i = 4 => res.value = e.usable
             /\ i = 5 => res.value = e.usable \div FRAME_SIZE
<1> DEFINE next == Script[i]
           res == ScriptAnswer(e, i)
<1>1. next = [number |-> i - 1, arg0 |-> IF i = 3 THEN 40 ELSE 0,
              arg1 |-> IF i = 3 THEN 2 ELSE 0]
  BY DEF Script, SYSCALL_GET_TICKS, SYSCALL_GET_UPTIME_SECONDS,
         SYSCALL_ADD, SYSCALL_GET_USABLE_MEMORY, SYSCALL_GET_USABLE_FRAMES
<1>2. next.number \in Word /\ next.arg0 \in Word /\ next.arg1 \in Word
  <2>1. \A k \in 0 .. 40 : k \in Word
    BY WidthAssumption DEF Word
  <2>2. /\ next.number = i - 1
        /\ next.arg0 \in {0, 40} /\ next.arg1 \in {0, 2}
    BY <1>1
  <2> HIDE DEF next
  <2> QED
    BY <2>1, <2>2
<1>3. res = dispatch(e, next.number, next.arg0, next.arg1) /\ res \in Results
  BY <1>2, AbiIsLossless, DispatchResult DEF ScriptAnswer
<1>4. e.usable # NoSummary
  BY WidthAssumption DEF Word
<1> HIDE DEF next, res
<1>5. /\ res.err = "none"
      /\ i = 1 => res.value = e.ticks
      /\ i = 2 => res.value = e.ticks \div e.pit_hz
      /\ i = 3 => res.value = 42
      /\ i = 4 => res.value = e.usable
      /\ i = 5 => res.value = e.usable \div FRAME_SIZE
  <2>1. CASE i = 1
    BY <2>1, <1>3, <1>1 DEF dispatch, Value, SYSCALL_GET_TICKS,
       SYSCALL_GET_UPTIME_SECONDS, SYSCALL_ADD, SYSCALL_GET_USABLE_MEMORY,
       SYSCALL_GET_USABLE_FRAMES
  <2>2. CASE i = 2
    BY <2>2, <1>3, <1>1 DEF dispatch, Value, SYSCALL_GET_TICKS,
       SYSCALL_GET_UPTIME_SECONDS, SYSCALL_ADD, SYSCALL_GET_USABLE_MEMORY,
       SYSCALL_GET_USABLE_FRAMES
  <2>3. CASE i = 3
    <3>1. dispatch(e, next.number, next.arg0, next.arg1) = checked_add(40, 2)
      BY <2>3, <1>1 DEF dispatch, SYSCALL_GET_TICKS,
         SYSCALL_GET_UPTIME_SECONDS, SYSCALL_ADD, SYSCALL_GET_USABLE_MEMORY,
         SYSCALL_GET_USABLE_FRAMES
    <3>2. checked_add(40, 2) = Value(42)
      BY WidthAssumption DEF checked_add, Word
    <3> QED
      BY <3>1, <3>2, <2>3, <1>3 DEF Value
  <2>4. CASE i = 4
    BY <2>4, <1>3, <1>1, <1>4 DEF dispatch, FromSummary, Value, SYSCALL_GET_TICKS,
       SYSCALL_GET_UPTIME_SECONDS, SYSCALL_ADD, SYSCALL_GET_USABLE_MEMORY,
       SYSCALL_GET_USABLE_FRAMES
  <2>5. CASE i = 5
    BY <2>5, <1>3, <1>1, <1>4 DEF dispatch, FromSummary, Value, SYSCALL_GET_TICKS,
       SYSCALL_GET_UPTIME_SECONDS, SYSCALL_ADD, SYSCALL_GET_USABLE_MEMORY,
       SYSCALL_GET_USABLE_FRAMES
  <2> QED
    BY <2>1, <2>2, <2>3, <2>4, <2>5
<1> QED
  BY <1>3, <1>5, Zenon DEF res

\* Each call of the demo succeeds and adds the figure of its place.
LEMMA RunUserDemoIInv ==
  ASSUME IInv, run_user_demo
  PROVE  IInv'
<1> DEFINE i == Len(calls) + 1
           res == ScriptAnswer(env, i)
<1>1. /\ demo = "running" /\ calls \in Seq(Word) /\ Len(calls) \in 0 .. 4
      /\ i \in 1 .. 5 /\ Len(Script) = 5
  <2>1. calls \in Seq(Word) /\ demo = "running" /\ Len(calls) < 5
    BY Zenon DEF IInv, TypeOK, Coherent, run_user_demo
  <2>2. Len(calls) \in Nat
    BY <2>1, Cells, Zenon
  <2>3. Len(Script) = 5
    BY Zenon DEF Script
  <2>4. \A k \in Nat : k < 5 => k \in 0 .. 4 /\ k + 1 \in 1 .. 5
    OBVIOUS
  <2> QED
    BY <2>1, <2>2, <2>3, <2>4, Zenon
<1>2. /\ env \in Env /\ env.usable = UsableBytes /\ UsableBytes \in Word
      /\ env.ticks = TICKS /\ env.pit_hz = CURRENT_PIT_HZ /\ 42 \in Word
  BY EnvIsEnv, DemoAssumption, Zenon DEF IInv, env
<1>3. /\ res \in Results /\ res.err = "none"
      /\ i = 1 => res.value = TICKS
      /\ i = 2 => res.value = TICKS \div CURRENT_PIT_HZ
      /\ i = 3 => res.value = 42
      /\ i = 4 => res.value = UsableBytes
      /\ i = 5 => res.value = UsableBytes \div FRAME_SIZE
  BY <1>1, <1>2, ScriptAnswers
<1>4. /\ calls' = Append(calls, res.value)
      /\ demo' = IF Len(calls') = 5 THEN "ok" ELSE "running"
      /\ UNCHANGED <<TICKS, CURRENT_PIT_HZ, reload, asked, answer>>
  <2>1. /\ calls' = Append(calls, res.value)
        /\ demo' = IF Len(calls') = Len(Script) THEN "ok" ELSE "running"
        /\ UNCHANGED <<timer, asked, answer>>
    BY <1>3, Zenon DEF run_user_demo, ScriptAnswer
  <2> HIDE DEF res
  <2> QED
    BY <1>1, <2>1, Zenon DEF timer
<1> HIDE DEF res
<1>5. res.value \in Word
  BY <1>3, Zenon DEF Results
<1>6. /\ calls' \in Seq(Word) /\ Len(calls') = i
      /\ \A j \in 1 .. Len(calls) : calls'[j] = calls[j]
      /\ calls'[i] = res.value
  <2>1. calls \in Seq(Word) /\ calls' = Append(calls, res.value)
    BY <1>1, <1>4, Zenon
  <2> HIDE DEF i
  <2>2. /\ calls' \in Seq(Word) /\ Len(calls') = Len(calls) + 1
        /\ \A j \in 1 .. Len(calls) : calls'[j] = calls[j]
        /\ calls'[Len(calls) + 1] = res.value
    BY <2>1, <1>5, AppendsOne
  <2> QED
    BY <2>2, Zenon DEF i
<1>7. TypeOK' /\ AnswerIsDispatch'
  BY <1>1, <1>4, <1>6 DEF IInv, TypeOK, AnswerIsDispatch, PitTypeOK
<1>8. TICKS \in Nat /\ CURRENT_PIT_HZ \in Nat \ {0}
  BY Ranges, Zenon DEF IInv, TypeOK
<1>9. Coherent'
  <2>1. demo' # "failed" /\ (demo' = "ok" => i = 5) /\ (demo' = "running" => i < 5)
    BY <1>1, <1>4, <1>6
  <2>2. calls'[1] \in Nat /\ calls'[1] <= TICKS
    <3>1. CASE i = 1
      BY <3>1, <1>3, <1>6, <1>8
    <3>2. CASE i # 1
      <4>1. Len(calls) >= 1
        BY <3>2, <1>1
      <4>2. calls[1] \in Word /\ calls'[1] = calls[1]
        BY <4>1, <1>1, <1>6, CellInSet
      <4> QED
        BY <4>1, <4>2 DEF IInv, Coherent, Word
    <3> QED
      BY <3>1, <3>2, Zenon
  <2>3. i >= 2 => calls'[2] \in (calls'[1] \div CURRENT_PIT_HZ) .. (TICKS \div CURRENT_PIT_HZ)
    <3>1. CASE i = 2
      <4>1. calls'[2] = TICKS \div CURRENT_PIT_HZ
        BY <3>1, <1>3, <1>6, Zenon
      <4> QED
        BY <4>1, <2>2, <1>8, DivMonotone
    <3>2. CASE i > 2
      <4>1. Len(calls) >= 2 /\ calls'[1] = calls[1] /\ calls'[2] = calls[2]
        BY <3>2, <1>1, <1>6
      <4> QED
        BY <4>1, Zenon DEF IInv, Coherent
    <3> QED
      BY <3>1, <3>2, <1>1
  <2>4. /\ i >= 3 => calls'[3] = 42
        /\ i >= 4 => calls'[4] = UsableBytes
        /\ i >= 5 => calls'[5] = UsableBytes \div FRAME_SIZE
    BY <1>1, <1>3, <1>6 DEF IInv, Coherent
  <2> QED
    BY <2>1, <2>2, <2>3, <2>4, <1>4, <1>6, Zenon DEF Coherent
<1> QED
  BY <1>7, <1>9, Zenon DEF IInv

\* The inductive invariant holds in every state of the monitor.
THEOREM Invariance == Spec => []IInv
<1>1. Init => IInv
  BY InitIInv, Zenon
<1>2. IInv /\ PitTypeOK' /\ [Next]_vars => IInv'
  <2> SUFFICES ASSUME IInv, PitTypeOK', [Next]_vars PROVE IInv'
    BY Zenon
  <2>1. CASE UNCHANGED vars
    BY <2>1 DEF IInv, TypeOK, PitTypeOK, AnswerIsDispatch, Coherent, vars, timer
  <2> QED
    BY <2>1, TickIInv, TimerhzIInv, SyscallIInv, UserdemoIInv, RunUserDemoIInv, Zenon
    DEF Next
<1> QED
  BY <1>1, <1>2, TimerIsThePit, PitTypeCorrect, PTL DEF Spec

\* The syscall command prints what dispatch answered, whatever was typed.
THEOREM AnswersAreDispatched == Spec => []AnswerIsDispatch
BY Invariance, PTL DEF IInv

\* userdemo cannot fail, and its figures fit together, at any rate of the timer.
THEOREM DemoFitsTogether == Spec => []DemoIsCoherent
<1>1. IInv => DemoIsCoherent
  BY DEF IInv, TypeOK, Coherent, DemoIsCoherent, seconds
<1> QED
  BY <1>1, Invariance, PTL

\* Every answer of dispatch fits its register, and every rate and tick its word.
THEOREM TypeCorrect == Spec => []TypeOK
BY Invariance, PTL DEF IInv

-----------------------------------------------------------------------------
(* The keyboard decoder. *)

LEMMA UpTo ==
  ASSUME NEW n \in Nat, NEW Good, 0 \in Good, \A i \in 0..n - 1 : i \in Good => i + 1 \in Good
  PROVE  0..n \subseteq Good
<1> DEFINE R == {ss \in Nat \X Nat : ss[1] < ss[2]}
           D == (0..n) \ Good
<1>1. IsWellFoundedOn(R, Nat)
  BY NatLessThanWellFounded, Zenon DEF OpToRel
<1> SUFFICES ASSUME D # {} PROVE FALSE
  BY Zenon
<1>2. D \subseteq Nat
  OBVIOUS
<1> HIDE DEF R, D
<1>3. PICK x \in D : \A y \in D : ~ (<<y, x>> \in R)
  BY <1>1, <1>2, WFMin, Zenon
<1>4. x \in 0..n /\ x # 0
  BY <1>3, Zenon DEF D
<1>5. x - 1 \in 0..n - 1 /\ x - 1 \in Nat /\ x \in Nat
  BY <1>4
<1>6. <<x - 1, x>> \in R
  BY <1>5 DEF R
<1>7. x - 1 \in Good
  BY <1>3, <1>5, <1>6 DEF D
<1>8. x - 1 + 1 = x
  BY <1>5
<1>9. x \in Good
  BY <1>5, <1>7, <1>8, Zenon
<1> QED
  BY <1>3, <1>9, Zenon DEF D

LEMMA Joins ==
  ASSUME NEW S, NEW p \in Seq(S), NEW q \in Seq(S)
  PROVE  /\ p \o q \in Seq(S) /\ Len(p \o q) = Len(p) + Len(q)
         /\ \A i \in 1..Len(p) : (p \o q)[i] = p[i]
         /\ \A i \in 1..Len(q) : (p \o q)[Len(p) + i] = q[i]
  OBVIOUS

LEMMA JoinsNothing ==
  ASSUME NEW S, NEW p \in Seq(S)
  PROVE  p \o <<>> = p /\ <<>> \o p = p
  OBVIOUS

LEMMA JoinsThree ==
  ASSUME NEW S, NEW p \in Seq(S), NEW q \in Seq(S), NEW r \in Seq(S)
  PROVE  (p \o q) \o r = p \o (q \o r)
  OBVIOUS

LEMMA HeadAndTail ==
  ASSUME NEW S, NEW q \in Seq(S), q # <<>>
  PROVE  /\ Head(q) = q[1] /\ Head(q) \in S /\ Tail(q) \in Seq(S) /\ Len(Tail(q)) = Len(q) - 1
         /\ Len(q) \in Nat \ {0}
         /\ \A i \in 1..Len(Tail(q)) : Tail(q)[i] = q[i + 1]
  OBVIOUS

LEMMA MovesOne ==
  ASSUME NEW S, NEW p \in Seq(S), NEW q \in Seq(S), q # <<>>
  PROVE  Append(p, Head(q)) \in Seq(S) /\ Append(p, Head(q)) \o Tail(q) = p \o q
  OBVIOUS

LEMMA TailOfJoin ==
  ASSUME NEW S, NEW p \in Seq(S), NEW q \in Seq(S), p # <<>>
  PROVE  /\ p \o q # <<>> /\ Head(p \o q) = Head(p) /\ Tail(p \o q) = Tail(p) \o q
  OBVIOUS

LEMMA JoinsOne ==
  ASSUME NEW S, NEW p \in Seq(S), NEW q \in Seq(S), NEW e \in S
  PROVE  p \o (q \o <<e>>) = Append(p \o q, e)
  OBVIOUS

LEMMA JoinsTwo ==
  ASSUME NEW S, NEW p \in Seq(S), NEW q \in Seq(S), NEW e \in S, NEW f \in S
  PROVE  p \o (q \o (<<e>> \o <<f>>)) = Append(Append(p \o q, e), f)
  OBVIOUS

-----------------------------------------------------------------------------
(* Reading a sequence of bytes. *)

Byte == {E0} \cup {k[1] : k \in Keys} \cup {k[1] + 128 : k \in Keys}

\* Decoders that never saw a modifier the keyboard has not got.
Decoders ==
  {d \in [extended : BOOLEAN, left_shift : BOOLEAN, right_shift : BOOLEAN,
          left_ctrl : BOOLEAN, right_ctrl : BOOLEAN,
          left_alt : BOOLEAN, right_alt : BOOLEAN, caps_lock : BOOLEAN] :
     /\ d.left_shift => LeftShift \in Keys
     /\ d.right_shift => RightShift \in Keys
     /\ d.left_ctrl => LeftCtrl \in Keys
     /\ d.right_ctrl => RightCtrl \in Keys
     /\ d.left_alt => LeftAlt \in Keys
     /\ d.right_alt => RightAlt \in Keys}

\* The events of keys without and with a prefix.
KeyEvents == {decode_make(d, key) : d \in Decoders, key \in Nat}
               \cup {decode_extended_make(d, key) : d \in Decoders, key \in Nat}

Outcomes == [decoder : Decoders, events : Seq(KeyEvents)]

\* One more byte.
Reads(o, b) == [decoder |-> feed(o.decoder, b).decoder,
                events |-> o.events \o feed(o.decoder, b).events]

\* The bytes of the keyboard, taken apart: a prefix, a make code, a break code.
LEMMA ByteKinds ==
  ASSUME NEW b \in Byte, b # E0
  PROVE  /\ b \in Nat /\ code(b) \in 0..127
         /\ \E k \in Keys : k[1] = code(b)
<1>1. PICK k \in Keys : b = k[1] \/ b = k[1] + 128
  BY Zenon DEF Byte
<1>2. k[1] \in 0..127
  BY KeysAssumption, Zenon
<1>3. code(b) = k[1] /\ b \in Nat
  BY <1>1, <1>2 DEF code
<1> QED
  BY <1>2, <1>3, Zenon

\* A plain key gives one event.
LEMMA MakeTypes ==
  ASSUME NEW d \in Decoders, NEW key \in Nat
  PROVE  /\ decode_make(d, key) \in KeyEvents
         /\ decode_extended_make(d, key) \in KeyEvents
  BY DEF KeyEvents

\* The flags that no key of the keyboard stands for.
LEMMA FlagTypes ==
  ASSUME NEW d \in Decoders, NEW v \in BOOLEAN
  PROVE  [d EXCEPT !.extended = v] \in Decoders /\ [d EXCEPT !.caps_lock = v] \in Decoders
  BY DEF Decoders

LEMMA DecodeTypes ==
  ASSUME NEW d \in Decoders, NEW k \in Keys, NEW key, key = k[1], NEW down \in BOOLEAN
  PROVE  decode_extended(d, key, down) \in Outcomes /\ decode_basic(d, key, down) \in Outcomes
<1>1. /\ key \in Nat
      /\ key = 42 => LeftShift \in Keys
      /\ key = 54 => RightShift \in Keys
      /\ key = 29 => LeftCtrl \in Keys /\ RightCtrl \in Keys
      /\ key = 56 => LeftAlt \in Keys /\ RightAlt \in Keys
  BY KeysAssumption
  DEF AllModifiers, LeftShift, RightShift, LeftCtrl, RightCtrl, LeftAlt, RightAlt
<1>2. ASSUME NEW f \in Decoders
      PROVE  Nothing(f) \in Outcomes /\ Gives(f, decode_make(f, key)) \in Outcomes
             /\ Gives(f, decode_extended_make(f, key)) \in Outcomes
  BY <1>1, <1>2, MakeTypes DEF Nothing, Gives, Outcomes
<1>3. /\ key = 42 => [d EXCEPT !.left_shift = down] \in Decoders
      /\ key = 54 => [d EXCEPT !.right_shift = down] \in Decoders
  BY <1>1 DEF Decoders
<1>4. /\ key = 29 => [d EXCEPT !.left_ctrl = down] \in Decoders
      /\ key = 29 => [d EXCEPT !.right_ctrl = down] \in Decoders
  BY <1>1 DEF Decoders
<1>5. /\ key = 56 => [d EXCEPT !.left_alt = down] \in Decoders
      /\ key = 56 => [d EXCEPT !.right_alt = down] \in Decoders
  BY <1>1 DEF Decoders
<1>6. [d EXCEPT !.caps_lock = (d.caps_lock # down)] \in Decoders
  BY FlagTypes, Zenon
<1>7. decode_extended(d, key, down) \in Outcomes
  BY <1>2, <1>4, <1>5, Zenon DEF decode_extended
<1>8. decode_basic(d, key, down) \in Outcomes
  BY <1>2, <1>3, <1>4, <1>5, <1>6, ZenonT(60) DEF decode_basic
<1> QED
  BY <1>7, <1>8, Zenon

LEMMA FeedType ==
  ASSUME NEW d \in Decoders, NEW b \in Byte
  PROVE  feed(d, b) \in Outcomes
<1>1. CASE b = E0
  <2>1. [d EXCEPT !.extended = TRUE] \in Decoders
    BY FlagTypes, Zenon
  <2> QED
    BY <1>1, <2>1 DEF feed, Nothing, Outcomes
<1>2. CASE b # E0
  <2>1. PICK k \in Keys : k[1] = code(b)
    BY <1>2, ByteKinds, Zenon
  <2>2. (~released(b)) \in BOOLEAN
    BY Zenon
  <2>3. [d EXCEPT !.extended = FALSE] \in Decoders
    BY FlagTypes, Zenon
  <2> QED
    BY <1>2, <2>1, <2>2, <2>3, DecodeTypes, Zenon DEF feed
<1> QED
  BY <1>1, <1>2, Zenon

LEMMA ReadsParts ==
  ASSUME NEW o, NEW b
  PROVE  /\ Reads(o, b).decoder = feed(o.decoder, b).decoder
         /\ Reads(o, b).events = o.events \o feed(o.decoder, b).events
<1> DEFINE x == feed(o.decoder, b).decoder
           y == o.events \o feed(o.decoder, b).events
<1>1. Reads(o, b) = [decoder |-> x, events |-> y]
  BY Zenon DEF Reads
<1> HIDE DEF x, y
<1>2. Reads(o, b).decoder = x /\ Reads(o, b).events = y
  BY <1>1
<1> QED
  BY <1>2, Zenon DEF x, y

LEMMA ReadsType ==
  ASSUME NEW o \in Outcomes, NEW b \in Byte
  PROVE  Reads(o, b) \in Outcomes
<1>1. o.decoder \in Decoders /\ o.events \in Seq(KeyEvents)
  BY Zenon DEF Outcomes
<1>2. feed(o.decoder, b) \in Outcomes
  BY <1>1, FeedType, Zenon
<1>3. feed(o.decoder, b).decoder \in Decoders /\ feed(o.decoder, b).events \in Seq(KeyEvents)
  BY <1>2, Zenon DEF Outcomes
<1>4. o.events \o feed(o.decoder, b).events \in Seq(KeyEvents)
  BY <1>1, <1>3, Joins, ZenonT(60)
<1> QED
  BY <1>3, <1>4, Zenon DEF Reads, Outcomes

\* after is what a decoder goes through when it reads the bytes.
Follows(after, d, bytes) ==
  /\ after \in [0..Len(bytes) -> Outcomes]
  /\ after[0] = Nothing(d)
  /\ \A n \in 1..Len(bytes) : after[n] = Reads(after[n - 1], bytes[n])

LEMMA NothingType ==
  ASSUME NEW d \in Decoders
  PROVE  Nothing(d) \in Outcomes /\ Nothing(d).decoder = d /\ Nothing(d).events = <<>>
  BY DEF Nothing, Outcomes

\* Every sequence of bytes can be read.
LEMMA Readable ==
  ASSUME NEW d \in Decoders, NEW bytes \in Seq(Byte)
  PROVE  \E after : Follows(after, d, bytes)
<1> DEFINE n == Len(bytes)
           IsRec(w, m) == w[0] = Nothing(d) /\ \A i \in 1..m : w[i] = Reads(w[i - 1], bytes[i])
           Good == {m \in 0..n : \E w \in [0..m -> Outcomes] : IsRec(w, m)}
<1>1. 0 \in Good
  <2>1. /\ [i \in 0..0 |-> Nothing(d)] \in [0..0 -> Outcomes]
        /\ IsRec([i \in 0..0 |-> Nothing(d)], 0)
    BY NothingType
  <2> HIDE DEF IsRec
  <2> QED
    BY <2>1
<1>2. ASSUME NEW m \in 0..n - 1, m \in Good PROVE m + 1 \in Good
  <2>1. PICK w \in [0..m -> Outcomes] : IsRec(w, m)
    BY <1>2, Zenon
  <2>2. m \in Nat /\ m + 1 \in 1..n /\ m + 1 \in 0..n /\ w[m] \in Outcomes
        /\ bytes[m + 1] \in Byte
    OBVIOUS
  <2> DEFINE last == Reads(w[m], bytes[m + 1])
             v == [i \in 0..m + 1 |-> IF i = m + 1 THEN last ELSE w[i]]
  <2>3. last \in Outcomes
    BY <2>2, ReadsType, Zenon
  <2> HIDE DEF last
  <2>4. v \in [0..m + 1 -> Outcomes]
    BY <2>2, <2>3
  <2>5. ASSUME NEW i \in 1..m + 1 PROVE v[i] = Reads(v[i - 1], bytes[i])
    <3>1. v[i - 1] = w[i - 1]
      BY <2>2
    <3>2. CASE i = m + 1
      <4>1. v[i] = last /\ i - 1 = m
        BY <2>2, <3>2
      <4> HIDE DEF v
      <4> QED
        BY <3>1, <3>2, <4>1, Zenon DEF last
    <3>3. CASE i \in 1..m
      <4>1. v[i] = w[i]
        BY <2>2, <3>3
      <4> QED
        BY <2>1, <3>1, <3>3, <4>1, Zenon
    <3> QED
      BY <2>2, <3>2, <3>3
  <2>6. v[0] = Nothing(d)
    BY <2>1, <2>2
  <2> HIDE DEF v
  <2> QED
    BY <2>2, <2>4, <2>5, <2>6, Zenon
<1>3. 0..n \subseteq Good
  <2> HIDE DEF Good
  <2> QED
    BY <1>1, <1>2, UpTo
<1>4. n \in Good
  <2> HIDE DEF Good
  <2> QED
    BY <1>3
<1> QED
  BY <1>4, Zenon DEF Follows

\* ... and Read is where that ends.
LEMMA ReadIsLast ==
  ASSUME NEW d \in Decoders, NEW bytes \in Seq(Byte), NEW after, Follows(after, d, bytes)
  PROVE  Read(d, bytes) = after[Len(bytes)] /\ Read(d, bytes) \in Outcomes
<1> DEFINE n == Len(bytes)
           Eq(f) == f = [m \in 0..n |-> IF m = 0 THEN Nothing(d) ELSE Reads(f[m - 1], bytes[m])]
           f == CHOOSE g : Eq(g)
<1>1. n \in Nat
  OBVIOUS
<1>2. Eq(after)
  BY <1>1 DEF Follows
<1>3. Eq(f)
  BY <1>2, Zenon
<1>4. Read(d, bytes) = f[n]
  BY Zenon DEF Read, Reads
<1> DEFINE Good == {m \in 0..n : f[m] = after[m]}
<1> HIDE DEF f
<1>5. 0 \in Good
  BY <1>1, <1>2, <1>3
<1>6. ASSUME NEW m \in 0..n - 1, m \in Good PROVE m + 1 \in Good
  BY <1>1, <1>2, <1>3, <1>6
<1>7. 0..n \subseteq Good
  <2> HIDE DEF Good
  <2> QED
    BY <1>1, <1>5, <1>6, UpTo, Zenon
<1>8. f[n] = after[n] /\ after[n] \in Outcomes
  BY <1>1, <1>7 DEF Follows
<1> QED
  BY <1>4, <1>8, Zenon

LEMMA ReadNothing ==
  ASSUME NEW d \in Decoders
  PROVE  Read(d, <<>>) = Nothing(d)
<1>1. <<>> \in Seq(Byte) /\ Len(<<>>) = 0
  OBVIOUS
<1>2. PICK after : Follows(after, d, <<>>)
  BY <1>1, Readable, Zenon
<1> QED
  BY <1>1, <1>2, ReadIsLast, Zenon DEF Follows

LEMMA ReadType ==
  ASSUME NEW d \in Decoders, NEW bytes \in Seq(Byte)
  PROVE  Read(d, bytes) \in Outcomes
  BY Readable, ReadIsLast, Zenon

\* One byte more at the end.
LEMMA ReadMore ==
  ASSUME NEW d \in Decoders, NEW bytes \in Seq(Byte), NEW b \in Byte
  PROVE  Read(d, Append(bytes, b)) = Reads(Read(d, bytes), b)
<1> DEFINE n == Len(bytes)
           more == Append(bytes, b)
<1>1. /\ more \in Seq(Byte) /\ n \in Nat /\ Len(more) = n + 1 /\ more[n + 1] = b
      /\ \A i \in 1..n : more[i] = bytes[i]
  BY AppendsOne
<1> HIDE DEF more
<1>2. PICK after : Follows(after, d, more)
  BY <1>1, Readable, Zenon
<1> DEFINE first == [i \in 0..n |-> after[i]]
<1>3. Follows(first, d, bytes)
  <2>1. first \in [0..n -> Outcomes]
    BY <1>1, <1>2 DEF Follows
  <2>2. first[0] = Nothing(d)
    BY <1>1, <1>2 DEF Follows
  <2>3. ASSUME NEW i \in 1..n PROVE first[i] = Reads(first[i - 1], bytes[i])
    BY <1>1, <1>2 DEF Follows
  <2> HIDE DEF first
  <2> QED
    BY <2>1, <2>2, <2>3, Zenon DEF Follows
<1>4. Read(d, bytes) = after[n]
  BY <1>1, <1>3, ReadIsLast
<1>5. Read(d, more) = after[n + 1]
  BY <1>1, <1>2, ReadIsLast, Zenon
<1>6. after[n + 1] = Reads(after[n], b)
  BY <1>1, <1>2 DEF Follows
<1> QED
  BY <1>4, <1>5, <1>6, Zenon DEF more

\* The first byte, and then the rest.
LEMMA ReadFirst ==
  ASSUME NEW d \in Decoders, NEW bytes \in Seq(Byte), bytes # <<>>
  PROVE  LET out == feed(d, Head(bytes))
             rest == Read(out.decoder, Tail(bytes))
         IN /\ Read(d, bytes).decoder = rest.decoder
            /\ Read(d, bytes).events = out.events \o rest.events
<1> DEFINE out == feed(d, Head(bytes))
           n == Len(Tail(bytes))
<1>1. /\ n \in Nat /\ Len(bytes) = n + 1 /\ Tail(bytes) \in Seq(Byte)
      /\ Head(bytes) \in Byte /\ Head(bytes) = bytes[1]
      /\ \A i \in 1..n : Tail(bytes)[i] = bytes[i + 1] /\ Tail(bytes)[i] \in Byte
  BY HeadAndTail
<1>2. out \in Outcomes /\ out.decoder \in Decoders /\ out.events \in Seq(KeyEvents)
  <2>1. out \in Outcomes
    BY <1>1, FeedType, Zenon
  <2> QED
    BY <2>1, Zenon DEF Outcomes
<1>3. PICK all : Follows(all, d, bytes)
  BY Readable, Zenon
<1>4. PICK rest : Follows(rest, out.decoder, Tail(bytes))
  BY <1>1, <1>2, Readable, Zenon
<1> HIDE DEF n
<1> DEFINE Same(i) == /\ all[i + 1].decoder = rest[i].decoder
                      /\ all[i + 1].events = out.events \o rest[i].events
           Good == {i \in 0..n : Same(i)}
<1>5. Same(0)
  <2>1. all[1] = Reads(Nothing(d), Head(bytes)) /\ rest[0] = Nothing(out.decoder)
    BY <1>1, <1>3, <1>4 DEF Follows
  <2>2. /\ all[1].decoder = out.decoder /\ all[1].events = <<>> \o out.events
        /\ rest[0].decoder = out.decoder /\ rest[0].events = <<>>
    BY <2>1 DEF Reads, Nothing
  <2> HIDE DEF out
  <2>3. <<>> \o out.events = out.events \o <<>>
    BY <1>2, JoinsNothing, Zenon
  <2> QED
    BY <2>2, <2>3
<1>6. ASSUME NEW i \in 0..n - 1, Same(i) PROVE Same(i + 1)
  <2> DEFINE b == bytes[i + 2]
  <2>1. all[i + 2] = Reads(all[i + 1], b)
    BY <1>1, <1>3 DEF Follows
  <2>2. rest[i + 1] = Reads(rest[i], b)
    BY <1>1, <1>4 DEF Follows, n
  <2>3. rest[i] \in Outcomes /\ b \in Byte
    BY <1>1, <1>4 DEF Follows, n
  <2> DEFINE e == feed(rest[i].decoder, b).events
  <2>4. rest[i].decoder \in Decoders /\ rest[i].events \in Seq(KeyEvents) /\ e \in Seq(KeyEvents)
    <3>1. rest[i].decoder \in Decoders /\ rest[i].events \in Seq(KeyEvents)
      BY <2>3, Zenon DEF Outcomes
    <3>2. feed(rest[i].decoder, b) \in Outcomes
      BY <2>3, <3>1, FeedType, Zenon
    <3> QED
      BY <3>1, <3>2, Zenon DEF Outcomes
  <2>5. all[i + 1].decoder = rest[i].decoder /\ all[i + 1].events = out.events \o rest[i].events
    BY <1>6, Zenon
  <2>6. (out.events \o rest[i].events) \o e = out.events \o (rest[i].events \o e)
    <3> DEFINE p == out.events
               q == rest[i].events
    <3>1. p \in Seq(KeyEvents) /\ q \in Seq(KeyEvents) /\ e \in Seq(KeyEvents)
      BY <1>2, <2>4, Zenon
    <3> HIDE DEF e, p, q
    <3>2. (p \o q) \o e = p \o (q \o e)
      BY <3>1, JoinsThree
    <3> QED
      BY <3>2, Zenon DEF p, q
  <2>7. /\ all[i + 2].decoder = rest[i + 1].decoder
        /\ all[i + 2].events = (out.events \o rest[i].events) \o e
        /\ rest[i + 1].events = rest[i].events \o e
    <3> HIDE DEF b, out
    <3>1. /\ all[i + 2].decoder = feed(all[i + 1].decoder, b).decoder
          /\ all[i + 2].events = all[i + 1].events \o feed(all[i + 1].decoder, b).events
      BY <2>1, ReadsParts, ZenonT(60)
    <3>2. /\ rest[i + 1].decoder = feed(rest[i].decoder, b).decoder
          /\ rest[i + 1].events = rest[i].events \o e
      BY <2>2, ReadsParts, ZenonT(60) DEF e
    <3> QED
      BY <2>5, <3>1, <3>2, Zenon
  <2>8. (i + 1) + 1 = i + 2
    BY <1>1
  <2> HIDE DEF b, e, out
  <2> QED
    BY <2>6, <2>7, <2>8, Zenon
<1>7. 0..n \subseteq Good
  <2> HIDE DEF Same
  <2>1. 0 \in Good /\ \A i \in 0..n - 1 : i \in Good => i + 1 \in Good
    BY <1>1, <1>5, <1>6
  <2> HIDE DEF Good
  <2> QED
    BY <1>1, <2>1, UpTo, Zenon
<1>8. Same(n)
  <2> HIDE DEF Same
  <2> QED
    BY <1>1, <1>7
<1>9. Read(d, bytes) = all[n + 1]
  BY <1>1, <1>3, ReadIsLast
<1>10. Read(out.decoder, Tail(bytes)) = rest[n]
  BY <1>1, <1>2, <1>4, ReadIsLast, Zenon DEF n
<1> QED
  BY <1>8, <1>9, <1>10, Zenon

-----------------------------------------------------------------------------
(* The bytes of one key. *)

Down(d, m) ==
  CASE m = LeftShift -> d.left_shift [] m = RightShift -> d.right_shift
    [] m = LeftCtrl -> d.left_ctrl [] m = RightCtrl -> d.right_ctrl
    [] m = LeftAlt -> d.left_alt [] m = RightAlt -> d.right_alt

\* What the bytes of a key do to a decoder that waits for no second byte, and the
\* events they yield.
Turned(d, k, down) ==
  CASE k = LeftShift -> [d EXCEPT !.left_shift = down]
    [] k = RightShift -> [d EXCEPT !.right_shift = down]
    [] k = LeftCtrl -> [d EXCEPT !.left_ctrl = down]
    [] k = RightCtrl -> [d EXCEPT !.right_ctrl = down]
    [] k = LeftAlt -> [d EXCEPT !.left_alt = down]
    [] k = RightAlt -> [d EXCEPT !.right_alt = down]
    [] k = CapsLock -> [d EXCEPT !.caps_lock = (@ # down)]
    [] OTHER -> d

Yield(d, k, down) ==
  IF ~down \/ k \in AllModifiers \cup {CapsLock} THEN <<>>
  ELSE IF k[2] THEN <<decode_extended_make(d, k[1])>>
  ELSE <<decode_make(d, k[1])>>

Last(k, down) == IF down THEN k[1] ELSE k[1] + 128

LEMMA LastByte ==
  ASSUME NEW k \in Keys, NEW down \in BOOLEAN
  PROVE  /\ Last(k, down) \in Byte /\ Last(k, down) # E0
         /\ code(Last(k, down)) = k[1] /\ (~released(Last(k, down))) = down
<1>1. k[1] \in 0..127 /\ k[1] # 96
  BY KeysAssumption DEF E0
<1>2. k[1] \in Byte /\ k[1] + 128 \in Byte
  BY Zenon DEF Byte
<1>3. /\ code(k[1]) = k[1] /\ k[1] # E0 /\ ~released(k[1])
      /\ code(k[1] + 128) = k[1] /\ k[1] + 128 # E0 /\ released(k[1] + 128)
  BY <1>1 DEF code, released, E0
<1>4. CASE down = TRUE
  BY <1>2, <1>3, <1>4, Zenon DEF Last
<1>5. CASE down = FALSE
  BY <1>2, <1>3, <1>5, Zenon DEF Last
<1> QED
  BY <1>4, <1>5, Zenon

\* A key is its code and whether it has a prefix.
LEMMA KeyNames ==
  ASSUME NEW k \in Keys
  PROVE  /\ k[1] \in Nat /\ k[2] \in BOOLEAN
         /\ (k = LeftShift <=> k[1] = 42 /\ ~k[2])
         /\ (k = RightShift <=> k[1] = 54 /\ ~k[2])
         /\ (k = LeftCtrl <=> k[1] = 29 /\ ~k[2])
         /\ (k = LeftAlt <=> k[1] = 56 /\ ~k[2])
         /\ (k = CapsLock <=> k[1] = 58 /\ ~k[2])
         /\ (k = RightCtrl <=> k[1] = 29 /\ k[2])
         /\ (k = RightAlt <=> k[1] = 56 /\ k[2])
<1>1. k[1] \in Nat /\ k[2] \in BOOLEAN /\ k = <<k[1], k[2]>>
  BY KeysAssumption
<1>2. ASSUME NEW c PROVE /\ k = <<c, TRUE>> <=> k[1] = c /\ k[2]
                         /\ k = <<c, FALSE>> <=> k[1] = c /\ ~k[2]
  <2>0. ASSUME NEW v PROVE k = <<c, v>> <=> k[1] = c /\ k[2] = v
    <3>1. k = <<k[1], k[2]>>
      BY <1>1, Zenon
    <3>2. <<k[1], k[2]>> = <<c, v>> <=> k[1] = c /\ k[2] = v
      BY Zenon
    <3> QED
      BY <3>1, <3>2, Zenon
  <2>1. k = <<c, TRUE>> <=> k[1] = c /\ k[2] = TRUE
    BY <2>0, Zenon
  <2>2. k = <<c, FALSE>> <=> k[1] = c /\ k[2] = FALSE
    BY <2>0, Zenon
  <2>3. k[2] = TRUE \/ k[2] = FALSE
    BY <1>1, Zenon
  <2>4. CASE k[2] = TRUE
    <3>1. k[2] /\ k[2] # FALSE
      BY <2>4, Zenon
    <3> QED
      BY <2>1, <2>2, <2>4, <3>1, Zenon
  <2>5. CASE k[2] = FALSE
    <3>1. ~k[2] /\ k[2] # TRUE
      BY <2>5, Zenon
    <3> QED
      BY <2>1, <2>2, <2>5, <3>1, Zenon
  <2> QED
    BY <2>3, <2>4, <2>5, Zenon
<1> QED
  BY <1>1, <1>2, Zenon
  DEF LeftShift, RightShift, LeftCtrl, LeftAlt, CapsLock, RightCtrl, RightAlt

\* Setting one flag leaves the others, and setting it back all.
LEMMA Restored ==
  ASSUME NEW B, NEW v, NEW w,
         NEW d \in [extended : B, left_shift : B, right_shift : B, left_ctrl : B, right_ctrl : B,
                    left_alt : B, right_alt : B, caps_lock : B], d.extended = v
  PROVE  /\ [d EXCEPT !.extended = v] = d
         /\ [[d EXCEPT !.extended = w] EXCEPT !.extended = v] = d
         /\ [d EXCEPT !.extended = w].extended = w
<1>1. [d EXCEPT !.extended = v] = d
  BY Zenon
<1>2. [[d EXCEPT !.extended = w] EXCEPT !.extended = v] = d
  BY Zenon
<1>3. [d EXCEPT !.extended = w].extended = w
  BY Zenon
<1> QED
  BY <1>1, <1>2, <1>3, Zenon

LEMMA FlagBack ==
  ASSUME NEW d \in Decoders, ~d.extended
  PROVE  /\ [d EXCEPT !.extended = FALSE] = d
         /\ [[d EXCEPT !.extended = TRUE] EXCEPT !.extended = FALSE] = d
         /\ [d EXCEPT !.extended = TRUE].extended
<1>1. d \in [extended : BOOLEAN, left_shift : BOOLEAN, right_shift : BOOLEAN,
             left_ctrl : BOOLEAN, right_ctrl : BOOLEAN,
             left_alt : BOOLEAN, right_alt : BOOLEAN, caps_lock : BOOLEAN]
  BY Zenon DEF Decoders
<1>2. ASSUME NEW v, NEW w, d.extended = v
      PROVE  /\ [d EXCEPT !.extended = v] = d
             /\ [[d EXCEPT !.extended = w] EXCEPT !.extended = v] = d
             /\ [d EXCEPT !.extended = w].extended = w
  BY <1>1, <1>2, Restored, Zenon
<1>3. d.extended \in BOOLEAN
  BY <1>1, Zenon
<1>4. d.extended = FALSE
  BY <1>3, Zenon
<1> QED
  BY <1>2, <1>4, Zenon

\* What decode_basic makes of a key, and decode_extended.
LEMMA BasicKey ==
  ASSUME NEW d, NEW k \in Keys, NEW down \in BOOLEAN, ~k[2]
  PROVE  decode_basic(d, k[1], down)
           = [decoder |-> Turned(d, k, down), events |-> Yield(d, k, down)]
<1> DEFINE key == k[1]
<1>1. /\ key \in Nat
      /\ k = LeftShift <=> key = 42
      /\ k = RightShift <=> key = 54
      /\ k = LeftCtrl <=> key = 29
      /\ k = LeftAlt <=> key = 56
      /\ k = CapsLock <=> key = 58
      /\ k # RightCtrl /\ k # RightAlt
  BY KeyNames, ZenonT(60)
<1> HIDE DEF key
<1>2. CASE key = 42
  BY <1>1, <1>2 DEF decode_basic, Turned, Yield, Nothing, AllModifiers, key
<1>3. CASE key = 54
  BY <1>1, <1>3 DEF decode_basic, Turned, Yield, Nothing, AllModifiers, key
<1>4. CASE key = 29
  BY <1>1, <1>4 DEF decode_basic, Turned, Yield, Nothing, AllModifiers, key
<1>5. CASE key = 56
  BY <1>1, <1>5 DEF decode_basic, Turned, Yield, Nothing, AllModifiers, key
<1>6. CASE key = 58
  BY <1>1, <1>6 DEF decode_basic, Turned, Yield, Nothing, AllModifiers, key
<1>7. CASE key \notin {42, 54, 29, 56, 58}
  <2>1. k \notin AllModifiers \cup {CapsLock}
    BY <1>1, <1>7, Zenon DEF AllModifiers
  <2>2. Turned(d, k, down) = d
    BY <2>1, Zenon DEF Turned, AllModifiers
  <2>3. decode_basic(d, k[1], down) = IF down THEN Gives(d, decode_make(d, k[1])) ELSE Nothing(d)
    BY <1>7, Zenon DEF decode_basic, key
  <2> QED
    BY <2>1, <2>2, <2>3, Zenon DEF Yield, Nothing, Gives
<1> QED
  BY <1>2, <1>3, <1>4, <1>5, <1>6, <1>7

LEMMA ExtendedKey ==
  ASSUME NEW d, NEW k \in Keys, NEW down \in BOOLEAN, k[2]
  PROVE  decode_extended(d, k[1], down)
           = [decoder |-> Turned(d, k, down), events |-> Yield(d, k, down)]
<1> DEFINE key == k[1]
<1>1. /\ key \in Nat
      /\ k = RightCtrl <=> key = 29
      /\ k = RightAlt <=> key = 56
      /\ k # LeftShift /\ k # RightShift /\ k # LeftCtrl /\ k # LeftAlt /\ k # CapsLock
  BY KeyNames, ZenonT(60)
<1> HIDE DEF key
<1>2. CASE key = 29
  BY <1>1, <1>2 DEF decode_extended, Turned, Yield, Nothing, AllModifiers, key
<1>3. CASE key = 56
  BY <1>1, <1>3 DEF decode_extended, Turned, Yield, Nothing, AllModifiers, key
<1>4. CASE key \notin {29, 56}
  <2>1. k \notin AllModifiers \cup {CapsLock}
    BY <1>1, <1>4, Zenon DEF AllModifiers
  <2>2. Turned(d, k, down) = d
    BY <2>1, Zenon DEF Turned, AllModifiers
  <2>3. decode_extended(d, k[1], down)
          = IF down THEN Gives(d, decode_extended_make(d, k[1])) ELSE Nothing(d)
    BY <1>4, Zenon DEF decode_extended, key
  <2> QED
    BY <2>1, <2>2, <2>3, Zenon DEF Yield, Nothing, Gives
<1> QED
  BY <1>2, <1>3, <1>4, Zenon

\* Its bytes, read by a decoder that waits for none.
LEMMA KeyRead ==
  ASSUME NEW d \in Decoders, ~d.extended, NEW k \in Keys, NEW down \in BOOLEAN
  PROVE  LET e == IF k[2] THEN [d EXCEPT !.extended = TRUE] ELSE d
         IN /\ k[2] => feed(d, E0) = Nothing(e)
            /\ feed(e, Last(k, down))
                 = [decoder |-> Turned(d, k, down), events |-> Yield(d, k, down)]
<1> DEFINE b == Last(k, down)
           e == [d EXCEPT !.extended = TRUE]
<1>1. b # E0 /\ code(b) = k[1] /\ (~released(b)) = down
  BY LastByte, Zenon
<1> HIDE DEF b
<1>2. CASE k[2]
  <2>1. feed(d, E0) = Nothing(e)
    BY Zenon DEF feed
  <2>2. feed(e, b) = decode_extended([e EXCEPT !.extended = FALSE], code(b), ~released(b))
    BY <1>1, FlagBack, Zenon DEF feed
  <2>3. feed(e, b) = decode_extended(d, k[1], down)
    BY <1>1, <2>2, FlagBack, Zenon
  <2> HIDE DEF e
  <2> QED
    BY <1>2, <2>1, <2>3, ExtendedKey, Zenon DEF b, e
<1>3. CASE ~k[2]
  <2>1. feed(d, b) = decode_basic(d, k[1], down)
    BY <1>1, Zenon DEF feed
  <2> QED
    BY <1>3, <2>1, BasicKey, Zenon DEF b
<1> QED
  BY <1>2, <1>3, Zenon

LEMMA TurnedStaysIdle ==
  ASSUME NEW d \in Decoders, ~d.extended, NEW k, NEW down
  PROVE  ~Turned(d, k, down).extended
<1>1. d \in [extended : BOOLEAN, left_shift : BOOLEAN, right_shift : BOOLEAN,
             left_ctrl : BOOLEAN, right_ctrl : BOOLEAN,
             left_alt : BOOLEAN, right_alt : BOOLEAN, caps_lock : BOOLEAN]
  BY Zenon DEF Decoders
<1>2. Turned(d, k, down).extended = d.extended
  BY <1>1, Zenon DEF Turned
<1> QED
  BY <1>2, Zenon

\* Whatever was pending, it is not after the last byte of a key.
LEMMA NotPending ==
  ASSUME NEW d \in Decoders, NEW k \in Keys, NEW down \in BOOLEAN
  PROVE  ~feed(d, Last(k, down)).decoder.extended
<1> DEFINE b == Last(k, down)
           e == [d EXCEPT !.extended = FALSE]
<1>1. b # E0 /\ code(b) = k[1] /\ (~released(b)) = down
  BY LastByte, Zenon
<1>2. e \in Decoders
  BY FlagTypes, Zenon
<1>3. e.extended = FALSE
  <2>1. d \in [extended : BOOLEAN, left_shift : BOOLEAN, right_shift : BOOLEAN,
               left_ctrl : BOOLEAN, right_ctrl : BOOLEAN,
               left_alt : BOOLEAN, right_alt : BOOLEAN, caps_lock : BOOLEAN]
    BY Zenon DEF Decoders
  <2>2. ASSUME NEW v PROVE [d EXCEPT !.extended = v].extended = v
    BY <2>1, Zenon
  <2> QED
    BY <2>2, Zenon
<1> HIDE DEF b, e
<1>4. ASSUME NEW f, f.extended = FALSE, NEW key
      PROVE  /\ decode_extended(f, key, down).decoder.extended = FALSE
             /\ decode_basic(f, key, down).decoder.extended = FALSE
  BY <1>4 DEF decode_extended, decode_basic, Nothing, Gives
<1>5. CASE d.extended
  <2>1. feed(d, b) = decode_extended(e, k[1], down)
    BY <1>1, <1>5, Zenon DEF feed, e
  <2> QED
    BY <1>3, <1>4, <2>1, Zenon DEF b
<1>6. CASE ~d.extended
  <2>1. feed(d, b) = decode_basic(d, k[1], down)
    BY <1>1, <1>6, Zenon DEF feed
  <2>2. d.extended = FALSE
    <3>1. d.extended \in BOOLEAN
      BY Zenon DEF Decoders
    <3> QED
      BY <1>6, <3>1, Zenon
  <2> QED
    BY <1>4, <2>1, <2>2, Zenon DEF b
<1> QED
  BY <1>5, <1>6, Zenon

-----------------------------------------------------------------------------
(* The decoder that is in step with the keyboard. *)

Decoder(e, ls, rs, lc, rc, la, ra, cl) ==
  [extended |-> e, left_shift |-> ls, right_shift |-> rs, left_ctrl |-> lc,
   right_ctrl |-> rc, left_alt |-> la, right_alt |-> ra, caps_lock |-> cl]

LEMMA InStepFlags ==
  InStep = Decoder(FALSE, LeftShift \in held, RightShift \in held, LeftCtrl \in held,
                   RightCtrl \in held, LeftAlt \in held, RightAlt \in held, caps)
  BY Zenon DEF InStep, Decoder

LEMMA Distinct ==
  /\ LeftShift # RightShift /\ LeftShift # LeftCtrl /\ LeftShift # RightCtrl
  /\ LeftShift # LeftAlt /\ LeftShift # RightAlt /\ LeftShift # CapsLock
  /\ RightShift # LeftCtrl /\ RightShift # RightCtrl
  /\ RightShift # LeftAlt /\ RightShift # RightAlt /\ RightShift # CapsLock
  /\ LeftCtrl # RightCtrl
  /\ LeftCtrl # LeftAlt /\ LeftCtrl # RightAlt /\ LeftCtrl # CapsLock
  /\ RightCtrl # LeftAlt /\ RightCtrl # RightAlt /\ RightCtrl # CapsLock
  /\ LeftAlt # RightAlt /\ LeftAlt # CapsLock /\ RightAlt # CapsLock
<1>1. /\ LeftShift[1] = 42 /\ RightShift[1] = 54 /\ LeftCtrl[1] = 29 /\ RightCtrl[1] = 29
      /\ LeftAlt[1] = 56 /\ RightAlt[1] = 56 /\ CapsLock[1] = 58
  BY Zenon DEF LeftShift, RightShift, LeftCtrl, LeftAlt, CapsLock, RightCtrl, RightAlt
<1>2. ~LeftCtrl[2] /\ RightCtrl[2] /\ ~LeftAlt[2] /\ RightAlt[2]
  BY Zenon DEF LeftCtrl, LeftAlt, RightCtrl, RightAlt
<1>3. LeftCtrl # RightCtrl /\ LeftAlt # RightAlt
  BY <1>2, Zenon
<1> QED
  BY <1>1, <1>3

\* A step of the keys turns it as their bytes turn a decoder.
LEMMA InStepTurns ==
  ASSUME NEW k, NEW down,
         \A m : (m \in held') = IF m = k THEN down ELSE m \in held,
         caps' = IF k = CapsLock THEN caps # down ELSE caps
  PROVE  InStep' = Turned(InStep, k, down)
<1> DEFINE off == FALSE
           d == InStep
           ls == LeftShift \in held   rs == RightShift \in held
           lc == LeftCtrl \in held    rc == RightCtrl \in held
           la == LeftAlt \in held     ra == RightAlt \in held
           lsN == LeftShift \in held'   rsN == RightShift \in held'
           lcN == LeftCtrl \in held'    rcN == RightCtrl \in held'
           laN == LeftAlt \in held'     raN == RightAlt \in held'
<1>1. d = Decoder(off, ls, rs, lc, rc, la, ra, caps)
  BY InStepFlags, Zenon
<1>2. InStep' = Decoder(off, lsN, rsN, lcN, rcN, laN, raN, caps')
  BY Zenon DEF InStep, Decoder
<1>3. /\ k # LeftShift => lsN = ls
      /\ k # RightShift => rsN = rs
      /\ k # LeftCtrl => lcN = lc
      /\ k # RightCtrl => rcN = rc
      /\ k # LeftAlt => laN = la
      /\ k # RightAlt => raN = ra
  BY Zenon
<1>0. /\ k = LeftShift => lsN = down
      /\ k = RightShift => rsN = down
      /\ k = LeftCtrl => lcN = down
      /\ k = RightCtrl => rcN = down
      /\ k = LeftAlt => laN = down
      /\ k = RightAlt => raN = down
      /\ k # CapsLock => caps' = caps
      /\ k = CapsLock => caps' = (caps # down)
  BY Zenon
<1> HIDE DEF off, d, ls, rs, lc, rc, la, ra, lsN, rsN, lcN, rcN, laN, raN
<1>f. /\ \A v : [d EXCEPT !.left_shift = v] = Decoder(off, v, rs, lc, rc, la, ra, caps)
      /\ \A v : [d EXCEPT !.right_shift = v] = Decoder(off, ls, v, lc, rc, la, ra, caps)
      /\ \A v : [d EXCEPT !.left_ctrl = v] = Decoder(off, ls, rs, v, rc, la, ra, caps)
      /\ \A v : [d EXCEPT !.right_ctrl = v] = Decoder(off, ls, rs, lc, v, la, ra, caps)
      /\ \A v : [d EXCEPT !.left_alt = v] = Decoder(off, ls, rs, lc, rc, v, ra, caps)
      /\ \A v : [d EXCEPT !.right_alt = v] = Decoder(off, ls, rs, lc, rc, la, v, caps)
      /\ \A v : [d EXCEPT !.caps_lock = v] = Decoder(off, ls, rs, lc, rc, la, ra, v)
      /\ d.caps_lock = caps
  BY <1>1 DEF Decoder
<1>4. CASE k = LeftShift
  <2>1. InStep' = Decoder(off, down, rs, lc, rc, la, ra, caps)
    BY <1>0, <1>2, <1>3, <1>4, Distinct, Zenon
  <2>2. Turned(d, k, down) = [d EXCEPT !.left_shift = down]
    BY <1>4, Distinct, Zenon DEF Turned
  <2> QED
    BY <1>f, <2>1, <2>2, Zenon DEF d
<1>5. CASE k = RightShift
  <2>1. InStep' = Decoder(off, ls, down, lc, rc, la, ra, caps)
    BY <1>0, <1>2, <1>3, <1>5, Distinct, Zenon
  <2>2. Turned(d, k, down) = [d EXCEPT !.right_shift = down]
    BY <1>5, Distinct, Zenon DEF Turned
  <2> QED
    BY <1>f, <2>1, <2>2, Zenon DEF d
<1>6. CASE k = LeftCtrl
  <2>1. InStep' = Decoder(off, ls, rs, down, rc, la, ra, caps)
    BY <1>0, <1>2, <1>3, <1>6, Distinct, Zenon
  <2>2. Turned(d, k, down) = [d EXCEPT !.left_ctrl = down]
    BY <1>6, Distinct, Zenon DEF Turned
  <2> QED
    BY <1>f, <2>1, <2>2, Zenon DEF d
<1>7. CASE k = RightCtrl
  <2>1. InStep' = Decoder(off, ls, rs, lc, down, la, ra, caps)
    BY <1>0, <1>2, <1>3, <1>7, Distinct, Zenon
  <2>2. Turned(d, k, down) = [d EXCEPT !.right_ctrl = down]
    BY <1>7, Distinct, Zenon DEF Turned
  <2> QED
    BY <1>f, <2>1, <2>2, Zenon DEF d
<1>8. CASE k = LeftAlt
  <2>1. InStep' = Decoder(off, ls, rs, lc, rc, down, ra, caps)
    BY <1>0, <1>2, <1>3, <1>8, Distinct, Zenon
  <2>2. Turned(d, k, down) = [d EXCEPT !.left_alt = down]
    BY <1>8, Distinct, Zenon DEF Turned
  <2> QED
    BY <1>f, <2>1, <2>2, Zenon DEF d
<1>9. CASE k = RightAlt
  <2>1. InStep' = Decoder(off, ls, rs, lc, rc, la, down, caps)
    BY <1>0, <1>2, <1>3, <1>9, Distinct, Zenon
  <2>2. Turned(d, k, down) = [d EXCEPT !.right_alt = down]
    BY <1>9, Distinct, Zenon DEF Turned
  <2> QED
    BY <1>f, <2>1, <2>2, Zenon DEF d
<1>10. CASE k = CapsLock
  <2>1. InStep' = Decoder(off, ls, rs, lc, rc, la, ra, (caps # down))
    BY <1>0, <1>2, <1>3, <1>10, Distinct, Zenon
  <2>2. Turned(d, k, down) = [d EXCEPT !.caps_lock = (caps # down)]
    BY <1>f, <1>10, Distinct, Zenon DEF Turned
  <2> QED
    BY <1>f, <2>1, <2>2, Zenon DEF d
<1>11. CASE k \notin AllModifiers \cup {CapsLock}
  <2>1. k # LeftShift /\ k # RightShift /\ k # LeftCtrl /\ k # RightCtrl /\ k # LeftAlt
        /\ k # RightAlt /\ k # CapsLock
    BY <1>11, Zenon DEF AllModifiers
  <2>2. Turned(d, k, down) = d
    BY <2>1, Zenon DEF Turned
  <2> QED
    BY <1>0, <1>1, <1>2, <1>3, <2>1, <2>2, ZenonT(60) DEF d
<1> QED
  BY <1>4, <1>5, <1>6, <1>7, <1>8, <1>9, <1>10, <1>11, ZenonT(60) DEF AllModifiers

LEMMA OutcomeParts ==
  ASSUME NEW x, NEW y, NEW o, o = [decoder |-> x, events |-> y]
  PROVE  o.decoder = x /\ o.events = y
  BY Zenon

\* A key goes down or up behind the bytes under way: w is the wire then, s and t
\* what the bytes come to before and after.
Carries(k, down, w, s, t) ==
  /\ w \in Seq(Byte)
  /\ s \in Outcomes /\ t \in Outcomes
  /\ ~t.decoder.extended
  /\ ~s.decoder.extended =>
       /\ t.decoder = Turned(s.decoder, k, down)
       /\ t.events = s.events \o Yield(s.decoder, k, down)

Stroke(k, down) == (IF k[2] THEN <<E0>> ELSE <<>>) \o <<Last(k, down)>>

LEMMA KeySent ==
  ASSUME NEW d \in Decoders, NEW q \in Seq(Byte), NEW w \in Seq(Byte),
         NEW k \in Keys, NEW down \in BOOLEAN
  PROVE  Carries(k, down, w \o Stroke(k, down),
                 Read(d, q \o w), Read(d, q \o (w \o Stroke(k, down))))
<1> DEFINE b == Last(k, down)
           codes == Stroke(k, down)
           s == Read(d, q \o w)
           t == Read(d, q \o (w \o codes))
           u == Reads(s, E0)
<1>1. b \in Byte /\ E0 \in Byte /\ q \o w \in Seq(Byte) /\ k[2] \in BOOLEAN
  <2>1. b \in Byte
    BY LastByte, Zenon DEF b
  <2>2. E0 \in Byte
    BY Zenon DEF Byte
  <2>3. q \o w \in Seq(Byte)
    BY Joins, Zenon
  <2>4. k[2] \in BOOLEAN
    BY KeyNames, Zenon
  <2> QED
    BY <2>1, <2>2, <2>3, <2>4, Zenon
<1>2. codes = (IF k[2] THEN <<E0>> ELSE <<>>) \o <<b>>
  BY Zenon DEF Stroke
<1> HIDE DEF b, codes
<1>0. <<b>> \in Seq(Byte) /\ <<E0>> \in Seq(Byte)
  BY <1>1
<1>3. s \in Outcomes
  BY <1>1, ReadType, Zenon
<1>4. CASE k[2]
  <2>1. codes = <<E0>> \o <<b>>
    BY <1>2, <1>4, ZenonT(60)
  <2>2. codes \in Seq(Byte)
    BY <1>0, <2>1, Joins, ZenonT(60)
  <2>3. w \o codes \in Seq(Byte) /\ Append(q \o w, E0) \in Seq(Byte)
    BY <1>1, <2>2, Joins, AppendsOne, Zenon
  <2>4. q \o (w \o codes) = Append(Append(q \o w, E0), b)
    <3>1. ASSUME NEW e \in Byte
          PROVE  q \o (w \o (<<e>> \o <<b>>)) = Append(Append(q \o w, e), b)
      BY <1>1, JoinsTwo
    <3> QED
      BY <1>1, <2>1, <3>1, ZenonT(60)
  <2>5. t = Reads(u, b)
    <3>1. Read(d, Append(q \o w, E0)) = u
      BY <1>1, ReadMore, Zenon
    <3>2. Read(d, Append(Append(q \o w, E0), b)) = Reads(u, b)
      BY <1>1, <2>3, <3>1, ReadMore, ZenonT(60)
    <3> QED
      BY <2>4, <3>2, Zenon
  <2>6. u \in Outcomes /\ t \in Outcomes
    BY <1>1, <1>3, <2>5, ReadsType, Zenon
  <2>7. t.decoder = feed(u.decoder, b).decoder /\ t.events = u.events \o feed(u.decoder, b).events
    BY <2>5, ReadsParts, Zenon
  <2>8. u.decoder = feed(s.decoder, E0).decoder /\ u.events = s.events \o feed(s.decoder, E0).events
    BY ReadsParts, Zenon
  <2>9. s.decoder \in Decoders /\ u.decoder \in Decoders /\ s.events \in Seq(KeyEvents)
    BY <1>3, <2>6, Zenon DEF Outcomes
  <2> HIDE DEF s, t, u
  <2>10. ~t.decoder.extended
    BY <2>7, <2>9, NotPending, Zenon DEF b
  <2>11. ASSUME ~s.decoder.extended
         PROVE  /\ t.decoder = Turned(s.decoder, k, down)
                /\ t.events = s.events \o Yield(s.decoder, k, down)
    <3> DEFINE e == [s.decoder EXCEPT !.extended = TRUE]
    <3>1. feed(s.decoder, E0) = Nothing(e)
      BY <1>4, <2>9, <2>11, KeyRead, Zenon
    <3>2. feed(e, b) = [decoder |-> Turned(s.decoder, k, down), events |-> Yield(s.decoder, k, down)]
      BY <1>4, <2>9, <2>11, KeyRead, Zenon DEF b
    <3>3. e \in Decoders
      BY <2>9, FlagTypes, Zenon
    <3> HIDE DEF e
    <3>4. u.decoder = e /\ u.events = s.events
      BY <2>8, <2>9, <3>1, <3>3, NothingType, JoinsNothing, ZenonT(60)
    <3>5. /\ feed(e, b).decoder = Turned(s.decoder, k, down)
          /\ feed(e, b).events = Yield(s.decoder, k, down)
      BY <3>2, OutcomeParts
    <3> QED
      BY <2>7, <3>4, <3>5, Zenon
  <2> QED
    BY <1>3, <2>3, <2>6, <2>10, <2>11, ZenonT(60) DEF Carries, s, t, codes
<1>5. CASE ~k[2]
  <2>1. codes = <<b>>
    <3>1. codes = <<>> \o <<b>>
      BY <1>2, <1>5, Zenon
    <3>2. <<b>> \in Seq(Byte)
      BY <1>1
    <3> QED
      BY <3>1, <3>2, JoinsNothing, Zenon
  <2>2. codes \in Seq(Byte)
    BY <1>0, <2>1, Zenon
  <2>3. w \o codes \in Seq(Byte)
    BY <1>1, <2>2, Joins, Zenon
  <2>4. q \o (w \o codes) = Append(q \o w, b)
    <3>1. q \o (w \o <<b>>) = Append(q \o w, b)
      BY <1>1, JoinsOne
    <3> QED
      BY <2>1, <3>1, Zenon
  <2>5. t = Reads(s, b)
    BY <1>1, <2>4, ReadMore, ZenonT(60)
  <2>6. t \in Outcomes
    BY <1>1, <1>3, <2>5, ReadsType, Zenon
  <2>7. t.decoder = feed(s.decoder, b).decoder /\ t.events = s.events \o feed(s.decoder, b).events
    BY <2>5, ReadsParts, ZenonT(60)
  <2>9. s.decoder \in Decoders /\ s.events \in Seq(KeyEvents)
    BY <1>3, <2>6, Zenon DEF Outcomes
  <2> HIDE DEF s, t
  <2>10. ~t.decoder.extended
    BY <2>7, <2>9, NotPending, Zenon DEF b
  <2>11. ASSUME ~s.decoder.extended
         PROVE  /\ t.decoder = Turned(s.decoder, k, down)
                /\ t.events = s.events \o Yield(s.decoder, k, down)
    <3>2. feed(s.decoder, b)
            = [decoder |-> Turned(s.decoder, k, down), events |-> Yield(s.decoder, k, down)]
      BY <1>5, <2>9, <2>11, KeyRead, ZenonT(60) DEF b
    <3>5. /\ feed(s.decoder, b).decoder = Turned(s.decoder, k, down)
          /\ feed(s.decoder, b).events = Yield(s.decoder, k, down)
      BY <3>2, OutcomeParts
    <3> QED
      BY <2>7, <3>5, Zenon
  <2> QED
    BY <1>3, <2>3, <2>6, <2>10, <2>11, Zenon DEF Carries, s, t, codes
<1> QED
  BY <1>1, <1>4, <1>5, Zenon

LEMMA DownFlags ==
  ASSUME NEW d
  PROVE  /\ Down(d, LeftShift) = d.left_shift /\ Down(d, RightShift) = d.right_shift
         /\ Down(d, LeftCtrl) = d.left_ctrl /\ Down(d, RightCtrl) = d.right_ctrl
         /\ Down(d, LeftAlt) = d.left_alt /\ Down(d, RightAlt) = d.right_alt
  BY Distinct, Zenon DEF Down

\* t is d with the flag of the modifier k, if it is one, as down says.
TurnsOnly(d, t, k, down) ==
  /\ t.left_shift = IF k = LeftShift THEN down ELSE d.left_shift
  /\ t.right_shift = IF k = RightShift THEN down ELSE d.right_shift
  /\ t.left_ctrl = IF k = LeftCtrl THEN down ELSE d.left_ctrl
  /\ t.right_ctrl = IF k = RightCtrl THEN down ELSE d.right_ctrl
  /\ t.left_alt = IF k = LeftAlt THEN down ELSE d.left_alt
  /\ t.right_alt = IF k = RightAlt THEN down ELSE d.right_alt

OnlyTurned(d, t, k, down) ==
  \A n \in AllModifiers : Down(t, n) = IF k = n THEN down ELSE Down(d, n)

\* The flags of a decoder after a modifier was turned, read as Down reads them.
LEMMA DownOne ==
  ASSUME NEW d, NEW t, NEW k, NEW down,
         TurnsOnly(d, t, k, down)
  PROVE  OnlyTurned(d, t, k, down)
<1> SUFFICES ASSUME NEW n \in AllModifiers PROVE Down(t, n) = IF k = n THEN down ELSE Down(d, n)
  BY Zenon DEF OnlyTurned
<1>1. CASE n = LeftShift
  BY <1>1, DownFlags, Zenon DEF TurnsOnly
<1>2. CASE n = RightShift
  BY <1>2, DownFlags, Zenon DEF TurnsOnly
<1>3. CASE n = LeftCtrl
  BY <1>3, DownFlags, Zenon DEF TurnsOnly
<1>4. CASE n = RightCtrl
  BY <1>4, DownFlags, Zenon DEF TurnsOnly
<1>5. CASE n = LeftAlt
  BY <1>5, DownFlags, Zenon DEF TurnsOnly
<1>6. CASE n = RightAlt
  BY <1>6, DownFlags, Zenon DEF TurnsOnly
<1> QED
  BY <1>1, <1>2, <1>3, <1>4, <1>5, <1>6, ZenonT(60) DEF AllModifiers

\* A key turns its own flag and no other.
LEMMA DownTurned ==
  ASSUME NEW d \in Decoders, NEW m \in AllModifiers, NEW k, NEW down
  PROVE  /\ m = k => Down(Turned(d, k, down), m) = down
         /\ m # k => Down(Turned(d, k, down), m) = Down(d, m)
<1> DEFINE t == Turned(d, k, down)
<1> SUFFICES OnlyTurned(d, t, k, down)
  BY Zenon DEF OnlyTurned, t
<1> HIDE DEF t
<1> HIDE DEF t
<1>1. d \in [extended : BOOLEAN, left_shift : BOOLEAN, right_shift : BOOLEAN,
             left_ctrl : BOOLEAN, right_ctrl : BOOLEAN,
             left_alt : BOOLEAN, right_alt : BOOLEAN, caps_lock : BOOLEAN]
  BY Zenon DEF Decoders
<1>2. ASSUME NEW v
      PROVE  /\ [d EXCEPT !.left_shift = v].left_shift = v
             /\ [d EXCEPT !.left_shift = v].right_shift = d.right_shift
             /\ [d EXCEPT !.left_shift = v].left_ctrl = d.left_ctrl
             /\ [d EXCEPT !.left_shift = v].right_ctrl = d.right_ctrl
             /\ [d EXCEPT !.left_shift = v].left_alt = d.left_alt
             /\ [d EXCEPT !.left_shift = v].right_alt = d.right_alt
  BY <1>1, Zenon
<1>3. ASSUME NEW v
      PROVE  /\ [d EXCEPT !.right_shift = v].left_shift = d.left_shift
             /\ [d EXCEPT !.right_shift = v].right_shift = v
             /\ [d EXCEPT !.right_shift = v].left_ctrl = d.left_ctrl
             /\ [d EXCEPT !.right_shift = v].right_ctrl = d.right_ctrl
             /\ [d EXCEPT !.right_shift = v].left_alt = d.left_alt
             /\ [d EXCEPT !.right_shift = v].right_alt = d.right_alt
  BY <1>1, Zenon
<1>4. ASSUME NEW v
      PROVE  /\ [d EXCEPT !.left_ctrl = v].left_shift = d.left_shift
             /\ [d EXCEPT !.left_ctrl = v].right_shift = d.right_shift
             /\ [d EXCEPT !.left_ctrl = v].left_ctrl = v
             /\ [d EXCEPT !.left_ctrl = v].right_ctrl = d.right_ctrl
             /\ [d EXCEPT !.left_ctrl = v].left_alt = d.left_alt
             /\ [d EXCEPT !.left_ctrl = v].right_alt = d.right_alt
  BY <1>1, Zenon
<1>5. ASSUME NEW v
      PROVE  /\ [d EXCEPT !.right_ctrl = v].left_shift = d.left_shift
             /\ [d EXCEPT !.right_ctrl = v].right_shift = d.right_shift
             /\ [d EXCEPT !.right_ctrl = v].left_ctrl = d.left_ctrl
             /\ [d EXCEPT !.right_ctrl = v].right_ctrl = v
             /\ [d EXCEPT !.right_ctrl = v].left_alt = d.left_alt
             /\ [d EXCEPT !.right_ctrl = v].right_alt = d.right_alt
  BY <1>1, Zenon
<1>6. ASSUME NEW v
      PROVE  /\ [d EXCEPT !.left_alt = v].left_shift = d.left_shift
             /\ [d EXCEPT !.left_alt = v].right_shift = d.right_shift
             /\ [d EXCEPT !.left_alt = v].left_ctrl = d.left_ctrl
             /\ [d EXCEPT !.left_alt = v].right_ctrl = d.right_ctrl
             /\ [d EXCEPT !.left_alt = v].left_alt = v
             /\ [d EXCEPT !.left_alt = v].right_alt = d.right_alt
  BY <1>1, Zenon
<1>7. ASSUME NEW v
      PROVE  /\ [d EXCEPT !.right_alt = v].left_shift = d.left_shift
             /\ [d EXCEPT !.right_alt = v].right_shift = d.right_shift
             /\ [d EXCEPT !.right_alt = v].left_ctrl = d.left_ctrl
             /\ [d EXCEPT !.right_alt = v].right_ctrl = d.right_ctrl
             /\ [d EXCEPT !.right_alt = v].left_alt = d.left_alt
             /\ [d EXCEPT !.right_alt = v].right_alt = v
  BY <1>1, Zenon
<1>8. ASSUME NEW v
      PROVE  /\ [d EXCEPT !.caps_lock = v].left_shift = d.left_shift
             /\ [d EXCEPT !.caps_lock = v].right_shift = d.right_shift
             /\ [d EXCEPT !.caps_lock = v].left_ctrl = d.left_ctrl
             /\ [d EXCEPT !.caps_lock = v].right_ctrl = d.right_ctrl
             /\ [d EXCEPT !.caps_lock = v].left_alt = d.left_alt
             /\ [d EXCEPT !.caps_lock = v].right_alt = d.right_alt
  BY <1>1, Zenon
<1>9. CASE k = LeftShift
  <2>1. PICK v : t = [d EXCEPT !.left_shift = v] /\ v = down
    BY <1>9, Distinct, Zenon DEF Turned, t
  <2>2. /\ t.left_shift = down /\ t.right_shift = d.right_shift
        /\ t.left_ctrl = d.left_ctrl /\ t.right_ctrl = d.right_ctrl
        /\ t.left_alt = d.left_alt /\ t.right_alt = d.right_alt
    BY <2>1, <1>2, ZenonT(60)
  <2>3. TurnsOnly(d, t, k, down)
    BY <1>9, <2>2, Distinct, Zenon DEF TurnsOnly
  <2> QED
    BY <2>3, DownOne, Zenon
<1>10. CASE k = RightShift
  <2>1. PICK v : t = [d EXCEPT !.right_shift = v] /\ v = down
    BY <1>10, Distinct, Zenon DEF Turned, t
  <2>2. /\ t.left_shift = d.left_shift /\ t.right_shift = down
        /\ t.left_ctrl = d.left_ctrl /\ t.right_ctrl = d.right_ctrl
        /\ t.left_alt = d.left_alt /\ t.right_alt = d.right_alt
    BY <2>1, <1>3, ZenonT(60)
  <2>3. TurnsOnly(d, t, k, down)
    BY <1>10, <2>2, Distinct, Zenon DEF TurnsOnly
  <2> QED
    BY <2>3, DownOne, Zenon
<1>11. CASE k = LeftCtrl
  <2>1. PICK v : t = [d EXCEPT !.left_ctrl = v] /\ v = down
    BY <1>11, Distinct, Zenon DEF Turned, t
  <2>2. /\ t.left_shift = d.left_shift /\ t.right_shift = d.right_shift
        /\ t.left_ctrl = down /\ t.right_ctrl = d.right_ctrl
        /\ t.left_alt = d.left_alt /\ t.right_alt = d.right_alt
    BY <2>1, <1>4, ZenonT(60)
  <2>3. TurnsOnly(d, t, k, down)
    BY <1>11, <2>2, Distinct, Zenon DEF TurnsOnly
  <2> QED
    BY <2>3, DownOne, Zenon
<1>12. CASE k = RightCtrl
  <2>1. PICK v : t = [d EXCEPT !.right_ctrl = v] /\ v = down
    BY <1>12, Distinct, Zenon DEF Turned, t
  <2>2. /\ t.left_shift = d.left_shift /\ t.right_shift = d.right_shift
        /\ t.left_ctrl = d.left_ctrl /\ t.right_ctrl = down
        /\ t.left_alt = d.left_alt /\ t.right_alt = d.right_alt
    BY <2>1, <1>5, ZenonT(60)
  <2>3. TurnsOnly(d, t, k, down)
    BY <1>12, <2>2, Distinct, Zenon DEF TurnsOnly
  <2> QED
    BY <2>3, DownOne, Zenon
<1>13. CASE k = LeftAlt
  <2>1. PICK v : t = [d EXCEPT !.left_alt = v] /\ v = down
    BY <1>13, Distinct, Zenon DEF Turned, t
  <2>2. /\ t.left_shift = d.left_shift /\ t.right_shift = d.right_shift
        /\ t.left_ctrl = d.left_ctrl /\ t.right_ctrl = d.right_ctrl
        /\ t.left_alt = down /\ t.right_alt = d.right_alt
    BY <2>1, <1>6, ZenonT(60)
  <2>3. TurnsOnly(d, t, k, down)
    BY <1>13, <2>2, Distinct, Zenon DEF TurnsOnly
  <2> QED
    BY <2>3, DownOne, Zenon
<1>14. CASE k = RightAlt
  <2>1. PICK v : t = [d EXCEPT !.right_alt = v] /\ v = down
    BY <1>14, Distinct, Zenon DEF Turned, t
  <2>2. /\ t.left_shift = d.left_shift /\ t.right_shift = d.right_shift
        /\ t.left_ctrl = d.left_ctrl /\ t.right_ctrl = d.right_ctrl
        /\ t.left_alt = d.left_alt /\ t.right_alt = down
    BY <2>1, <1>7, ZenonT(60)
  <2>3. TurnsOnly(d, t, k, down)
    BY <1>14, <2>2, Distinct, Zenon DEF TurnsOnly
  <2> QED
    BY <2>3, DownOne, Zenon
<1>15. CASE k = CapsLock
  <2>1. PICK v : t = [d EXCEPT !.caps_lock = v]
    BY <1>15, Distinct, Zenon DEF Turned, t
  <2>2. /\ t.left_shift = d.left_shift /\ t.right_shift = d.right_shift
        /\ t.left_ctrl = d.left_ctrl /\ t.right_ctrl = d.right_ctrl
        /\ t.left_alt = d.left_alt /\ t.right_alt = d.right_alt
    BY <2>1, <1>8, Zenon
  <2>3. TurnsOnly(d, t, k, down)
    BY <1>15, <2>2, Distinct, Zenon DEF TurnsOnly
  <2> QED
    BY <2>3, DownOne, Zenon
<1>16. CASE k \notin AllModifiers \cup {CapsLock}
  <2>1. Turned(d, k, down) = d
    BY <1>16, Zenon DEF Turned, AllModifiers
  <2> QED
    BY <1>16, <2>1, Zenon DEF OnlyTurned, t
<1> QED
  BY <1>9, <1>10, <1>11, <1>12, <1>13, <1>14, <1>15, <1>16, ZenonT(60) DEF AllModifiers

-----------------------------------------------------------------------------
(* The inductive invariant. *)

KeyTypeOK ==
  /\ held \subseteq Keys /\ fresh \subseteq Keys
  /\ wire \in Seq(Byte) /\ queue \in Seq(Byte) /\ decoder \in Decoders
  /\ disturbed \in Nat /\ caps \in BOOLEAN
  /\ meant \in Seq(KeyEvents) /\ typed \in Seq(KeyEvents)

\* Once a key was pressed since the last disturbance no prefix is left pending, and
\* a modifier that was pressed and released since is up for the decoder too.
Tapped ==
  /\ fresh # {} => ~Settled.decoder.extended
  /\ \A m \in Modifiers \cap (fresh \ held) : ~Down(Settled.decoder, m)

KInv == KeyTypeOK /\ KeysAreUnderstood /\ Tapped

LEMMA NewDecoderType ==
  /\ NewDecoder \in Decoders
  /\ NewDecoder = Decoder(FALSE, FALSE, FALSE, FALSE, FALSE, FALSE, FALSE, FALSE)
  BY Zenon DEF Decoders, NewDecoder, Decoder

\* Nothing is down, nothing is under way.
LEMMA KeyStart == KeyInit => KInv
<1> SUFFICES ASSUME KeyInit PROVE KInv
  BY Zenon
<1>0. <<>> \in Seq(Byte) /\ <<>> \in Seq(KeyEvents) /\ 0 \in Nat
  OBVIOUS
<1>1. KeyTypeOK
  BY <1>0, NewDecoderType, Zenon DEF KeyInit, KeyTypeOK
<1>2. queue \o wire = <<>>
  BY JoinsNothing DEF KeyInit, KeyTypeOK
<1>3. Settled.decoder = NewDecoder /\ Settled.events = <<>>
  BY <1>2, ReadNothing, NewDecoderType, NothingType, Zenon DEF Settled, KeyInit
<1>4. InStep = NewDecoder
  <2>1. \A m : (m \in held) = FALSE
    BY DEF KeyInit
  <2> QED
    BY <2>1, NewDecoderType, Zenon DEF KeyInit, InStep, Decoder
<1>5. typed \o Settled.events = meant
  BY <1>0, <1>3, JoinsNothing, Zenon DEF KeyInit
<1>6. Tapped
  BY Zenon DEF Tapped, KeyInit
<1> QED
  BY <1>1, <1>3, <1>4, <1>5, <1>6, Zenon
     DEF KInv, KeysAreUnderstood, DecoderFollowsTheKeys, TypedIsMeant

LEMMA InStepType ==
  ASSUME held \subseteq Keys, caps \in BOOLEAN
  PROVE  InStep \in Decoders
<1> DEFINE ls == LeftShift \in held   rs == RightShift \in held
           lc == LeftCtrl \in held    rc == RightCtrl \in held
           la == LeftAlt \in held     ra == RightAlt \in held
           off == FALSE
<1>1. /\ ls \in BOOLEAN /\ rs \in BOOLEAN /\ lc \in BOOLEAN
      /\ rc \in BOOLEAN /\ la \in BOOLEAN /\ ra \in BOOLEAN /\ off \in BOOLEAN
  OBVIOUS
<1>2. /\ (ls => LeftShift \in Keys) /\ (rs => RightShift \in Keys)
      /\ (lc => LeftCtrl \in Keys) /\ (rc => RightCtrl \in Keys)
      /\ (la => LeftAlt \in Keys) /\ (ra => RightAlt \in Keys)
  BY Zenon
<1>3. InStep = Decoder(off, ls, rs, lc, rc, la, ra, caps)
  BY InStepFlags, Zenon
<1> HIDE DEF ls, rs, lc, rc, la, ra, off
<1> QED
  <2>1. Decoder(off, ls, rs, lc, rc, la, ra, caps) \in Decoders
    BY <1>1, <1>2 DEF Decoder, Decoders
  <2> QED
    BY <1>3, <2>1, ZenonT(60)

LEMMA YieldType ==
  ASSUME NEW d \in Decoders, NEW k \in Keys, NEW down
  PROVE  Yield(d, k, down) \in Seq(KeyEvents)
<1>1. /\ decode_make(d, k[1]) \in KeyEvents
      /\ decode_extended_make(d, k[1]) \in KeyEvents
  BY KeyNames, MakeTypes, Zenon
<1>2. \A e \in KeyEvents : <<e>> \in Seq(KeyEvents)
  OBVIOUS
<1>3. <<>> \in Seq(KeyEvents)
  OBVIOUS
<1> QED
  BY <1>1, <1>2, <1>3, Zenon DEF Yield

LEMMA StaysUp ==
  ASSUME NEW d \in Decoders, NEW m \in AllModifiers, NEW k, NEW down,
         m = k => ~down, m # k => ~Down(d, m)
  PROVE  ~Down(Turned(d, k, down), m)
<1>1. CASE m = k
  <2>1. Down(Turned(d, k, down), m) = down
    BY <1>1, DownTurned
  <2> QED
    BY <1>1, <2>1, Zenon
<1>2. CASE m # k
  <2>1. Down(Turned(d, k, down), m) = Down(d, m)
    BY <1>2, DownTurned
  <2> QED
    BY <1>2, <2>1, Zenon
<1> QED
  BY <1>1, <1>2, Zenon

LEMMA KeySentNow ==
  ASSUME KeyTypeOK, NEW k \in Keys, NEW down \in BOOLEAN,
         wire' = wire \o Scancodes(k, ~down), queue' = queue, decoder' = decoder
  PROVE  Carries(k, down, wire', Settled, Settled')
<1>1. decoder \in Decoders /\ queue \in Seq(Byte) /\ wire \in Seq(Byte)
  BY Zenon DEF KeyTypeOK
<1>2. Stroke(k, down) = Scancodes(k, ~down)
  BY ZenonT(60) DEF Scancodes, Stroke, Last
<1>3. /\ Settled = Read(decoder, queue \o wire)
      /\ Settled' = Read(decoder, queue \o (wire \o Stroke(k, down)))
      /\ wire' = wire \o Stroke(k, down)
  BY <1>2, Zenon DEF Settled
<1>4. Carries(k, down, wire \o Stroke(k, down), Read(decoder, queue \o wire),
              Read(decoder, queue \o (wire \o Stroke(k, down))))
  BY <1>1, KeySent, Zenon
<1> QED
  BY <1>3, <1>4, Zenon

LEMMA EventsJoin ==
  ASSUME NEW x \in Seq(KeyEvents), NEW y \in Seq(KeyEvents), NEW z \in Seq(KeyEvents)
  PROVE  (x \o y) \o z = x \o (y \o z)
  BY JoinsThree

\* A key goes down or up.
LEMMA KeyStroke ==
  ASSUME KInv, NEW k \in Keys, NEW down \in BOOLEAN,
         \A m : (m \in held') = IF m = k THEN down ELSE m \in held,
         caps' = IF k = CapsLock THEN caps # down ELSE caps,
         fresh' = IF down THEN fresh \cup {k} ELSE fresh,
         wire' = wire \o Scancodes(k, ~down),
         meant' = meant \o (IF down THEN Meaning(k) ELSE <<>>),
         UNCHANGED <<queue, decoder, disturbed, typed>>
  PROVE  KInv'
<1> DEFINE s == Settled
           t == Settled'
<1>0. KeyTypeOK /\ KeysAreUnderstood /\ Tapped
  BY Zenon DEF KInv
<1>1. /\ wire' \in Seq(Byte) /\ s \in Outcomes /\ t \in Outcomes /\ ~t.decoder.extended
      /\ ~s.decoder.extended => /\ t.decoder = Turned(s.decoder, k, down)
                                /\ t.events = s.events \o Yield(s.decoder, k, down)
  <2>1. Carries(k, down, wire', Settled, Settled')
    BY <1>0, KeySentNow, Zenon
  <2> QED
    BY <2>1, Zenon DEF Carries
<1>2. s.decoder \in Decoders /\ s.events \in Seq(KeyEvents) /\ t.events \in Seq(KeyEvents)
  BY <1>1, Zenon DEF Outcomes
<1> HIDE DEF s, t
<1>3. InStep' = Turned(InStep, k, down)
  BY InStepTurns, Zenon
<1>4. ASSUME disturbed = 0
      PROVE  s.decoder = InStep /\ ~s.decoder.extended /\ typed \o s.events = meant
  <2>1. s.decoder = InStep /\ typed \o s.events = meant
    BY <1>0, <1>4, Zenon DEF KeysAreUnderstood, DecoderFollowsTheKeys, TypedIsMeant, s
  <2>2. \A x : [extended |-> x, left_shift |-> LeftShift \in held, right_shift |-> RightShift \in held,
                left_ctrl |-> LeftCtrl \in held, right_ctrl |-> RightCtrl \in held,
                left_alt |-> LeftAlt \in held, right_alt |-> RightAlt \in held,
                caps_lock |-> caps].extended = x
    BY Zenon
  <2>3. InStep.extended = FALSE
    BY <2>2, Zenon DEF InStep
  <2> QED
    BY <2>1, <2>3, Zenon
<1>5. (IF down THEN Meaning(k) ELSE <<>>) = Yield(InStep, k, down)
  BY Zenon DEF Meaning, Yield, Modifiers
<1>9. Yield(InStep, k, down) \in Seq(KeyEvents)
  BY <1>0, InStepType, YieldType, Zenon DEF KeyTypeOK
<1>6. KeyTypeOK'
  <2>1. held' \subseteq Keys
    <3>1. \A m : m \in held' => m = k \/ m \in held
      BY Zenon
    <3> QED
      BY <1>0, <3>1, Zenon DEF KeyTypeOK
  <2>2. fresh' \subseteq Keys
    BY <1>0, Zenon DEF KeyTypeOK
  <2>3. caps' \in BOOLEAN
    BY <1>0, Zenon DEF KeyTypeOK
  <2>4. meant' \in Seq(KeyEvents)
    <3>1. (IF down THEN Meaning(k) ELSE <<>>) \in Seq(KeyEvents)
      BY <1>5, <1>9, Zenon
    <3> QED
      BY <1>0, <3>1, Joins, Zenon DEF KeyTypeOK
  <2> QED
    BY <1>0, <1>1, <2>1, <2>2, <2>3, <2>4, Zenon DEF KeyTypeOK
<1>7. ASSUME disturbed' = 0
      PROVE  t.decoder = InStep' /\ typed' \o t.events = meant'
  <2>1. disturbed = 0
    BY <1>7, Zenon
  <2>2. t.decoder = Turned(InStep, k, down) /\ t.events = s.events \o Yield(InStep, k, down)
    BY <1>1, <1>4, <2>1, Zenon
  <2>3. typed \in Seq(KeyEvents)
    BY <1>0, Zenon DEF KeyTypeOK
  <2>5. (typed \o s.events) \o Yield(InStep, k, down)
          = typed \o (s.events \o Yield(InStep, k, down))
    BY <1>2, <1>9, <2>3, EventsJoin, ZenonT(60)
  <2>4. typed \o t.events = (typed \o s.events) \o Yield(InStep, k, down)
    BY <2>2, <2>5, Zenon
  <2> QED
    BY <1>3, <1>4, <1>5, <2>1, <2>2, <2>4, Zenon
<1>8. ASSUME NEW m \in Modifiers \cap (fresh' \ held') PROVE ~Down(t.decoder, m)
  <2>1. m \in AllModifiers /\ m \in Modifiers /\ m \in fresh' /\ m \notin held'
    BY <1>8, Zenon DEF Modifiers
  <2>2. m \in fresh
    BY <2>1, Zenon
  <2>3. t.decoder = Turned(s.decoder, k, down)
    BY <1>0, <1>1, <2>2, Zenon DEF Tapped, s
  <2>5. m = k => ~down
    BY <2>1, Zenon
  <2>6. m # k => m \notin held
    BY <2>1, Zenon
  <2>7. m # k => ~Down(s.decoder, m)
    BY <1>0, <2>1, <2>2, <2>6, Zenon DEF Tapped, s
  <2> QED
    <3>1. ~Down(Turned(s.decoder, k, down), m)
      BY <1>2, <2>1, <2>5, <2>7, StaysUp
    <3> QED
      BY <2>3, <3>1, ZenonT(60)
<1> QED
  BY <1>1, <1>6, <1>7, <1>8, Zenon
     DEF KInv, KeysAreUnderstood, DecoderFollowsTheKeys, TypedIsMeant, Tapped, t

LEMMA PressStep ==
  ASSUME KInv, NEW k \in Keys, Press(k)
  PROVE  KInv'
<1> DEFINE down == TRUE
<1>0. KeyTypeOK /\ held' = held \cup {k}
  BY Zenon DEF Press, KInv
<1>1. \A m : (m \in held') = IF m = k THEN down ELSE m \in held
  <2> SUFFICES ASSUME NEW m PROVE (m \in held') = IF m = k THEN down ELSE m \in held
    BY Zenon
  <2>1. CASE m = k
    <3>1. (m \in held') = TRUE
      BY <1>0, <2>1, Zenon
    <3> QED
      BY <2>1, <3>1, Zenon
  <2>2. CASE m # k
    <3>1. (m \in held') = (m \in held)
      BY <1>0, <2>2
    <3> QED
      BY <2>2, <3>1, Zenon
  <2> QED
    BY <2>1, <2>2, Zenon
<1>2. caps' = IF k = CapsLock THEN caps # down ELSE caps
  BY <1>0, Zenon DEF Press, KeyTypeOK
<1>3. /\ fresh' = IF down THEN fresh \cup {k} ELSE fresh
      /\ UNCHANGED <<queue, decoder, disturbed, typed>>
      /\ down \in BOOLEAN
  BY Zenon DEF Press
<1>4. wire' = wire \o Scancodes(k, ~down)
  BY Zenon DEF Press, Scancodes
<1>5. meant' = meant \o (IF down THEN Meaning(k) ELSE <<>>)
  BY <1>0, JoinsNothing, ZenonT(60) DEF Press, KeyTypeOK
<1> HIDE DEF down
<1> QED
  BY <1>1, <1>2, <1>3, <1>4, <1>5, KeyStroke, ZenonT(60)

LEMMA ReleaseStep ==
  ASSUME KInv, NEW k \in Keys, Release(k)
  PROVE  KInv'
<1> DEFINE down == FALSE
<1>0. KeyTypeOK /\ held' = held \ {k}
  BY Zenon DEF Release, KInv
<1>1. \A m : (m \in held') = IF m = k THEN down ELSE m \in held
  <2> SUFFICES ASSUME NEW m PROVE (m \in held') = IF m = k THEN down ELSE m \in held
    BY Zenon
  <2>1. CASE m = k
    <3>1. (m \in held') = FALSE
      BY <1>0, <2>1
    <3> QED
      BY <2>1, <3>1, Zenon
  <2>2. CASE m # k
    <3>1. (m \in held') = (m \in held)
      BY <1>0, <2>2
    <3> QED
      BY <2>2, <3>1, Zenon
  <2> QED
    BY <2>1, <2>2, Zenon
<1>2. caps' = IF k = CapsLock THEN caps # down ELSE caps
  BY <1>0, Zenon DEF Release, KeyTypeOK
<1>3. /\ fresh' = IF down THEN fresh \cup {k} ELSE fresh
      /\ UNCHANGED <<queue, decoder, disturbed, typed>>
      /\ down \in BOOLEAN
  BY Zenon DEF Release
<1>4. wire' = wire \o Scancodes(k, ~down)
  BY Zenon DEF Release, Scancodes
<1>5. meant' = meant \o (IF down THEN Meaning(k) ELSE <<>>)
  BY <1>0, JoinsNothing, Zenon DEF Release, KeyTypeOK
<1> HIDE DEF down
<1> QED
  BY <1>1, <1>2, <1>3, <1>4, <1>5, KeyStroke, Zenon

\* A byte passes from the wire to the buffer, or is lost.
LEMMA IrqStep ==
  ASSUME KInv, Irq
  PROVE  KInv'
<1>0. KeyTypeOK /\ KeysAreUnderstood /\ Tapped
  BY Zenon DEF KInv
<1>1. /\ wire \in Seq(Byte) /\ queue \in Seq(Byte) /\ disturbed \in Nat /\ wire # <<>>
      /\ wire' = Tail(wire)
      /\ UNCHANGED <<held, decoder, caps, meant, typed>>
  BY <1>0, Zenon DEF KeyTypeOK, Irq
<1>2. wire' \in Seq(Byte)
  BY <1>1, HeadAndTail, Zenon
<1>3. CASE queue' = Append(queue, Head(wire)) /\ UNCHANGED <<disturbed, fresh>>
  <2>1. queue' \in Seq(Byte) /\ queue' \o wire' = queue \o wire
    BY <1>1, <1>3, MovesOne
  <2>2. Settled' = Settled
    BY <1>1, <2>1, Zenon DEF Settled
  <2>3. InStep' = InStep
    BY <1>1, Zenon DEF InStep
  <2> QED
    BY <1>0, <1>1, <1>2, <1>3, <2>1, <2>2, <2>3, ZenonT(60)
       DEF KInv, KeyTypeOK, KeysAreUnderstood, DecoderFollowsTheKeys, TypedIsMeant, Tapped
<1>4. CASE disturbed' = disturbed + 1 /\ fresh' = {} /\ UNCHANGED queue
  <2>1. disturbed' \in Nat /\ disturbed' # 0
    BY <1>1, <1>4
  <2> QED
    BY <1>0, <1>1, <1>2, <1>4, <2>1, ZenonT(60)
       DEF KInv, KeyTypeOK, KeysAreUnderstood, DecoderFollowsTheKeys, TypedIsMeant, Tapped
<1> QED
  BY <1>3, <1>4, Zenon DEF Irq

\* The loop reads a byte.
LEMMA FeedStep ==
  ASSUME KInv, Feed
  PROVE  KInv'
<1> DEFINE out == feed(decoder, Head(queue))
           s == Settled
           t == Settled'
<1>0. KeyTypeOK /\ KeysAreUnderstood /\ Tapped
  BY Zenon DEF KInv
<1>1. /\ wire \in Seq(Byte) /\ queue \in Seq(Byte) /\ decoder \in Decoders /\ queue # <<>>
      /\ typed \in Seq(KeyEvents)
  BY <1>0, Zenon DEF KeyTypeOK, Feed
<1>2. /\ queue' = Tail(queue) /\ decoder' = out.decoder /\ typed' = typed \o out.events
      /\ UNCHANGED <<held, wire, presses, disturbed, caps, meant, fresh>>
  BY Zenon DEF Feed
<1>3. Head(queue) \in Byte /\ Tail(queue) \in Seq(Byte)
  BY <1>1, HeadAndTail, Zenon
<1>4. out \in Outcomes
  BY <1>1, <1>3, FeedType, ZenonT(60)
<1>5. queue \o wire # <<>> /\ Head(queue \o wire) = Head(queue)
      /\ Tail(queue \o wire) = Tail(queue) \o wire
  BY <1>1, TailOfJoin, ZenonT(60)
<1>6. queue \o wire \in Seq(Byte) /\ Tail(queue) \o wire \in Seq(Byte)
  BY <1>1, <1>3, Joins
<1> HIDE DEF out
<1>7. out.decoder \in Decoders /\ out.events \in Seq(KeyEvents)
  BY <1>4, Zenon DEF Outcomes
<1>8. t = Read(out.decoder, Tail(queue) \o wire)
  BY <1>2, Zenon DEF Settled
<1>9. s.decoder = t.decoder /\ s.events = out.events \o t.events
  BY <1>1, <1>5, <1>6, <1>8, ReadFirst, ZenonT(60) DEF Settled, out
<1>10. t \in Outcomes
  BY <1>6, <1>7, <1>8, ReadType, Zenon
<1> HIDE DEF s, t
<1>11. t.events \in Seq(KeyEvents)
  BY <1>10, Zenon DEF Outcomes
<1>12. typed' \in Seq(KeyEvents)
  BY <1>1, <1>2, <1>7, Joins, Zenon
<1>13. typed' \o t.events = typed \o s.events
  <2>1. (typed \o out.events) \o t.events = typed \o (out.events \o t.events)
    BY <1>1, <1>7, <1>11, EventsJoin, Zenon
  <2> QED
    BY <1>2, <1>9, <2>1, Zenon
<1>14. InStep' = InStep
  BY <1>2, Zenon DEF InStep
<1>15. KeyTypeOK'
  BY <1>0, <1>2, <1>3, <1>7, <1>12, ZenonT(60) DEF KeyTypeOK
<1> QED
  BY <1>0, <1>2, <1>9, <1>13, <1>14, <1>15, ZenonT(60)
     DEF KInv, KeysAreUnderstood, DecoderFollowsTheKeys, TypedIsMeant, Tapped, s, t

\* A session ends: a new decoder.
LEMMA RestartStep ==
  ASSUME KInv, Restart
  PROVE  KInv'
<1>1. KeyTypeOK /\ disturbed \in Nat
  BY Zenon DEF KInv, KeyTypeOK
<1>2. disturbed' = disturbed + 1
  BY Zenon DEF Restart
<1>3. disturbed' \in Nat /\ disturbed' # 0
  BY <1>1, <1>2
<1> QED
  BY <1>1, <1>3, NewDecoderType, Zenon
     DEF Restart, KInv, KeyTypeOK, KeysAreUnderstood, DecoderFollowsTheKeys, TypedIsMeant, Tapped

LEMMA KeyStays ==
  ASSUME KInv, UNCHANGED keyVars
  PROVE  KInv'
<1>1. UNCHANGED <<held, wire, queue, decoder, disturbed, caps, meant, typed, fresh>>
  BY Zenon DEF keyVars
<1>2. Settled' = Settled /\ InStep' = InStep
  BY <1>1, Zenon DEF Settled, InStep
<1> QED
  BY <1>1, <1>2, Zenon
     DEF KInv, KeyTypeOK, KeysAreUnderstood, DecoderFollowsTheKeys, TypedIsMeant, Tapped

\* Every press, release, interrupt, feed and new decoder keeps the invariant: what
\* the bytes under way will make of the decoder is what the keyboard knows.
THEOREM KeyInvariance == KeySpec => []KInv
<1>1. KInv /\ [KeyNext]_keyVars => KInv'
  BY PressStep, ReleaseStep, IrqStep, FeedStep, RestartStep, KeyStays, ZenonT(60) DEF KeyNext
<1> QED
  BY <1>1, KeyStart, PTL DEF KeySpec

\* Whatever keys are pressed and released, in whatever order, and however late the
\* interrupt and the input loop get to their bytes: as long as no byte is lost and no
\* session replaces the decoder, KeyboardDecoder::feed has the flags of the modifiers
\* that are down, and yields for each key its event under the modifiers it was
\* pressed with, once and in order.
THEOREM KeysUnderstood == KeySpec => []KeysAreUnderstood
<1>1. KInv => KeysAreUnderstood
  BY Zenon DEF KInv
<1> QED
  BY <1>1, KeyInvariance, PTL

LEMMA AllUp ==
  ASSUME NEW d \in Decoders, ~d.extended, \A m \in Modifiers : ~Down(d, m)
  PROVE  [d EXCEPT !.caps_lock = FALSE] = NewDecoder
<1>1. d \in [extended : BOOLEAN, left_shift : BOOLEAN, right_shift : BOOLEAN,
             left_ctrl : BOOLEAN, right_ctrl : BOOLEAN,
             left_alt : BOOLEAN, right_alt : BOOLEAN, caps_lock : BOOLEAN]
  BY Zenon DEF Decoders
<1>2. /\ ~d.left_shift /\ ~d.right_shift /\ ~d.left_ctrl /\ ~d.right_ctrl
      /\ ~d.left_alt /\ ~d.right_alt
  BY DownFlags, Zenon DEF Decoders, Modifiers, AllModifiers
<1>3. /\ d.extended = FALSE /\ d.left_shift = FALSE /\ d.right_shift = FALSE
      /\ d.left_ctrl = FALSE /\ d.right_ctrl = FALSE
      /\ d.left_alt = FALSE /\ d.right_alt = FALSE
  BY <1>1, <1>2, Zenon
<1>4. ASSUME NEW f, d.extended = f, d.left_shift = f, d.right_shift = f,
             d.left_ctrl = f, d.right_ctrl = f, d.left_alt = f, d.right_alt = f
      PROVE  [d EXCEPT !.caps_lock = f] = Decoder(f, f, f, f, f, f, f, f)
  BY <1>1, <1>4 DEF Decoder
<1> QED
  BY <1>3, <1>4, NewDecoderType, Zenon

\* Lost bytes and new decoders leave modifiers stuck, a prefix pending, a key of a pair
\* taken for the other.  Whatever they left: once every modifier has been pressed and
\* released again, in any order and among any other keys, the decoder is as new but
\* for Caps Lock.
THEOREM TapsClear == KeySpec => []TapsResynchronise
<1>1. KInv => TapsResynchronise
  <2> SUFFICES ASSUME KInv, Modifiers \subseteq fresh \ held
               PROVE  [Settled.decoder EXCEPT !.caps_lock = FALSE] = NewDecoder
    BY Zenon DEF TapsResynchronise
  <2>1. fresh # {} /\ \A m \in Modifiers : m \in Modifiers \cap (fresh \ held)
    BY KeysAssumption, Zenon
  <2>2. ~Settled.decoder.extended /\ \A m \in Modifiers : ~Down(Settled.decoder, m)
    BY <2>1, Zenon DEF KInv, Tapped
  <2>3. Settled \in Outcomes
    <3>1. decoder \in Decoders /\ queue \in Seq(Byte) /\ wire \in Seq(Byte)
      BY Zenon DEF KInv, KeyTypeOK
    <3>2. queue \o wire \in Seq(Byte)
      BY <3>1, Joins, Zenon
    <3> QED
      BY <3>1, <3>2, ReadType, Zenon DEF Settled
  <2>4. Settled.decoder \in Decoders
    BY <2>3, Zenon DEF Outcomes
  <2> QED
    BY <2>2, <2>4, AllUp, Zenon
<1> QED
  BY <1>1, KeyInvariance, PTL
==============================================================================
