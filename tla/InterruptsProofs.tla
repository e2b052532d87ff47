--------------------------- MODULE InterruptsProofs ---------------------------
(***************************************************************************)
(* For every buffer size, scancode set and bound: no handler spins on a    *)
(* lock, no scancode is lost uncounted, the printed counters hide no loss, *)
(* and the keyboard path is a bounded queue.                               *)
(***************************************************************************)
EXTENDS Interrupts, TLAPS

USE SMTT(90)

-----------------------------------------------------------------------------
(* Facts about sequences, the few that are used: every theorem a module      *)
(* imports is a hypothesis of each of its steps.                             *)

LEMMA Cells ==
  ASSUME NEW S, NEW q \in Seq(S)
  PROVE  Len(q) \in Nat /\ q \in [1..Len(q) -> S] /\ DOMAIN q = 1..Len(q)
  OBVIOUS

LEMMA SameCells ==
  ASSUME NEW S, NEW p \in Seq(S), NEW q \in Seq(S),
         Len(p) = Len(q), \A i \in 1..Len(p) : p[i] = q[i]
  PROVE  p = q
  OBVIOUS

LEMMA HeadAndTail ==
  ASSUME NEW S, NEW q \in Seq(S), q # <<>>
  PROVE  /\ Head(q) = q[1] /\ Head(q) \in S /\ Tail(q) \in Seq(S) /\ Len(Tail(q)) = Len(q) - 1
         /\ Len(q) \in Nat \ {0}
         /\ \A i \in 1..Len(Tail(q)) : Tail(q)[i] = q[i + 1]
  OBVIOUS

LEMMA AppendsOne ==
  ASSUME NEW S, NEW q \in Seq(S), NEW e \in S
  PROVE  /\ Append(q, e) \in Seq(S) /\ Append(q, e) # <<>>
         /\ Len(Append(q, e)) = Len(q) + 1
         /\ \A i \in 1..Len(q) : Append(q, e)[i] = q[i]
         /\ Append(q, e)[Len(q) + 1] = e
  OBVIOUS

-----------------------------------------------------------------------------
(* The ring buffer is a bounded queue, for every size and every content. *)

N == SCANCODE_BUFFER_SIZE

Back(x) == IF x < N THEN x ELSE x - N

\* An index one lap ahead at most comes back by one subtraction.
LEMMA Wrap ==
  ASSUME NEW x \in Nat, x < 2 * N
  PROVE  x % N = Back(x)
BY BufferAssumption DEF N, Back

\* push and pop never find anything to repair.
LEMMA RepairIsIdle ==
  ASSUME NEW b \in Buffers
  PROVE  repair(b) = b
BY BufferAssumption DEF Buffers, Slot, repair

\* Where the i-th oldest scancode is, without the modulus.
LEMMA NthSlot ==
  ASSUME NEW b \in Buffers, NEW i \in 1 .. N
  PROVE  /\ Nth(b, i) = Back(b.read_index + i - 1)
         /\ Nth(b, i) \in Slot
<1>1. /\ b.read_index \in Nat /\ b.read_index < N
      /\ i \in Nat /\ 1 <= i /\ i <= N /\ N \in Nat
  BY BufferAssumption DEF N, Buffers, Slot
<1>2. b.read_index + i - 1 \in Nat /\ b.read_index + i - 1 < 2 * N
  BY <1>1
<1>3. Nth(b, i) = Back(b.read_index + i - 1)
  <2>1. (b.read_index + i - 1) % N = Back(b.read_index + i - 1)
    BY <1>2, Wrap, Zenon
  <2> QED
    BY <2>1, Zenon DEF Nth, N
<1> QED
  BY <1>1, <1>3 DEF Slot, N, Back

\* The slot push writes is not one of those that hold the queue.
LEMMA WriteIndexIsNext ==
  ASSUME NEW b, Consistent(b), b.len < N
  PROVE  /\ b.write_index = Nth(b, b.len + 1)
         /\ \A i \in 1 .. b.len : Nth(b, i) # b.write_index
<1>1. /\ b \in Buffers /\ b.len \in Nat /\ b.len + 1 \in 1 .. N
      /\ b.read_index \in Nat /\ N \in Nat
  BY BufferAssumption DEF Consistent, Buffers, N, Slot
<1>2. b.write_index = Nth(b, b.len + 1)
  <2>1. b.read_index + (b.len + 1) - 1 = b.read_index + b.len
    BY <1>1
  <2> QED
    BY <2>1, Zenon DEF Consistent, Nth, N
<1>3. ASSUME NEW i \in 1 .. b.len
      PROVE  Nth(b, i) # b.write_index
  <2>1. i \in 1 .. N
    BY <1>1
  <2> QED
    BY <1>1, <1>2, <2>1, NthSlot DEF Back
<1> QED
  BY <1>2, <1>3, Zenon

\* Following agrees with the modulus of the sum.
LEMMA FollowingSum ==
  ASSUME NEW r \in Slot, NEW n \in 0 .. N - 1
  PROVE  /\ Following((r + n) % N) = (r + (n + 1)) % N
         /\ Following((r + n) % N) \in Slot
         /\ (Following(r) + n) % N = (r + (n + 1)) % N
<1>1. /\ r \in Nat /\ n \in Nat /\ r < N /\ n < N /\ N \in Nat /\ 0 < N
  BY BufferAssumption DEF Slot, N
<1>2. /\ r + n \in Nat /\ r + n < 2 * N
      /\ r + (n + 1) \in Nat /\ r + (n + 1) < 2 * N
      /\ r + 1 \in Nat /\ r + 1 < 2 * N
  BY <1>1
<1>3. (r + n) % N = Back(r + n)
  BY <1>2, Wrap, Zenon
<1>4. (r + (n + 1)) % N = Back(r + (n + 1))
  BY <1>2, Wrap, Zenon
<1>5. Following(r) = Back(r + 1)
  <2>1. (r + 1) % N = Back(r + 1)
    BY <1>2, Wrap, Zenon
  <2> QED
    BY <2>1, Zenon DEF Following, N
<1>6. /\ ((r + n) % N) + 1 \in Nat /\ ((r + n) % N) + 1 < 2 * N
      /\ Following(r) + n \in Nat /\ Following(r) + n < 2 * N
  BY <1>1, <1>3, <1>5 DEF Back
<1>7. (((r + n) % N) + 1) % N
        = Back(((r + n) % N) + 1)
  BY <1>6, Wrap, Zenon
<1>8. (Following(r) + n) % N
        = Back(Following(r) + n)
  BY <1>6, Wrap, Zenon
<1>9. Following((r + n) % N) = (((r + n) % N) + 1) % N
  BY Zenon DEF Following, N
<1>10. Following((r + n) % N) = (r + (n + 1)) % N
  BY <1>1, <1>3, <1>4, <1>7, <1>9 DEF Back
<1>11. (Following(r) + n) % N = (r + (n + 1)) % N
  BY <1>1, <1>4, <1>5, <1>8 DEF Back
<1>12. (r + (n + 1)) % N \in 0 .. N - 1
  BY <1>1, <1>4 DEF Back
<1> QED
  BY <1>10, <1>11, <1>12, Zenon DEF Slot, N

\* What a consistent buffer holds is a sequence of scancodes.
LEMMA ContentsSeq ==
  ASSUME NEW b, Consistent(b)
  PROVE  /\ Contents(b) \in Seq(Scancode)
         /\ Len(Contents(b)) = b.len
         /\ \A i \in 1 .. b.len : Contents(b)[i] = b.entries[Nth(b, i)]
<1>1. b.len \in Nat
  BY BufferAssumption DEF Consistent, Buffers
<1> QED
  BY <1>1 DEF Contents, Consistent

-----------------------------------------------------------------------------
\* push keeps the buffer consistent; it appends the scancode if there is room,
\* and otherwise changes nothing but the count of dropped ones.
THEOREM PushAppends ==
  ASSUME NEW b, Consistent(b), NEW s \in Scancode
  PROVE  /\ Consistent(push(b, s))
         /\ b.len < N => /\ Contents(push(b, s)) = Append(Contents(b), s)
                         /\ push(b, s).len = b.len + 1
                         /\ push(b, s).dropped = b.dropped
         /\ b.len = N => /\ Contents(push(b, s)) = Contents(b)
                         /\ push(b, s).len = b.len
                         /\ push(b, s).dropped = b.dropped + 1
<1> DEFINE c == push(b, s)
<1>0. b \in Buffers /\ c = put(b, s)
  BY RepairIsIdle, Zenon DEF Consistent, push
<1>1. /\ b.len \in Nat /\ b.len <= N /\ N \in Nat /\ b.dropped \in Nat
      /\ b.read_index \in Slot /\ b.write_index \in Slot
  BY <1>0, BufferAssumption DEF Buffers, N, Slot
<1>2. CASE b.len = N
  <2>1. c = [b EXCEPT !.dropped = b.dropped + 1]
    BY <1>0, <1>2, Zenon DEF put, N
  <2>2. /\ c \in Buffers /\ c.len = b.len /\ c.read_index = b.read_index
        /\ c.write_index = b.write_index /\ c.entries = b.entries
        /\ c.dropped = b.dropped + 1
    BY <1>0, <1>1, <2>1 DEF Buffers
  <2> HIDE DEF c
  <2>3. Consistent(c) /\ Contents(c) = Contents(b)
    BY <2>2, Zenon DEF Consistent, Contents, Nth
  <2> QED
    BY <1>1, <1>2, <2>2, <2>3 DEF c
<1>3. CASE b.len < N
  <2>1. c = [b EXCEPT !.entries = [b.entries EXCEPT ![b.write_index] = s],
                      !.write_index = Following(b.write_index),
                      !.len = b.len + 1]
    BY <1>0, <1>1, <1>3 DEF put, N
  <2>2. b.write_index = (b.read_index + b.len) % N
    BY Zenon DEF Consistent, N
  <2>3. /\ Following(b.write_index) = (b.read_index + (b.len + 1)) % N
        /\ Following(b.write_index) \in Slot
    <3>1. b.len \in 0 .. N - 1
      BY <1>1, <1>3
    <3> QED
      BY <1>1, <2>2, <3>1, FollowingSum
  <2>4. /\ c \in Buffers /\ c.len = b.len + 1 /\ c.read_index = b.read_index
        /\ c.write_index = Following(b.write_index)
        /\ c.entries = [b.entries EXCEPT ![b.write_index] = s]
        /\ c.dropped = b.dropped
    <3> HIDE DEF c
    <3>1. [b.entries EXCEPT ![b.write_index] = s]
            \in [Slot -> Scancode \cup {NoScancode}]
      BY <1>0, <1>1, Zenon DEF Buffers
    <3>2. b.len + 1 \in 0 .. SCANCODE_BUFFER_SIZE
      BY <1>1, <1>3 DEF N
    <3> QED
      BY <1>0, <1>1, <2>1, <2>3, <3>1, <3>2, Zenon DEF Buffers
  <2> HIDE DEF c
  <2>5. \A i \in 1 .. c.len : Nth(c, i) = Nth(b, i)
    BY <2>4, Zenon DEF Nth
  <2>6. \A i \in 1 .. b.len : /\ Nth(b, i) \in Slot
                              /\ c.entries[Nth(b, i)] = b.entries[Nth(b, i)]
    <3>1. TAKE i \in 1 .. b.len
    <3>2. i \in 1 .. N
      BY <1>1
    <3>3. Nth(b, i) \in Slot /\ Nth(b, i) # b.write_index
      BY <1>0, <1>3, <3>2, NthSlot, WriteIndexIsNext, Zenon
    <3> QED
      BY <1>0, <2>4, <3>3, Zenon DEF Buffers
  <2>7. c.entries[Nth(b, b.len + 1)] = s
    <3>1. Nth(b, b.len + 1) = b.write_index
      BY <1>3, WriteIndexIsNext, Zenon
    <3> QED
      BY <1>0, <1>1, <2>4, <3>1 DEF Buffers
  <2>8. \A i \in 1 .. c.len : i \in 1 .. b.len \/ i = b.len + 1
    BY <1>1, <2>4
  <2>9. Consistent(c)
    <3>1. \A i \in 1 .. c.len : c.entries[Nth(c, i)] \in Scancode
      BY <2>5, <2>6, <2>7, <2>8, Zenon DEF Consistent
    <3> QED
      BY <2>3, <2>4, <3>1, Zenon DEF Consistent, N
  <2>10. Contents(c) = Append(Contents(b), s)
    <3> DEFINE t == Append(Contents(b), s)
    <3>1. /\ t \in Seq(Scancode) /\ Len(t) = b.len + 1
          /\ \A i \in 1 .. b.len : t[i] = b.entries[Nth(b, i)]
          /\ t[b.len + 1] = s
      BY ContentsSeq, AppendsOne
    <3> HIDE DEF t
    <3>2. /\ Contents(c) \in Seq(Scancode) /\ Len(Contents(c)) = b.len + 1
          /\ \A i \in 1 .. c.len : Contents(c)[i] = c.entries[Nth(c, i)]
      BY <2>4, <2>9, ContentsSeq, Zenon
    <3>3. \A i \in 1 .. c.len : Contents(c)[i] = t[i]
      BY <2>5, <2>6, <2>7, <2>8, <3>1, <3>2, Zenon
    <3>4. Contents(c) = t
      BY <2>4, <3>1, <3>2, <3>3, SameCells
    <3> QED
      BY <3>4, Zenon DEF t
  <2> QED
    BY <1>1, <1>3, <2>4, <2>9, <2>10 DEF c
<1> QED
  BY <1>1, <1>2, <1>3

\* pop keeps the buffer consistent; it returns and removes the oldest scancode,
\* or returns NoScancode and changes nothing when there is none.
THEOREM PopTakesOldest ==
  ASSUME NEW b, Consistent(b)
  PROVE  /\ Consistent(pop(b).rest)
         /\ pop(b).rest.dropped = b.dropped
         /\ b.len = 0 => pop(b).rest = b /\ pop(b).value = NoScancode
         /\ b.len > 0 => /\ pop(b).value = Head(Contents(b))
                         /\ pop(b).value \in Scancode
                         /\ Contents(pop(b).rest) = Tail(Contents(b))
                         /\ pop(b).rest.len = b.len - 1
<1>0. b \in Buffers /\ pop(b) = take(b)
  BY RepairIsIdle, Zenon DEF Consistent, pop
<1>1. /\ b.len \in Nat /\ b.len <= N /\ N \in Nat /\ b.dropped \in Nat
      /\ b.read_index \in Slot
  BY <1>0, BufferAssumption DEF Buffers, N, Slot
<1>2. CASE b.len = 0
  BY <1>0, <1>1, <1>2 DEF take
<1>3. CASE b.len > 0
  <2> DEFINE c == pop(b).rest
  <2>1. /\ c = [b EXCEPT !.read_index = Following(b.read_index),
                         !.len = b.len - 1]
        /\ pop(b).value = b.entries[b.read_index]
    BY <1>0, <1>1, <1>3 DEF take
  <2>2. b.len - 1 \in 0 .. N - 1
    BY <1>1, <1>3
  <2>3. Following(b.read_index) \in Slot
    <3>1. 0 \in 0 .. N - 1 /\ b.read_index + 0 = b.read_index
      BY <1>1, <1>3 DEF Slot
    <3>2. b.read_index % N = b.read_index
      BY <1>1, BufferAssumption DEF Slot, N
    <3> QED
      BY <1>1, <3>1, <3>2, FollowingSum, Zenon
  <2>4. /\ c \in Buffers /\ c.len = b.len - 1 /\ c.entries = b.entries
        /\ c.read_index = Following(b.read_index)
        /\ c.write_index = b.write_index /\ c.dropped = b.dropped
    <3> HIDE DEF c
    <3>1. b.len - 1 \in 0 .. SCANCODE_BUFFER_SIZE
      BY <1>1, <1>3 DEF N
    <3> QED
      BY <1>0, <2>1, <2>3, <3>1, Zenon DEF Buffers
  <2> HIDE DEF c
  <2>5. (Following(b.read_index) + (b.len - 1)) % N = (b.read_index + b.len) % N
    <3>1. (b.len - 1) + 1 = b.len
      BY <1>1
    <3> QED
      BY <1>1, <2>2, <3>1, FollowingSum
  <2>6. ASSUME NEW i \in 1 .. c.len
        PROVE  Nth(c, i) = Nth(b, i + 1) /\ i + 1 \in 1 .. b.len
    <3>1. /\ i - 1 \in 0 .. N - 1 /\ i + 1 \in 1 .. b.len
          /\ (i - 1) + 1 = (i + 1) - 1
      BY <1>1, <2>4
    <3>2. (Following(b.read_index) + (i - 1)) % N
            = (b.read_index + ((i + 1) - 1)) % N
      BY <1>1, <3>1, FollowingSum, Zenon
    <3>3. /\ Following(b.read_index) + (i - 1) = Following(b.read_index) + i - 1
          /\ b.read_index + ((i + 1) - 1) = b.read_index + (i + 1) - 1
      BY <1>1, <2>3, Zenon DEF Slot
    <3> QED
      BY <2>4, <3>1, <3>2, <3>3, Zenon DEF Nth, N
  <2>7. Consistent(c)
    BY <2>4, <2>5, <2>6, Zenon DEF Consistent, N
  <2>8. Nth(b, 1) = b.read_index
    BY <1>1, BufferAssumption DEF Nth, Slot, N
  <2>9. /\ Contents(b) \in Seq(Scancode) /\ Len(Contents(b)) = b.len
        /\ \A i \in 1 .. b.len : Contents(b)[i] = b.entries[Nth(b, i)]
    BY ContentsSeq, Zenon
  <2>10. 1 \in 1 .. b.len
    BY <1>1, <1>3
  <2>11. pop(b).value = Head(Contents(b)) /\ pop(b).value \in Scancode
    BY <2>1, <2>8, <2>9, <2>10 DEF Consistent
  <2>12. Contents(c) = Tail(Contents(b))
    <3> DEFINE t == Tail(Contents(b))
    <3>1. Contents(b) # <<>>
      BY <1>3, <2>9
    <3>2. /\ t \in Seq(Scancode) /\ Len(t) = b.len - 1
          /\ \A i \in 1 .. b.len - 1 : t[i] = Contents(b)[i + 1]
      BY <2>9, <3>1, HeadAndTail
    <3> HIDE DEF t
    <3>3. /\ Contents(c) \in Seq(Scancode) /\ Len(Contents(c)) = b.len - 1
          /\ \A i \in 1 .. c.len : Contents(c)[i] = c.entries[Nth(c, i)]
      BY <2>4, <2>7, ContentsSeq, Zenon
    <3>4. \A i \in 1 .. c.len : Contents(c)[i] = t[i]
      BY <2>4, <2>6, <2>9, <3>2, <3>3, Zenon
    <3>5. Contents(c) = t
      BY <2>4, <3>2, <3>3, <3>4, SameCells
    <3> QED
      BY <3>5, Zenon DEF t
  <2> QED
    BY <1>1, <1>3, <2>4, <2>7, <2>11, <2>12 DEF c
<1> QED
  BY <1>1, <1>2, <1>3

-----------------------------------------------------------------------------
(* The keyboard interrupt and the input loop. *)

\* Which steps run with interrupts disabled.
Masked == {"boot", "lock", "use", "enable"}

\* Interrupts are enabled exactly when the thread runs outside the masked
\* steps; a handler runs only there.  So each lock has the owner its step says.
Locking ==
  /\ handler # "none" => pc \notin Masked
  /\ rflags_if <=> (handler = "none" /\ pc \notin Masked)
  /\ buffer_lock = CASE pc = "use"                    -> "thread"
                     [] pc # "use" /\ hpc = "push"    -> "handler"
                     [] OTHER                         -> "free"
  /\ pics_lock = IF hpc = "eoi" THEN "handler" ELSE "free"

\* A handler is at one of its own steps and has its scancode when it needs it.
Handling ==
  /\ handler = "none" <=> hpc = "none"
  /\ handler = "Timer" => hpc \in {"tick", "lock_pics", "eoi", "iretq"}
  /\ handler = "Keyboard" => hpc # "tick"
  /\ hpc \in {"lock_buffer", "push"} => byte \in Scancode

\* One interrupt is requested for each byte offered, until its handler reads it.
Requests ==
  /\ "Keyboard" \in irr => ps2 # <<>> /\ hpc # "read_port"
  /\ hpc = "read_port" => ps2 # <<>>
  /\ OfferedIsRequested
  /\ sent = KEYBOARD_IRQS + Len(ps2)

Counting ==
  /\ ScancodesConserved
  /\ count <= KEYBOARD_IRQS
  /\ LossIsNotHidden

\* Neither the locking discipline nor the bookkeeping is inductive alone.
IInv == TypeOK /\ Locking /\ Handling /\ Requests /\ Counting

-----------------------------------------------------------------------------
\* ScancodeBuffer::new is an empty queue.
LEMMA NewIsConsistent == Consistent(new) /\ Contents(new) = <<>>
<1>1. /\ 0 \in Slot /\ 0 \in 0 .. SCANCODE_BUFFER_SIZE
      /\ (0 + 0) % SCANCODE_BUFFER_SIZE = 0
  BY BufferAssumption DEF Slot
<1>2. new \in Buffers /\ new.len = 0 /\ new.read_index = 0 /\ new.write_index = 0
  BY <1>1, Zenon DEF new, Buffers
<1> QED
  BY <1>1, <1>2 DEF Consistent, Contents

\* Before interrupts::init.
LEMMA InitIInv == Init => IInv
<1> SUFFICES ASSUME Init PROVE IInv
  BY Zenon
<1>1. TypeOK
  <2>1. ps2 \in Seq(Scancode) /\ Len(ps2) <= PS2_QUEUE
    BY InterruptsAssumption DEF Init
  <2>2. printed \in [count : Nat, dropped : Nat]
    BY Zenon DEF Init
  <2>3. /\ TICKS \in 0 .. U64_MAX
        /\ KEYBOARD_IRQS \in 0 .. KeyHorizon /\ sent \in 0 .. KeyHorizon
    BY InterruptsAssumption DEF Init
  <2>4. Consistent(SCANCODE_BUFFER)
    BY NewIsConsistent, Zenon DEF Init
  <2> QED
    BY <2>1, <2>2, <2>3, <2>4, Zenon DEF Init, TypeOK
<1>2. Locking /\ Handling
  BY Zenon DEF Init, Locking, Handling, Masked
<1>3. Requests
  BY DEF Init, Requests, OfferedIsRequested, At
<1>4. Counting
  BY DEF Init, Counting, ScancodesConserved, LossIsNotHidden, new
<1> QED
  BY <1>1, <1>2, <1>3, <1>4, Zenon DEF IInv

\* What every proof below knows of the buffer.
LEMMA LengthsAreNaturals ==
  ASSUME NEW b, Consistent(b)
  PROVE  b.len \in Nat /\ b.dropped \in Nat
BY BufferAssumption DEF Consistent, Buffers

\* Steps that leave the counts alone.
LEMMA SameCounts ==
  ASSUME Counting,
         UNCHANGED <<SCANCODE_BUFFER, KEYBOARD_IRQS, taken, count, printed>>,
         hpc \in {"lock_buffer", "push"} <=> hpc' \in {"lock_buffer", "push"}
  PROVE  Counting'
BY Zenon DEF Counting, ScancodesConserved, LossIsNotHidden

\* Requests reads the interrupt controller, the keyboard and one counter.
LEMMA SameRequests ==
  ASSUME Requests, UNCHANGED <<irr, ps2, sent, KEYBOARD_IRQS>>,
         hpc = "read_port" <=> hpc' = "read_port", Handling, Handling'
  PROVE  Requests'
BY Zenon DEF Requests, OfferedIsRequested, At, Handling

(* The tuples that group the variables, and the two guards, are abbreviations. *)
USE DEF At, Thread, buffer, clock, pic, kbd, irq, stats, others

\* interrupts::init unmasks both lines and enables interrupts.
LEMMA BootIInv ==
  ASSUME IInv, init
  PROVE  IInv'
<1>1. TypeOK'
  BY DEF IInv, TypeOK, init
<1>2. Locking' /\ Handling'
  BY Zenon DEF IInv, TypeOK, Locking, Handling, Masked, init
<1>3. Requests'
  BY <1>2, SameRequests, Zenon DEF IInv, Handling, init
<1>4. Counting'
  BY SameCounts, Zenon DEF IInv, Handling, init
<1> QED
  BY <1>1, <1>2, <1>3, <1>4, Zenon DEF IInv

\* The timer requests an interrupt.
LEMMA PitTickIInv ==
  ASSUME IInv, PitTick
  PROVE  IInv'
<1>1. TypeOK'
  BY DEF IInv, TypeOK, PitTick
<1>2. Locking' /\ Handling'
  BY Zenon DEF IInv, TypeOK, Locking, Handling, Masked, PitTick
<1>3. Requests'
  BY <1>2, Zenon DEF IInv, Requests, OfferedIsRequested, PitTick
<1>4. Counting'
  BY SameCounts, Zenon DEF IInv, Handling, PitTick
<1> QED
  BY <1>1, <1>2, <1>3, <1>4, Zenon DEF IInv

\* The keyboard requests one interrupt per byte it offers.
LEMMA KeyByteIInv ==
  ASSUME IInv, NEW s \in Scancode, KeyByte(s)
  PROVE  IInv'
<1>1. TypeOK'
  <2>1. ps2' \in Seq(Scancode) /\ Len(ps2') = Len(ps2) + 1 /\ Len(ps2) \in Nat
    BY AppendsOne DEF IInv, TypeOK, KeyByte
  <2>2. Len(ps2') <= PS2_QUEUE /\ sent' \in 0 .. KeyHorizon
    BY <2>1, InterruptsAssumption DEF IInv, TypeOK, KeyByte
  <2> QED
    BY <2>1, <2>2 DEF IInv, TypeOK, KeyByte
<1>2. Locking' /\ Handling'
  BY Zenon DEF IInv, TypeOK, Locking, Handling, Masked, KeyByte
<1>3. Requests'
  <2>1. ps2' # <<>> /\ Len(ps2') = Len(ps2) + 1 /\ Len(ps2) \in Nat
    BY AppendsOne DEF IInv, TypeOK, KeyByte
  <2> QED
    BY <2>1 DEF IInv, TypeOK, Requests, OfferedIsRequested, Handling, KeyByte
<1>4. Counting'
  BY SameCounts, Zenon DEF IInv, Handling, KeyByte
<1> QED
  BY <1>1, <1>2, <1>3, <1>4, Zenon DEF IInv

\* An interrupt is taken only outside the masked steps.
LEMMA TakeInterruptIInv ==
  ASSUME IInv, NEW i \in {"Timer", "Keyboard"}, TakeInterrupt(i)
  PROVE  IInv'
<1>1. TypeOK'
  BY Zenon DEF IInv, TypeOK, TakeInterrupt
<1>2. Locking' /\ Handling'
  BY Zenon DEF IInv, TypeOK, Locking, Handling, Masked, TakeInterrupt
<1>3. Requests'
  BY Zenon DEF IInv, Requests, OfferedIsRequested, Handling, TakeInterrupt, Deliverable
<1>4. Counting'
  BY SameCounts, Zenon DEF IInv, Handling, TakeInterrupt
<1> QED
  BY <1>1, <1>2, <1>3, <1>4, Zenon DEF IInv

\* The timer handler counts a tick.
LEMMA FetchAddIInv ==
  ASSUME IInv, timer_fetch_add
  PROVE  IInv'
<1>1. TypeOK'
  <2>1. TICKS' \in 0 .. U64_MAX
    BY InterruptsAssumption DEF IInv, TypeOK, timer_fetch_add
  <2> QED
    BY <2>1 DEF IInv, TypeOK, timer_fetch_add
<1>2. Locking' /\ Handling'
  BY Zenon DEF IInv, TypeOK, Locking, Handling, Masked, timer_fetch_add
<1>3. Requests'
  BY <1>2, SameRequests, Zenon DEF IInv, Handling, timer_fetch_add
<1>4. Counting'
  BY SameCounts, Zenon DEF IInv, Handling, timer_fetch_add
<1> QED
  BY <1>1, <1>2, <1>3, <1>4, Zenon DEF IInv

\* Reading port 0x60 takes one byte in hand and offers the next.
LEMMA ReadPortIInv ==
  ASSUME IInv, keyboard_read_port
  PROVE  IInv'
<1>1. TypeOK'
  <2>1. /\ ps2' \in Seq(Scancode) /\ Len(ps2') = Len(ps2) - 1 /\ byte' \in Scancode
        /\ Len(ps2) \in Nat /\ Len(ps2') \in Nat
    BY HeadAndTail, Cells, Zenon
    DEF IInv, TypeOK, Requests, keyboard_read_port
  <2>2. Len(ps2') <= PS2_QUEUE
    BY <2>1, InterruptsAssumption DEF IInv, TypeOK
  <2>3. KEYBOARD_IRQS' \in 0 .. KeyHorizon
    BY <2>1, InterruptsAssumption DEF IInv, TypeOK, Requests, keyboard_read_port
  <2> QED
    BY <2>1, <2>2, <2>3 DEF IInv, TypeOK, keyboard_read_port
<1>2. Locking' /\ Handling'
  <2>1. byte' \in Scancode
    BY HeadAndTail, Zenon DEF IInv, TypeOK, Requests, keyboard_read_port
  <2> QED
    BY <2>1, Zenon DEF IInv, TypeOK, Locking, Handling, Masked, keyboard_read_port
<1>3. Requests'
  <2>1. Len(ps2') = Len(ps2) - 1 /\ Len(ps2) \in Nat
    BY HeadAndTail, Cells, Zenon
    DEF IInv, TypeOK, Requests, keyboard_read_port
  <2>2. sent' = KEYBOARD_IRQS' + Len(ps2')
    <3>1. /\ KEYBOARD_IRQS \in Nat /\ KEYBOARD_IRQS' = KEYBOARD_IRQS + 1
          /\ sent' = sent /\ sent = KEYBOARD_IRQS + Len(ps2)
      BY DEF IInv, TypeOK, Requests, keyboard_read_port
    <3> QED
      BY <2>1, <3>1
  <2> QED
    BY <2>2, Zenon DEF IInv, Requests, OfferedIsRequested, keyboard_read_port
<1>4. Counting'
  <2>1. SCANCODE_BUFFER.len \in Nat /\ SCANCODE_BUFFER.dropped \in Nat
    BY LengthsAreNaturals, Zenon DEF IInv, TypeOK
  <2> QED
    BY <2>1 DEF IInv, TypeOK, Counting, ScancodesConserved, LossIsNotHidden,
                keyboard_read_port
<1> QED
  BY <1>1, <1>2, <1>3, <1>4, Zenon DEF IInv

\* The handler takes the buffer lock, free by Locking.
LEMMA LockBufferIInv ==
  ASSUME IInv, keyboard_lock_buffer
  PROVE  IInv'
<1>1. TypeOK'
  BY DEF IInv, TypeOK, keyboard_lock_buffer
<1>2. Locking' /\ Handling'
  BY Zenon DEF IInv, TypeOK, Locking, Handling, Masked, keyboard_lock_buffer
<1>3. Requests'
  BY <1>2, SameRequests, Zenon DEF IInv, Handling, keyboard_lock_buffer
<1>4. Counting'
  BY SameCounts, Zenon DEF IInv, Handling, keyboard_lock_buffer
<1> QED
  BY <1>1, <1>2, <1>3, <1>4, Zenon DEF IInv

\* The scancode in hand is queued or counted as dropped.
LEMMA PushIInv ==
  ASSUME IInv, keyboard_push
  PROVE  IInv'
<1>1. TypeOK'
  <2>1. Consistent(SCANCODE_BUFFER')
    BY PushAppends, Zenon DEF IInv, TypeOK, Handling, keyboard_push
  <2> QED
    BY <2>1 DEF IInv, TypeOK, keyboard_push
<1>2. Locking' /\ Handling'
  BY Zenon DEF IInv, TypeOK, Locking, Handling, Masked, keyboard_push
<1>3. Requests'
  BY <1>2, SameRequests, Zenon DEF IInv, Handling, keyboard_push
<1>4. Counting'
  <2>1. /\ SCANCODE_BUFFER.len \in Nat /\ SCANCODE_BUFFER.dropped \in Nat
        /\ SCANCODE_BUFFER.len <= N /\ N \in Nat
    BY BufferAssumption DEF IInv, TypeOK, Consistent, Buffers, N
  <2>2. \/ /\ SCANCODE_BUFFER'.len = SCANCODE_BUFFER.len + 1
           /\ SCANCODE_BUFFER'.dropped = SCANCODE_BUFFER.dropped
        \/ /\ SCANCODE_BUFFER'.len = SCANCODE_BUFFER.len
           /\ SCANCODE_BUFFER'.dropped = SCANCODE_BUFFER.dropped + 1
    <3>1. /\ Consistent(SCANCODE_BUFFER) /\ byte \in Scancode
          /\ SCANCODE_BUFFER' = push(SCANCODE_BUFFER, byte)
      BY Zenon DEF IInv, TypeOK, Handling, keyboard_push
    <3> QED
      BY <2>1, <3>1, PushAppends
  <2>3. /\ KEYBOARD_IRQS \in Nat /\ taken \in Nat /\ count <= KEYBOARD_IRQS
        /\ printed.count \in Nat /\ printed.dropped \in Nat
        /\ KEYBOARD_IRQS = taken + SCANCODE_BUFFER.len + SCANCODE_BUFFER.dropped + 1
        /\ printed.count <= taken + SCANCODE_BUFFER.len + printed.dropped
        /\ UNCHANGED <<KEYBOARD_IRQS, taken, count, printed>> /\ hpc' = "lock_pics"
    BY DEF IInv, TypeOK, Counting, ScancodesConserved, LossIsNotHidden,
           keyboard_push
  <2>4. /\ KEYBOARD_IRQS
             = taken + SCANCODE_BUFFER'.len + SCANCODE_BUFFER'.dropped + 0
        /\ printed.count <= taken + SCANCODE_BUFFER'.len + printed.dropped
    BY <2>1, <2>2, <2>3
  <2> QED
    BY <2>3, <2>4, Zenon DEF Counting, ScancodesConserved, LossIsNotHidden
<1> QED
  BY <1>1, <1>2, <1>3, <1>4, Zenon DEF IInv

\* The handler takes the PICS lock.
LEMMA LockPicsIInv ==
  ASSUME IInv, lock_pics
  PROVE  IInv'
<1>1. TypeOK'
  BY DEF IInv, TypeOK, lock_pics
<1>2. Locking' /\ Handling'
  BY Zenon DEF IInv, TypeOK, Locking, Handling, Masked, lock_pics
<1>3. Requests'
  BY <1>2, SameRequests, Zenon DEF IInv, Handling, lock_pics
<1>4. Counting'
  BY SameCounts, Zenon DEF IInv, Handling, lock_pics
<1> QED
  BY <1>1, <1>2, <1>3, <1>4, Zenon DEF IInv

\* End of interrupt, and the PICS lock is free again.
LEMMA EoiIInv ==
  ASSUME IInv, notify_end_of_interrupt
  PROVE  IInv'
<1>1. TypeOK'
  BY DEF IInv, TypeOK, notify_end_of_interrupt
<1>2. Locking' /\ Handling'
  BY Zenon DEF IInv, TypeOK, Locking, Handling, Masked, notify_end_of_interrupt
<1>3. Requests'
  BY <1>2, SameRequests, Zenon DEF IInv, Handling, notify_end_of_interrupt
<1>4. Counting'
  BY SameCounts, Zenon DEF IInv, Handling, notify_end_of_interrupt
<1> QED
  BY <1>1, <1>2, <1>3, <1>4, Zenon DEF IInv

\* The handler returns and interrupts are enabled again.
LEMMA IretqIInv ==
  ASSUME IInv, iretq
  PROVE  IInv'
<1>1. TypeOK'
  BY DEF IInv, TypeOK, iretq
<1>2. Locking' /\ Handling'
  BY Zenon DEF IInv, TypeOK, Locking, Handling, Masked, iretq
<1>3. Requests'
  BY <1>2, SameRequests, Zenon DEF IInv, Handling, iretq
<1>4. Counting'
  BY SameCounts, Zenon DEF IInv, Handling, iretq
<1> QED
  BY <1>1, <1>2, <1>3, <1>4, Zenon DEF IInv

\* The thread masks interrupts before it locks.
LEMMA DisableIInv ==
  ASSUME IInv, NEW o \in {"pop", "counters"}, disable(o)
  PROVE  IInv'
<1>1. TypeOK'
  BY ZenonT(60) DEF IInv, TypeOK, disable
<1>2. Locking' /\ Handling'
  BY Zenon DEF IInv, TypeOK, Locking, Handling, Masked, disable
<1>3. Requests'
  BY <1>2, SameRequests, Zenon DEF IInv, Handling, disable
<1>4. Counting'
  BY SameCounts, Zenon DEF IInv, Handling, disable
<1> QED
  BY <1>1, <1>2, <1>3, <1>4, Zenon DEF IInv

\* No handler holds the lock while interrupts are masked.
LEMMA LockIInv ==
  ASSUME IInv, lock
  PROVE  IInv'
<1>1. TypeOK'
  BY DEF IInv, TypeOK, lock
<1>2. Locking' /\ Handling'
  BY Zenon DEF IInv, TypeOK, Locking, Handling, Masked, lock
<1>3. Requests'
  BY <1>2, SameRequests, Zenon DEF IInv, Handling, lock
<1>4. Counting'
  BY SameCounts, Zenon DEF IInv, Handling, lock
<1> QED
  BY <1>1, <1>2, <1>3, <1>4, Zenon DEF IInv

\* What leaves the buffer is counted as taken.
LEMMA PopIInv ==
  ASSUME IInv, pop_scancode
  PROVE  IInv'
<1>1. TypeOK'
  <2>1. Consistent(SCANCODE_BUFFER') /\ got' \in Scancode \cup {NoScancode}
    BY PopTakesOldest, LengthsAreNaturals DEF IInv, TypeOK, pop_scancode
  <2> QED
    BY <2>1 DEF IInv, TypeOK, pop_scancode
<1>2. Locking' /\ Handling'
  BY Zenon DEF IInv, TypeOK, Locking, Handling, Masked, pop_scancode
<1>3. Requests'
  BY <1>2, SameRequests, Zenon DEF IInv, Handling, pop_scancode
<1>4. Counting'
  <2>1. SCANCODE_BUFFER.len \in Nat /\ SCANCODE_BUFFER.dropped \in Nat
    BY LengthsAreNaturals, Zenon DEF IInv, TypeOK
  <2>2. /\ SCANCODE_BUFFER'.dropped = SCANCODE_BUFFER.dropped
        /\ taken' + SCANCODE_BUFFER'.len = taken + SCANCODE_BUFFER.len
    <3>1. CASE SCANCODE_BUFFER.len = 0
      BY <3>1, PopTakesOldest, Zenon DEF IInv, TypeOK, pop_scancode
    <3>2. CASE SCANCODE_BUFFER.len > 0
      <4>1. /\ SCANCODE_BUFFER'.dropped = SCANCODE_BUFFER.dropped
            /\ SCANCODE_BUFFER'.len = SCANCODE_BUFFER.len - 1
            /\ pop(SCANCODE_BUFFER).value # NoScancode
        BY <3>2, PopTakesOldest, BufferAssumption DEF IInv, TypeOK, pop_scancode
      <4>2. taken' = taken + 1 /\ taken \in Nat
        BY <4>1, Zenon DEF IInv, TypeOK, pop_scancode
      <4> QED
        BY <2>1, <4>1, <4>2
    <3> QED
      BY <2>1, <3>1, <3>2
  <2> QED
    BY <2>1, <2>2, <1>1, LengthsAreNaturals, Zenon
    DEF IInv, TypeOK, Counting, ScancodesConserved, LossIsNotHidden,
        pop_scancode
<1> QED
  BY <1>1, <1>2, <1>3, <1>4, Zenon DEF IInv

\* The drop count is loaded after the interrupt count.
LEMMA ReadDroppedIInv ==
  ASSUME IInv, read_dropped
  PROVE  IInv'
<1>1. TypeOK'
  <2>1. SCANCODE_BUFFER.dropped \in Nat
    BY LengthsAreNaturals, Zenon DEF IInv, TypeOK
  <2> QED
    BY <2>1 DEF IInv, TypeOK, read_dropped
<1>2. Locking' /\ Handling'
  BY Zenon DEF IInv, TypeOK, Locking, Handling, Masked, read_dropped
<1>3. Requests'
  BY <1>2, SameRequests, Zenon DEF IInv, Handling, read_dropped
<1>4. Counting'
  <2>1. SCANCODE_BUFFER.len \in Nat /\ SCANCODE_BUFFER.dropped \in Nat
    BY LengthsAreNaturals, Zenon DEF IInv, TypeOK
  <2>2. hpc = "none"
    BY Zenon DEF IInv, Handling, read_dropped
  <2> QED
    BY <2>1, <2>2 DEF IInv, TypeOK, Counting, ScancodesConserved, LossIsNotHidden,
                      read_dropped
<1> QED
  BY <1>1, <1>2, <1>3, <1>4, Zenon DEF IInv

\* The lock is free when interrupts are enabled again.
LEMMA EnableIInv ==
  ASSUME IInv, enable
  PROVE  IInv'
<1>1. TypeOK'
  BY DEF IInv, TypeOK, enable
<1>2. Locking' /\ Handling'
  BY Zenon DEF IInv, TypeOK, Locking, Handling, Masked, enable
<1>3. Requests'
  BY <1>2, SameRequests, Zenon DEF IInv, Handling, enable
<1>4. Counting'
  BY SameCounts, Zenon DEF IInv, Handling, enable
<1> QED
  BY <1>1, <1>2, <1>3, <1>4, Zenon DEF IInv

\* Handling an event touches none of this.
LEMMA HandleIInv ==
  ASSUME IInv, handle_key_event
  PROVE  IInv'
<1>1. TypeOK'
  BY DEF IInv, TypeOK, handle_key_event
<1>2. Locking' /\ Handling'
  BY Zenon DEF IInv, TypeOK, Locking, Handling, Masked, handle_key_event
<1>3. Requests'
  BY <1>2, SameRequests, Zenon DEF IInv, Handling, handle_key_event
<1>4. Counting'
  BY SameCounts, Zenon DEF IInv, Handling, handle_key_event
<1> QED
  BY <1>1, <1>2, <1>3, <1>4, Zenon DEF IInv

\* The interrupt count only grows after it is loaded.
LEMMA LoadIrqsIInv ==
  ASSUME IInv, load_irqs
  PROVE  IInv'
<1>1. TypeOK'
  BY DEF IInv, TypeOK, load_irqs
<1>2. Locking' /\ Handling'
  BY Zenon DEF IInv, TypeOK, Locking, Handling, Masked, load_irqs
<1>3. Requests'
  BY <1>2, SameRequests, Zenon DEF IInv, Handling, load_irqs
<1>4. Counting'
  BY DEF IInv, TypeOK, Counting, ScancodesConserved, LossIsNotHidden, load_irqs
<1> QED
  BY <1>1, <1>2, <1>3, <1>4, Zenon DEF IInv

\* Halting touches none of this.
LEMMA HltIInv ==
  ASSUME IInv, hlt
  PROVE  IInv'
<1>1. TypeOK'
  BY DEF IInv, TypeOK, hlt
<1>2. Locking' /\ Handling'
  BY Zenon DEF IInv, TypeOK, Locking, Handling, Masked, hlt
<1>3. Requests'
  BY <1>2, SameRequests, Zenon DEF IInv, Handling, hlt
<1>4. Counting'
  BY SameCounts, Zenon DEF IInv, Handling, hlt
<1> QED
  BY <1>1, <1>2, <1>3, <1>4, Zenon DEF IInv

\* Every step of the machine keeps the invariant.
LEMMA NextIInv == IInv /\ [Next]_vars => IInv'
<1> SUFFICES ASSUME IInv, [Next]_vars PROVE IInv'
  BY Zenon
<1>1. CASE init \/ PitTick \/ \E s \in Scancode : KeyByte(s)
  BY <1>1, BootIInv, PitTickIInv, KeyByteIInv, Zenon
<1>2. CASE Interrupt
  BY <1>2, TakeInterruptIInv, Zenon DEF Interrupt
<1>3. CASE Handler
  BY <1>3, FetchAddIInv, ReadPortIInv, LockBufferIInv, PushIInv, LockPicsIInv,
     EoiIInv, IretqIInv, Zenon DEF Handler
<1>4. CASE ThreadStep
  BY <1>4, DisableIInv, LockIInv, PopIInv, ReadDroppedIInv, EnableIInv,
     HandleIInv, LoadIrqsIInv, HltIInv, Zenon DEF ThreadStep
<1>5. CASE UNCHANGED vars
  BY <1>5 DEF vars, IInv, TypeOK, Locking,
     Handling, Requests, Counting, OfferedIsRequested, ScancodesConserved,
     LossIsNotHidden
<1> QED
  BY <1>1, <1>2, <1>3, <1>4, <1>5, Zenon DEF Next

\* The inductive invariant holds in every reachable state.
THEOREM Invariance == Spec => []IInv
BY InitIInv, NextIInv, PTL DEF Spec

\* Every variable keeps its type, and the buffer its indices: the repair at the
\* head of push and pop is never needed.
THEOREM TypeCorrect == Spec => []TypeOK
<1>1. IInv => TypeOK
  BY Zenon DEF IInv
<1> QED
  BY <1>1, Invariance, PTL

\* Neither handler ever waits for a lock, whatever step of the thread it
\* interrupts.
THEOREM NoSelfDeadlock == Spec => []HandlersNeverSpin
<1>1. IInv => HandlersNeverSpin
  BY Zenon DEF IInv, Locking, Handling, Masked, HandlersNeverSpin
<1> QED
  BY <1>1, Invariance, PTL

\* Each keyboard interrupt's scancode is taken, queued, dropped or in hand.
THEOREM NothingLostUncounted == Spec => []ScancodesConserved
<1>1. IInv => ScancodesConserved
  BY Zenon DEF IInv, Counting
<1> QED
  BY <1>1, Invariance, PTL

\* The keyboard is never left with a byte nobody will ask for.
THEOREM NoByteLeftBehind == Spec => []OfferedIsRequested
<1>1. IInv => OfferedIsRequested
  BY Zenon DEF IInv, Requests
<1> QED
  BY <1>1, Invariance, PTL

\* keyboard_counters, which reads its two counters at different times, never
\* understates the losses among the interrupts it counted.
THEOREM CountersHideNoLoss == Spec => []LossIsNotHidden
<1>1. IInv => LossIsNotHidden
  BY Zenon DEF IInv, Counting
<1> QED
  BY <1>1, Invariance, PTL

\* The handlers, the ring buffer and the loop account for every scancode.
THEOREM EveryScancodeIsAccountedFor == Spec => []ScancodesAreAccountedFor
<1>1. TypeOK /\ ScancodesConserved /\ OfferedIsRequested /\ LossIsNotHidden
      => ScancodesAreAccountedFor
  BY Zenon DEF ScancodesAreAccountedFor
<1> QED
  BY <1>1, TypeCorrect, NothingLostUncounted, NoByteLeftBehind, CountersHideNoLoss, PTL

-----------------------------------------------------------------------------
(* The keyboard path implements BoundedFifo. *)

\* The empty ring is the empty queue.
LEMMA FifoInit == Init => Fifo!Init
BY NewIsConsistent DEF Init, Fifo!Init, new

\* The length of the abstract queue is the length the code keeps.
LEMMA QueueLength ==
  ASSUME NEW b, Consistent(b)
  PROVE  /\ Len(Contents(b)) = b.len /\ b.len <= SCANCODE_BUFFER_SIZE
         /\ b.len \in Nat
         /\ b.len > 0 => Contents(b) # <<>>
         /\ b.len = 0 => Contents(b) = <<>>
<1>1. b.len \in Nat /\ b.len <= SCANCODE_BUFFER_SIZE
  BY BufferAssumption DEF Consistent, Buffers
<1>2. Len(Contents(b)) = b.len /\ Contents(b) \in Seq(Scancode)
  BY ContentsSeq, Zenon
<1>3. b.len = 0 => Contents(b) = <<>>
  BY DEF Contents
<1>4. b.len > 0 => Contents(b) # <<>>
  BY <1>2
<1> QED
  BY <1>1, <1>2, <1>3, <1>4, Zenon

\* A push of the handler is an arrival.
LEMMA PushArrives == IInv /\ keyboard_push => Fifo!Next
<1> SUFFICES ASSUME IInv, keyboard_push PROVE Fifo!Next
  BY Zenon
<1>1. byte \in Scancode /\ Consistent(SCANCODE_BUFFER) /\ got' = got
  BY Zenon DEF IInv, TypeOK, Handling, keyboard_push
<1>2. SCANCODE_BUFFER' = push(SCANCODE_BUFFER, byte)
  BY Zenon DEF keyboard_push
<1>3. Fifo!Arrive(byte)
  <2>1. CASE SCANCODE_BUFFER.len < SCANCODE_BUFFER_SIZE
    BY <1>1, <1>2, <2>1, PushAppends, QueueLength, Zenon DEF Fifo!Arrive, N
  <2>2. CASE SCANCODE_BUFFER.len = SCANCODE_BUFFER_SIZE
    BY <1>1, <1>2, <2>2, PushAppends, QueueLength, Zenon DEF Fifo!Arrive, N
  <2> QED
    BY <1>1, <2>1, <2>2, QueueLength, BufferAssumption
<1> QED
  BY <1>1, <1>3, Zenon DEF Fifo!Next

\* A pop of the loop takes the oldest, or finds nothing.
LEMMA PopTakes == IInv /\ pop_scancode => Fifo!Next
<1> SUFFICES ASSUME IInv, pop_scancode PROVE Fifo!Next
  BY Zenon
<1>1. /\ Consistent(SCANCODE_BUFFER)
      /\ SCANCODE_BUFFER' = pop(SCANCODE_BUFFER).rest
      /\ got' = pop(SCANCODE_BUFFER).value
  BY Zenon DEF IInv, TypeOK, pop_scancode
<1>2. CASE SCANCODE_BUFFER.len > 0
  BY <1>1, <1>2, PopTakesOldest, QueueLength, Zenon DEF Fifo!Take, Fifo!Next
<1>3. CASE SCANCODE_BUFFER.len = 0
  BY <1>1, <1>3, PopTakesOldest, QueueLength, Zenon DEF Fifo!FindEmpty, Fifo!Next
<1> QED
  BY <1>1, <1>2, <1>3, QueueLength

\* Every other step leaves the queue alone.
LEMMA FifoStep == IInv /\ [Next]_vars => [Fifo!Next]_(Fifo!vars)
<1> SUFFICES ASSUME IInv, [Next]_vars PROVE [Fifo!Next]_(Fifo!vars)
  BY Zenon
<1>1. CASE keyboard_push
  BY <1>1, PushArrives, Zenon
<1>2. CASE pop_scancode
  BY <1>2, PopTakes, Zenon
<1>3. CASE UNCHANGED <<SCANCODE_BUFFER, got>>
  BY <1>3, Zenon DEF Fifo!vars
<1>4. CASE init \/ PitTick \/ \E s \in Scancode : KeyByte(s)
  BY <1>3, <1>4, Zenon DEF init, PitTick, KeyByte
<1>5. CASE Interrupt
  BY <1>3, <1>5, Zenon DEF Interrupt, TakeInterrupt
<1>6. CASE Handler
  <2>1. CASE timer_fetch_add \/ keyboard_read_port \/ keyboard_lock_buffer
    BY <1>3, <2>1, Zenon DEF timer_fetch_add, keyboard_read_port, keyboard_lock_buffer
  <2>2. CASE lock_pics \/ notify_end_of_interrupt \/ iretq
    BY <1>3, <2>2, Zenon DEF lock_pics, notify_end_of_interrupt, iretq
  <2> QED
    BY <1>1, <1>6, <2>1, <2>2, Zenon DEF Handler
<1>7. CASE ThreadStep
  <2>1. CASE (\E o \in {"pop", "counters"} : disable(o)) \/ lock \/ read_dropped \/ enable
    BY <1>3, <2>1, Zenon DEF disable, lock, read_dropped, enable
  <2>2. CASE handle_key_event \/ load_irqs \/ hlt
    BY <1>3, <2>2, Zenon DEF handle_key_event, load_irqs, hlt
  <2> QED
    BY <1>2, <1>7, <2>1, <2>2, Zenon DEF ThreadStep
<1>8. CASE UNCHANGED vars
  BY <1>3, <1>8, Zenon DEF vars
<1> QED
  BY <1>4, <1>5, <1>6, <1>7, <1>8, Zenon DEF Next

\* Scancodes reach the input loop once each and in order, and one is lost only
\* if it arrives at a full buffer: the interrupt handlers, the ring buffer and
\* the loop together implement the bounded queue.
THEOREM KeyboardPathIsFifo == Spec => IsFifo
<1>1. Spec => Fifo!Init
  BY FifoInit, Zenon DEF Spec
<1>2. Spec => [][Fifo!Next]_(Fifo!vars)
  BY Invariance, FifoStep, PTL DEF Spec
<1> QED
  BY <1>1, <1>2, Zenon DEF IsFifo, Fifo!Spec
===============================================================================
