--------------------------- MODULE ScancodeBuffer ---------------------------
(***************************************************************************)
(* The ring buffer of kernel/src/interrupts.rs between the keyboard        *)
(* interrupt and the input loop, as a value and two functions on it.       *)
(***************************************************************************)
EXTENDS Integers, Sequences

CONSTANTS
  SCANCODE_BUFFER_SIZE,
  Scancode,      \* the bytes the keyboard sends
  NoScancode     \* Option::None

ASSUME BufferAssumption ==
  /\ SCANCODE_BUFFER_SIZE \in Nat \ {0}
  /\ NoScancode \notin Scancode

Slot == 0 .. SCANCODE_BUFFER_SIZE - 1

\* entries starts as zeroes, which no reader ever sees.
Buffers ==
  [entries : [Slot -> Scancode \cup {NoScancode}],
   read_index : Slot, write_index : Slot,
   len : 0 .. SCANCODE_BUFFER_SIZE, dropped : Nat]

new == [entries |-> [i \in Slot |-> NoScancode],
        read_index |-> 0, write_index |-> 0, len |-> 0, dropped |-> 0]

\* With which push and pop begin: indices and length are brought into range.
repair(b) ==
  IF \/ b.write_index >= SCANCODE_BUFFER_SIZE
     \/ b.read_index >= SCANCODE_BUFFER_SIZE
     \/ b.len > SCANCODE_BUFFER_SIZE
    THEN [b EXCEPT !.write_index = @ % SCANCODE_BUFFER_SIZE,
                   !.read_index = @ % SCANCODE_BUFFER_SIZE,
                   !.len = IF @ > SCANCODE_BUFFER_SIZE
                             THEN SCANCODE_BUFFER_SIZE ELSE @]
    ELSE b

\* The next slot round the ring.
Following(index) == (index + 1) % SCANCODE_BUFFER_SIZE

\* Mutants (here and below, named after what they get wrong).
put_Uncounted(b, scancode) ==
  IF b.len = SCANCODE_BUFFER_SIZE
    THEN b
    ELSE [b EXCEPT !.entries[b.write_index] = scancode,
                   !.write_index = Following(@),
                   !.len = @ + 1]

put_OverwritesOldest(b, scancode) ==
  IF b.len = SCANCODE_BUFFER_SIZE
    THEN [b EXCEPT !.entries[b.write_index] = scancode,
                   !.write_index = Following(@),
                   !.read_index = Following(@),
                   !.dropped = @ + 1]
    ELSE [b EXCEPT !.entries[b.write_index] = scancode,
                   !.write_index = Following(@),
                   !.len = @ + 1]

\* A full buffer keeps what it has and counts the newcomer.
put(b, scancode) ==
  IF b.len = SCANCODE_BUFFER_SIZE
    THEN [b EXCEPT !.dropped = @ + 1]
    ELSE [b EXCEPT !.entries[b.write_index] = scancode,
                   !.write_index = Following(@),
                   !.len = @ + 1]

push(b, scancode) == put(repair(b), scancode)

\* Equal indices also mean a full buffer.
take_FullLooksEmpty(b) ==
  IF b.read_index = b.write_index
    THEN [value |-> NoScancode, rest |-> b]
    ELSE [value |-> b.entries[b.read_index],
          rest  |-> [b EXCEPT !.read_index = Following(@), !.len = @ - 1]]

take(b) ==
  IF b.len = 0
    THEN [value |-> NoScancode, rest |-> b]
    ELSE [value |-> b.entries[b.read_index],
          rest  |-> [b EXCEPT !.read_index = Following(@), !.len = @ - 1]]

pop(b) == take(repair(b))

-----------------------------------------------------------------------------
(* How a buffer is read as a queue. *)

\* The slot of the i-th oldest scancode.
Nth(b, i) == (b.read_index + i - 1) % SCANCODE_BUFFER_SIZE

Contents(b) == [i \in 1 .. b.len |-> b.entries[Nth(b, i)]]

\* The indices agree with the length, and every queued slot was written.
Consistent(b) ==
  /\ b \in Buffers
  /\ b.write_index = (b.read_index + b.len) % SCANCODE_BUFFER_SIZE
  /\ \A i \in 1 .. b.len : b.entries[Nth(b, i)] \in Scancode
=============================================================================
