------------------------------ MODULE InputLine ------------------------------
(***************************************************************************)
(* The line under edit: a fixed array of bytes, a length and a cursor, and *)
(* its operations, each from a line to a line.  An operation that returns  *)
(* false leaves the line as it is and one that returns true changes it, so *)
(* the Boolean needs no field of its own.                                  *)
(*                                                                         *)
(* Both sources of characters (keyboard map, serial line) yield ASCII      *)
(* only, so the is_ascii tests never fail and are left out.                *)
(***************************************************************************)
EXTENDS Integers, Sequences

CONSTANTS
  INPUT_LINE_MAX,   \* bytes in a line
  Bytes,            \* the characters typed, zero and blank among them
  WordBytes,        \* those with is_word_byte
  Zero, Space

ASSUME LineAssumption ==
  /\ INPUT_LINE_MAX \in Nat \ {0}
  /\ {Zero, Space} \subseteq Bytes
  /\ WordBytes \subseteq Bytes \ {Space}

Index == 0..INPUT_LINE_MAX - 1

Lines == {l \in [bytes : [Index -> Bytes], len : 0..INPUT_LINE_MAX,
                 cursor : 0..INPUT_LINE_MAX] : l.cursor <= l.len}

\* The texts a line can hold.
LineTexts == UNION {[1..n -> Bytes] : n \in 0..INPUT_LINE_MAX}

NewLine == [bytes |-> [i \in Index |-> Zero], len |-> 0, cursor |-> 0]

\* as_str and as_prefix_str, and what is behind the cursor.
Text(l) == [i \in 1..l.len |-> l.bytes[i - 1]]
Before(l) == [i \in 1..l.cursor |-> l.bytes[i - 1]]
After(l) == [i \in 1..(l.len - l.cursor) |-> l.bytes[l.cursor + i - 1]]

\* Mutants (here and below, named after what they get wrong).
insert_char_NoShift(l, c) ==
  IF l.len >= INPUT_LINE_MAX THEN l
  ELSE [bytes |-> [l.bytes EXCEPT ![l.cursor] = c],
        len |-> l.len + 1, cursor |-> l.cursor + 1]

insert_char(l, c) ==
  IF l.len >= INPUT_LINE_MAX THEN l
  ELSE [bytes |-> [i \in Index |-> IF i = l.cursor THEN c
                                   ELSE IF i \in l.cursor + 1..l.len THEN l.bytes[i - 1]
                                   ELSE l.bytes[i]],
        len |-> l.len + 1, cursor |-> l.cursor + 1]

insert_or_overwrite_char(l, c, overwrite_mode) ==
  IF overwrite_mode /\ l.cursor < l.len
    THEN [l EXCEPT !.bytes[l.cursor] = c, !.cursor = @ + 1]
    ELSE insert_char(l, c)

\* Its only caller has the cursor at the end of the line.
append_str(l, text) ==
  LET n == Len(text)
  IN IF l.len + n > INPUT_LINE_MAX THEN l
     ELSE [bytes |-> [i \in Index |->
                        IF i \in l.cursor..l.cursor + n - 1 THEN text[i - l.cursor + 1]
                        ELSE IF i \in l.cursor + n..l.len + n - 1 THEN l.bytes[i - n]
                        ELSE l.bytes[i]],
           len |-> l.len + n, cursor |-> l.cursor + n]

set_from_str(l, text) ==
  IF Len(text) > INPUT_LINE_MAX THEN l
  ELSE [bytes |-> [i \in Index |-> IF i < Len(text) THEN text[i + 1] ELSE l.bytes[i]],
        len |-> Len(text), cursor |-> Len(text)]

\* The bytes from end on move down to start; the rest of the array stays.
Shifted(l, start, end) ==
  [i \in Index |-> IF i \in start..l.len - (end - start) - 1
                     THEN l.bytes[i + (end - start)] ELSE l.bytes[i]]

backspace(l) ==
  IF l.cursor = 0 THEN l
  ELSE [bytes |-> Shifted(l, l.cursor - 1, l.cursor),
        len |-> l.len - 1, cursor |-> l.cursor - 1]

delete(l) ==
  IF l.cursor >= l.len THEN l
  ELSE [l EXCEPT !.bytes = Shifted(l, l.cursor, l.cursor + 1), !.len = @ - 1]

MoveTo(l, position) == [l EXCEPT !.cursor = position]
move_left(l) == IF l.cursor = 0 THEN l ELSE MoveTo(l, l.cursor - 1)
move_right(l) == IF l.cursor >= l.len THEN l ELSE MoveTo(l, l.cursor + 1)
move_home(l) == MoveTo(l, 0)
move_end(l) == MoveTo(l, l.len)

(***************************************************************************)
(* Words.  Run(l, from, to, kind): every byte from..to-1 is of that kind.  *)
(***************************************************************************)
SpaceBytes == {Space}
OtherBytes == Bytes \ (SpaceBytes \cup WordBytes)

Run(l, from, to, kind) == \A i \in from..to - 1 : l.bytes[i] \in kind

\* Where a loop that walks left, or right, over one kind of bytes ends up.
WalkLeft(l, p, kind) ==
  CHOOSE q \in 0..p : Run(l, q, p, kind) /\ (q > 0 => l.bytes[q - 1] \notin kind)
WalkRight(l, p, kind) ==
  CHOOSE q \in p..l.len : Run(l, p, q, kind) /\ (q < l.len => l.bytes[q] \notin kind)

\* The last branch of the code, one byte to the left, is for a byte of no kind,
\* and there is none.
previous_word_boundary(l) ==
  LET word == WalkLeft(l, WalkLeft(l, l.cursor, SpaceBytes), WordBytes)
  IN IF word = l.cursor THEN WalkLeft(l, l.cursor, OtherBytes) ELSE word

next_word_boundary(l) ==
  LET word == WalkRight(l, WalkRight(l, l.cursor, SpaceBytes), WordBytes)
  IN IF word = l.cursor THEN WalkRight(l, l.cursor, OtherBytes) ELSE word

\* A place with a letter of a word on either side.
MidWord(l, p) ==
  p \in 1..l.len - 1 /\ l.bytes[p - 1] \in WordBytes /\ l.bytes[p] \in WordBytes

move_word_left(l) == MoveTo(l, previous_word_boundary(l))
move_word_right(l) == MoveTo(l, next_word_boundary(l))

\* delete_range: the cursor is clamped to the new length.
delete_range(l, start, end) ==
  IF end <= start THEN l
  ELSE LET len == l.len - (end - start)
       IN [bytes |-> Shifted(l, start, end), len |-> len,
           cursor |-> IF l.cursor > len THEN len ELSE l.cursor]

delete_word_left(l) ==
  LET start == previous_word_boundary(l)
  IN IF start = l.cursor THEN l ELSE MoveTo(delete_range(l, start, l.cursor), start)

delete_word_right(l) == delete_range(l, l.cursor, next_word_boundary(l))

clear(l) == [l EXCEPT !.len = 0, !.cursor = 0]
===============================================================================
