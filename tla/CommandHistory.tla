---------------------------- MODULE CommandHistory ----------------------------
(***************************************************************************)
(* The ring of the last submitted lines, and the place the arrow keys have *)
(* reached in it.  An entry is the text of a line: stale bytes behind an   *)
(* entry's length are never read.                                          *)
(***************************************************************************)
EXTENDS Integers, Sequences

CONSTANT HISTORY_CAPACITY

ASSUME HistoryAssumption == HISTORY_CAPACITY \in Nat \ {0}

Slots == 0..HISTORY_CAPACITY - 1
None == -1                                 \* browsing_age

NewHistory == [entries |-> [s \in Slots |-> <<>>], len |-> 0, next_insert |-> 0,
               browsing_age |-> None]

\* The slot of entry_by_age, for an age below the length.
SlotOf(h, age) ==
  LET newest_index == (h.next_insert + HISTORY_CAPACITY - 1) % HISTORY_CAPACITY
  IN (newest_index + HISTORY_CAPACITY - age) % HISTORY_CAPACITY

entry_by_age(h, age) == h.entries[SlotOf(h, age)]

reset_browsing(h) == [h EXCEPT !.browsing_age = None]

push_line(h, text) ==
  IF text = <<>> THEN h
  ELSE IF h.len > 0 /\ entry_by_age(h, 0) = text THEN reset_browsing(h)
  ELSE [entries |-> [h.entries EXCEPT ![h.next_insert] = text],
        len |-> IF h.len < HISTORY_CAPACITY THEN h.len + 1 ELSE h.len,
        next_insert |-> (h.next_insert + 1) % HISTORY_CAPACITY,
        browsing_age |-> None]

\* previous and next: the history after the key; the entry shown, if any, is the
\* one at browsing_age.
previous(h) ==
  IF h.len = 0 THEN h
  ELSE [h EXCEPT !.browsing_age =
          IF @ = None THEN 0 ELSE IF @ + 1 < h.len - 1 THEN @ + 1 ELSE h.len - 1]

next(h) == [h EXCEPT !.browsing_age = IF @ = None \/ @ = 0 THEN None ELSE @ - 1]
===============================================================================
