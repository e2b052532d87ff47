-------------------------------- MODULE Editor --------------------------------
(***************************************************************************)
(* handle_key_event on the line and the history: one action per key event. *)
(* What the keys draw is in module Prompt; what a submitted command does   *)
(* to the rest of the kernel is in module Monitor.                         *)
(***************************************************************************)
EXTENDS InputLine, CommandHistory

CONSTANT CommandNames     \* COMMAND_NAMES, as texts

ASSUME NamesAssumption == CommandNames \subseteq Seq(Bytes)

VARIABLES line, hist, overwrite_mode, running

vars == <<line, hist, overwrite_mode, running>>

\* The locals of input_loop.
Init ==
  /\ line = NewLine /\ hist = NewHistory
  /\ overwrite_mode = FALSE /\ running = TRUE

\* An edit that changes the line ends the browsing of the history.
Edit(new) ==
  /\ running /\ line' = new
  /\ hist' = IF new # line THEN reset_browsing(hist) ELSE hist
  /\ UNCHANGED <<overwrite_mode, running>>

Char(c) == Edit(insert_or_overwrite_char(line, c, overwrite_mode))
Backspace == Edit(backspace(line))
Delete == Edit(delete(line))
WordDeleteLeft == Edit(delete_word_left(line))
WordDeleteRight == Edit(delete_word_right(line))

Move(new) == running /\ line' = new /\ UNCHANGED <<hist, overwrite_mode, running>>

ArrowLeft == Move(move_left(line))
ArrowRight == Move(move_right(line))
WordLeft == Move(move_word_left(line))
WordRight == Move(move_word_right(line))
Home == Move(move_home(line))
End == Move(move_end(line))

ArrowUp ==
  /\ running /\ hist' = previous(hist)
  /\ line' = IF hist.len = 0 THEN line
             ELSE set_from_str(line, entry_by_age(hist', hist'.browsing_age))
  /\ UNCHANGED <<overwrite_mode, running>>

ArrowDown ==
  /\ running /\ hist' = next(hist)
  /\ line' = IF hist'.browsing_age = None THEN clear(line)
             ELSE set_from_str(line, entry_by_age(hist', hist'.browsing_age))
  /\ UNCHANGED <<overwrite_mode, running>>

Insert ==
  /\ running /\ overwrite_mode' = ~overwrite_mode
  /\ UNCHANGED <<line, hist, running>>

\* complete_command.
StartsWith(name, text) == Len(text) <= Len(name) /\ SubSeq(name, 1, Len(text)) = text

Matches(text) == {name \in CommandNames : StartsWith(name, text)}

CanComplete == (\A i \in 1..line.len : Text(line)[i] # Space) /\ line.cursor = line.len

Suffix(text) ==
  LET name == CHOOSE name \in Matches(text) : TRUE
  IN SubSeq(name, Len(text) + 1, Len(name))

Completed ==
  IF CanComplete /\ \E name \in CommandNames : Matches(Text(line)) = {name}
    THEN append_str(line, Suffix(Text(line))) ELSE line

Tab == Move(Completed)

\* The notices: modified characters, page and function keys, unknown codes, and
\* output of a task that the scheduler runs by itself.
Notice == Move(line)

\* execute_command comes back to the loop.  A new entry for the line is made
\* before the command runs.
Enter ==
  /\ running
  /\ hist' = reset_browsing(push_line(hist, Text(line)))
  /\ line' = clear(line)
  /\ UNCHANGED <<overwrite_mode, running>>

\* execute_command, or a task that the scheduler runs by itself whatever the line,
\* enters ring 3 and never returns: the session ends in a new input_loop.
EnterSession ==
  /\ running
  /\ line' = NewLine /\ hist' = NewHistory /\ overwrite_mode' = FALSE
  /\ UNCHANGED running

\* exit, quit and Escape; execute_command still clears the line.
EnterExit ==
  /\ running /\ line.len > 0 /\ running' = FALSE
  /\ hist' = reset_browsing(push_line(hist, Text(line)))
  /\ line' = clear(line)
  /\ UNCHANGED overwrite_mode

Escape == running /\ running' = FALSE /\ UNCHANGED <<line, hist, overwrite_mode>>

Key ==
  \/ \E c \in Bytes \ {Zero} : Char(c)
  \/ Backspace \/ Delete \/ WordDeleteLeft \/ WordDeleteRight
  \/ ArrowLeft \/ ArrowRight \/ WordLeft \/ WordRight \/ Home \/ End
  \/ ArrowUp \/ ArrowDown \/ Insert \/ Tab \/ Notice

Submits == Enter \/ EnterSession \/ EnterExit \/ Escape

Next == Key \/ Submits

Spec == Init /\ [][Next]_vars

(***************************************************************************)
(* Properties.                                                             *)
(***************************************************************************)
\* The line and the history stay inside their arrays: every index the code uses
\* is below a length that is below the array's.
TypeOK ==
  /\ line \in Lines
  /\ hist \in [entries : [Slots -> LineTexts], len : 0..HISTORY_CAPACITY,
               next_insert : Slots, browsing_age : {None} \cup Slots]
  /\ hist.browsing_age < hist.len
  /\ overwrite_mode \in BOOLEAN /\ running \in BOOLEAN

Prefix(s, t) == Len(s) <= Len(t) /\ \A i \in 1..Len(s) : t[i] = s[i]

\* While the arrow keys browse the history, the line is the entry they are at,
\* possibly with a completion behind it: no key edits the line and leaves the
\* place in the history, also when the ring has wrapped around.
BrowsedEntryIsShown ==
  hist.browsing_age # None => Prefix(entry_by_age(hist, hist.browsing_age), Text(line))

\* No two neighbours in the history are the same line, and none is empty.
HistoryHasNoRepeats ==
  /\ \A a \in 0..hist.len - 1 : entry_by_age(hist, a) # <<>>
  /\ \A a \in 0..hist.len - 2 : entry_by_age(hist, a) # entry_by_age(hist, a + 1)

\* Wherever the cursor is, a jump by words moves it unless it is at the end of the
\* line it heads for, and never stops inside a word.
WordJumpsLandBetweenWords ==
  LET left == move_word_left(line).cursor
      right == move_word_right(line).cursor
  IN /\ line.cursor > 0 => left < line.cursor /\ ~MidWord(line, left)
     /\ line.cursor < line.len => right > line.cursor /\ ~MidWord(line, right)

past == [k \in 1..hist.len |-> entry_by_age(hist, k - 1)]

Abstract == INSTANCE TextBuffer WITH
  LineMax <- INPUT_LINE_MAX, PastMax <- HISTORY_CAPACITY, Chars <- Bytes,
  before <- Before(line), after <- After(line), past <- past,
  age <- hist.browsing_age, overwrite <- overwrite_mode

\* The editor is a text around a cursor and a list of past lines: shifting bytes
\* in the array, stale bytes behind the length, and the ring with its wrapping
\* indices are invisible.
ImplementsTextBuffer == Abstract!Spec
===============================================================================
