--------------------------- MODULE KeyboardDecoder ---------------------------
(***************************************************************************)
(* KeyboardDecoder::feed: from scan codes (set 1) to key events.  Codes    *)
(* are the numbers of the source; a character is the code of its key and   *)
(* whether it is the upper one, which is all the tables add.               *)
(***************************************************************************)
EXTENDS Integers, Sequences

NewDecoder == [extended |-> FALSE, left_shift |-> FALSE, right_shift |-> FALSE,
               left_ctrl |-> FALSE, right_ctrl |-> FALSE,
               left_alt |-> FALSE, right_alt |-> FALSE, caps_lock |-> FALSE]

E0 == 224
released(scancode) == scancode >= 128
code(scancode) == scancode % 128

\* decode_letter and decode_symbol_pair: the keys that have a character.
Letters == {16, 17, 18, 19, 20, 21, 22, 23, 24, 25, 30, 31, 32, 33, 34, 35, 36, 37, 38,
            44, 45, 46, 47, 48, 49, 50}
Symbols == 2..13 \cup {26, 27, 39, 40, 41, 43, 51, 52, 53, 57}

shift_active(d) == d.left_shift \/ d.right_shift
ctrl_active(d) == d.left_ctrl \/ d.right_ctrl
alt_active(d) == d.left_alt \/ d.right_alt

classify_char(d, key, upper) ==
  <<CASE ctrl_active(d) /\ alt_active(d) -> "CtrlAlt"
      [] ctrl_active(d) /\ ~alt_active(d) -> "Ctrl"
      [] ~ctrl_active(d) /\ alt_active(d) -> "Alt"
      [] OTHER -> "Char", key, upper>>

Plain(name, key) == <<name, key, FALSE>>
Either(d, with, without, key) == Plain(IF ctrl_active(d) THEN with ELSE without, key)

Nothing(d) == [decoder |-> d, events |-> <<>>]
Gives(d, event) == [decoder |-> d, events |-> <<event>>]

\* The event of a make code without prefix.
decode_make(d, key) ==
  CASE key \in Letters -> classify_char(d, key, shift_active(d) # d.caps_lock)
    [] key \in Symbols -> classify_char(d, key, shift_active(d))
    [] key = 28 -> Plain("Enter", key)
    [] key = 14 -> Either(d, "WordDeleteLeft", "Backspace", key)
    [] key = 15 -> Plain("Tab", key)
    [] key = 1 -> Plain("Escape", key)
    [] key \in 59..68 \cup {87, 88} -> Plain("Function", key)
    [] OTHER -> Plain("Unknown", key)

\* ... and with it.
decode_extended_make(d, key) ==
  CASE key = 72 -> Plain("ArrowUp", key)
    [] key = 80 -> Plain("ArrowDown", key)
    [] key = 75 -> Either(d, "WordLeft", "ArrowLeft", key)
    [] key = 77 -> Either(d, "WordRight", "ArrowRight", key)
    [] key = 82 -> Plain("Insert", key)
    [] key = 83 -> Either(d, "WordDeleteRight", "Delete", key)
    [] key = 71 -> Plain("Home", key)
    [] key = 79 -> Plain("End", key)
    [] key = 73 -> Plain("PageUp", key)
    [] key = 81 -> Plain("PageDown", key)
    [] OTHER -> Plain("Unknown", key)

\* Mutants (here and below, named after what they get wrong).
decode_extended_NeverReleases(d, key, down) ==
  CASE key = 29 -> Nothing([d EXCEPT !.right_ctrl = TRUE])
    [] key = 56 -> Nothing([d EXCEPT !.right_alt = TRUE])
    [] key \notin {29, 56} /\ ~down -> Nothing(d)
    [] OTHER -> Gives(d, decode_extended_make(d, key))

decode_extended(d, key, down) ==
  CASE key = 29 -> Nothing([d EXCEPT !.right_ctrl = down])
    [] key = 56 -> Nothing([d EXCEPT !.right_alt = down])
    [] key \notin {29, 56} /\ ~down -> Nothing(d)
    [] OTHER -> Gives(d, decode_extended_make(d, key))

decode_basic(d, key, down) ==
  CASE key = 42 -> Nothing([d EXCEPT !.left_shift = down])
    [] key = 54 -> Nothing([d EXCEPT !.right_shift = down])
    [] key = 29 -> Nothing([d EXCEPT !.left_ctrl = down])
    [] key = 56 -> Nothing([d EXCEPT !.left_alt = down])
    [] key = 58 -> Nothing([d EXCEPT !.caps_lock = (@ # down)])
    [] key \notin {42, 54, 29, 56, 58} /\ ~down -> Nothing(d)
    [] OTHER -> Gives(d, decode_make(d, key))

feed_StaysExtended(d, scancode) ==
  LET key == code(scancode)
      down == ~released(scancode)
  IN IF scancode = E0 THEN Nothing([d EXCEPT !.extended = TRUE])
     ELSE IF d.extended THEN decode_extended(d, key, down)
     ELSE decode_basic(d, key, down)

feed(d, scancode) ==
  LET key == code(scancode)
      down == ~released(scancode)
  IN IF scancode = E0 THEN Nothing([d EXCEPT !.extended = TRUE])
     ELSE IF d.extended THEN decode_extended([d EXCEPT !.extended = FALSE], key, down)
     ELSE decode_basic(d, key, down)
===============================================================================
