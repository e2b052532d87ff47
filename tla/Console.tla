------------------------------- MODULE Console -------------------------------
(***************************************************************************)
(* The framebuffer console as a grid of character cells: what FrameBuffer- *)
(* Writer does for one character, and for a text.  A glyph covers its cell *)
(* completely, so pixels are left out.                                     *)
(***************************************************************************)
EXTENDS Integers, Sequences, SequencesExt

CONSTANTS
  MaxColumns, MaxRows,    \* max_columns() and max_rows(), zero for a tiny screen
  BlankCell               \* a cell of zeros, and the glyph of a space

ASSUME ScreenAssumption == MaxColumns \in Nat /\ MaxRows \in Nat

BlankRow == [c \in 0..MaxColumns - 1 |-> BlankCell]

Cleared == [cells |-> [r \in 0..MaxRows - 1 |-> BlankRow], column |-> 0, row |-> 0]

scroll_one_row(s) ==
  [s EXCEPT !.cells = [r \in 0..MaxRows - 1 |-> IF r + 1 < MaxRows THEN @[r + 1] ELSE BlankRow]]

new_line(s) ==
  IF s.row + 1 >= MaxRows
    THEN [scroll_one_row(s) EXCEPT !.column = 0, !.row = IF MaxRows = 0 THEN 0 ELSE MaxRows - 1]
    ELSE [s EXCEPT !.column = 0, !.row = @ + 1]

\* Mutant: a row is left before its last cell.
write_renderable_WrapsEarly(s, char) ==
  IF MaxColumns = 0 \/ MaxRows = 0 THEN s
  ELSE LET w == [s EXCEPT !.cells[s.row][s.column] = char, !.column = @ + 1]
       IN IF w.column >= MaxColumns THEN new_line(w) ELSE w

\* The wrap waits for the next character: a full row leaves the column at
\* MaxColumns.  The code's second scroll, for a row past the end, cannot occur:
\* new_line leaves the row inside.
write_renderable(s, char) ==
  IF MaxColumns = 0 \/ MaxRows = 0 THEN s
  ELSE LET w == IF s.column >= MaxColumns THEN new_line(s) ELSE s
       IN [w EXCEPT !.cells[w.row][w.column] = char, !.column = @ + 1]

backspace_cell(s) ==
  IF MaxColumns = 0 \/ MaxRows = 0 \/ (s.column = 0 /\ s.row = 0) THEN s
  ELSE LET w == IF s.column > 0 THEN [s EXCEPT !.column = @ - 1]
                ELSE [s EXCEPT !.row = @ - 1, !.column = MaxColumns - 1]
       IN [w EXCEPT !.cells[w.row][w.column] = BlankCell]

write_char(s, char) ==
  CASE char = "LF" -> new_line(s)
    [] char = "CR" -> [s EXCEPT !.column = 0]
    [] char = "BS" -> backspace_cell(s)
    [] char = "TAB" -> FoldLeft(write_renderable, s, [i \in 1..4 |-> BlankCell])
    [] OTHER -> write_renderable(s, char)

write_str(s, text) == FoldLeft(write_char, s, text)
===============================================================================
