----------------------------- MODULE ConsolePaper -----------------------------
(***************************************************************************)
(* The console against an unlimited roll of paper with the same width:     *)
(* what is printed there is never moved, and a window of MaxRows lines     *)
(* follows the pen down.                                                   *)
(***************************************************************************)
EXTENDS Console

CONSTANTS Chars, PrintMax

VARIABLES
  screen,
  paper,      \* written cells: a function from <<line, column>> to characters
  pen,        \* <<line, column>>
  top,        \* the first line of the window
  printed     \* characters so far

vars == <<screen, paper, pen, top, printed>>

Init ==
  /\ screen = Cleared
  /\ paper = <<>> /\ pen = <<0, 0>> /\ top = 0 /\ printed = 0

\* Where the pen writes a visible character.
Spot(p) == IF p[2] >= MaxColumns THEN <<p[1] + 1, 0>> ELSE p

Mark(f, p, char) == [q \in DOMAIN f \cup {p} |-> IF q = p THEN char ELSE f[q]]

\* The paper's own account of one character: the pen and the written cells.
Glyphs(char) == IF char = "TAB" THEN [i \in 1..4 |-> BlankCell] ELSE <<char>>

OnPaper(char) ==
  CASE MaxColumns = 0 \/ MaxRows = 0 \/ char = "CR" -> [pen |-> <<pen[1], 0>>, paper |-> paper]
    [] char = "LF" -> [pen |-> <<pen[1] + 1, 0>>, paper |-> paper]
    [] char = "BS" /\ pen[2] = 0 /\ pen[1] = top -> [pen |-> pen, paper |-> paper]
    [] char = "BS" /\ ~(pen[2] = 0 /\ pen[1] = top) ->
         LET p == IF pen[2] > 0 THEN <<pen[1], pen[2] - 1>> ELSE <<pen[1] - 1, MaxColumns - 1>>
         IN [pen |-> p, paper |-> Mark(paper, p, BlankCell)]
    [] OTHER ->
         FoldLeft(LAMBDA a, g : [pen |-> <<Spot(a.pen)[1], Spot(a.pen)[2] + 1>>,
                                 paper |-> Mark(a.paper, Spot(a.pen), g)],
                  [pen |-> pen, paper |-> paper], Glyphs(char))

print(char) ==
  /\ printed < PrintMax /\ printed' = printed + 1
  /\ screen' = write_char(screen, char)
  /\ pen' = OnPaper(char).pen /\ paper' = OnPaper(char).paper
  /\ top' = IF pen'[1] - top >= MaxRows THEN pen'[1] - MaxRows + 1 ELSE top

\* framebuffer::clear: a fresh screen, and a fresh sheet.
clear_screen ==
  /\ printed < PrintMax /\ printed' = printed + 1
  /\ screen' = Cleared
  /\ paper' = <<>> /\ pen' = <<0, 0>> /\ top' = 0

Next == clear_screen \/ \E char \in Chars : print(char)

Spec == Init /\ [][Next]_vars

(***************************************************************************)
(* Properties.                                                             *)
(***************************************************************************)
\* The writer's cursor stays on the screen, one column past the last at most.
TypeOK ==
  /\ screen.column \in 0..MaxColumns
  /\ screen.row \in 0..(IF MaxRows = 0 THEN 0 ELSE MaxRows - 1)
  /\ DOMAIN screen.cells = 0..MaxRows - 1

\* Scrolling and wrapping lose and displace nothing: the screen is the window of
\* the paper, cell by cell, with the cursor at the pen.
ScreenIsTheWindow ==
  TypeOK /\ (MaxRows > 0 /\ MaxColumns > 0 =>
    /\ <<top + screen.row, screen.column>> = pen
    /\ \A r \in 0..MaxRows - 1, c \in 0..MaxColumns - 1 :
         screen.cells[r][c] = IF <<top + r, c>> \in DOMAIN paper
                                THEN paper[<<top + r, c>>] ELSE BlankCell)
===============================================================================
