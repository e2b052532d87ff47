-------------------------------- MODULE Prompt --------------------------------
(***************************************************************************)
(* What the keys of module Editor draw: the prompt row on the console of   *)
(* module Console.  Each action is an action of Editor together with all   *)
(* the console_print calls of its branch of handle_key_event.  Texts other *)
(* than the prompt and the line are the word Words.                        *)
(***************************************************************************)
EXTENDS Editor, Console

CONSTANTS MONITOR_PROMPT, Words

VARIABLES
  screen, rendered_len,
  shown,      \* the last thing drawn was the prompt
  stained     \* a notice has been printed on the prompt's row

promptVars == <<screen, rendered_len, shown, stained>>
allVars == <<vars, promptVars>>

PromptLen == Len(MONITOR_PROMPT)
NewRow == <<"LF">>

PromptInit ==
  /\ Init
  /\ screen = write_str(Cleared, MONITOR_PROMPT)
  /\ rendered_len = PromptLen /\ shown = TRUE /\ stained = FALSE

\* Mutants (here and below, named after what they get wrong).
Padding_Missing(l) == <<>>

\* The blanks over what a longer line has left.
Padding(l) ==
  LET visible_len == PromptLen + l.len
  IN IF rendered_len > visible_len
       THEN [i \in 1..(rendered_len - visible_len) |-> BlankCell] ELSE <<>>

\* redraw_prompt_with_line after the text words; the words start a row or are
\* none.
Redraw(words, l) ==
  /\ screen' = write_str(screen, words \o <<"CR">> \o MONITOR_PROMPT \o Text(l) \o Padding(l)
                                 \o <<"CR">> \o MONITOR_PROMPT \o Before(l))
  /\ rendered_len' = PromptLen + l.len
  /\ shown' = TRUE
  /\ stained' = (stained /\ words = <<>>)

PrintNotice(words) ==
  /\ screen' = write_str(screen, words)
  /\ shown' = FALSE
  /\ stained' = (words[Len(words)] # "LF")
  /\ UNCHANGED rendered_len

\* An edit or a move is drawn if it changed the line.
Draw == IF line' # line THEN Redraw(<<>>, line') ELSE UNCHANGED promptVars

DrawChar(c) ==
  /\ Char(c)
  /\ IF line' # line THEN Redraw(<<>>, line') ELSE PrintNotice(Words)

DrawEdit == (Backspace \/ Delete \/ WordDeleteLeft \/ WordDeleteRight) /\ Draw
DrawMove == (ArrowLeft \/ ArrowRight \/ WordLeft \/ WordRight \/ Home \/ End) /\ Draw

DrawUp ==
  /\ ArrowUp
  /\ IF hist.len > 0 THEN Redraw(<<>>, line') ELSE UNCHANGED promptVars

DrawDown == ArrowDown /\ Redraw(<<>>, line')

DrawInsert == Insert /\ Redraw(NewRow \o Words \o NewRow, line)

\* One match is completed and drawn; several are listed on a row of their own.
DrawTab ==
  /\ Tab
  /\ IF CanComplete /\ \E m, n \in Matches(Text(line)) : m # n
       THEN Redraw(NewRow \o Words \o NewRow, line)
       ELSE Draw

DrawNotice == Notice /\ (PrintNotice(Words) \/ PrintNotice(Words \o NewRow))

\* Enter: a new row, the command's output in whole rows, the prompt.
DrawPrompt(s) ==
  /\ screen' = write_str(s, MONITOR_PROMPT)
  /\ rendered_len' = PromptLen
  /\ shown' = TRUE /\ stained' = FALSE

DrawEnter ==
  /\ Enter
  /\ \/ DrawPrompt(write_str(screen, NewRow))
     \/ DrawPrompt(write_str(screen, NewRow \o Words \o NewRow))
     \/ DrawPrompt(write_str(Cleared, Words \o NewRow))     \* the clear command

\* A command is entered with a new row; a task that runs by itself is not.
DrawSession ==
  /\ EnterSession
  /\ \/ line.len > 0 /\ DrawPrompt(write_str(screen, NewRow \o Words \o NewRow))
     \/ DrawPrompt(write_str(screen, Words \o NewRow))

DrawExit == (EnterExit \/ Escape) /\ PrintNotice(Words \o NewRow)

PromptNext ==
  \/ \E c \in Bytes \ {Zero} : DrawChar(c)
  \/ DrawEdit \/ DrawMove \/ DrawUp \/ DrawDown \/ DrawInsert \/ DrawTab
  \/ DrawNotice \/ DrawEnter \/ DrawSession \/ DrawExit

PromptSpec == PromptInit /\ [][PromptNext]_allVars

(***************************************************************************)
(* Properties.                                                             *)
(***************************************************************************)
Shown == MONITOR_PROMPT \o Text(line)

\* After each key that draws, the cursor's row holds the prompt and the line and
\* the cursor stands where the next character goes, provided that prompt and
\* longest line fit in a row (a row they fill exactly included).
RowShowsTheLine ==
  (shown /\ running) =>
    /\ screen.column = PromptLen + line.cursor
    /\ \A c \in 1..Len(Shown) : screen.cells[screen.row][c - 1] = Shown[c]

\* Nothing of a longer line that was there before remains behind it, unless a
\* notice, whose width rendered_len does not count, was printed on the row.
RowShowsNothingElse ==
  (shown /\ running /\ ~stained) =>
    \A c \in Len(Shown) + 1..MaxColumns : screen.cells[screen.row][c - 1] = BlankCell

\* The row is the prompt and the line: what redraw_prompt_with_line drew last is
\* what handle_key_event edits.
RowIsThePromptAndLine == RowShowsTheLine /\ RowShowsNothingElse
===============================================================================
