------------------------------ MODULE TextBuffer ------------------------------
(***************************************************************************)
(* What the line editor promises: a text in two parts around the cursor,   *)
(* and the list of the lines submitted last, newest first.                 *)
(***************************************************************************)
EXTENDS Integers, Sequences

CONSTANTS LineMax, PastMax, Chars

VARIABLES before, after, past, age, overwrite

vars == <<before, after, past, age, overwrite>>

NotBrowsing == -1

Init ==
  /\ before = <<>> /\ after = <<>>
  /\ past = <<>> /\ age = NotBrowsing
  /\ overwrite = FALSE

\* A change of the text ends the browsing of past lines.
Edits(b, a) ==
  before' = b /\ after' = a /\ age' = NotBrowsing /\ UNCHANGED <<past, overwrite>>

Type(c) ==
  \/ overwrite /\ after # <<>> /\ Edits(Append(before, c), Tail(after))
  \/ ~(overwrite /\ after # <<>>) /\ Len(before) + Len(after) < LineMax
     /\ Edits(Append(before, c), after)

CutLeft(n) == n \in 1..Len(before) /\ Edits(SubSeq(before, 1, Len(before) - n), after)
CutRight(n) == n \in 1..Len(after) /\ Edits(before, SubSeq(after, n + 1, Len(after)))

Jump(n) ==
  LET text == before \o after
  IN /\ before' = SubSeq(text, 1, n) /\ after' = SubSeq(text, n + 1, Len(text))
     /\ UNCHANGED <<past, age, overwrite>>

\* Completion adds to the end and, unlike an edit, leaves the place in the past.
Complete(suffix) ==
  /\ after = <<>> /\ Len(before) + Len(suffix) <= LineMax
  /\ before' = before \o suffix
  /\ UNCHANGED <<after, past, age, overwrite>>

Shows(a) ==
  /\ age' = a
  /\ before' = IF a = NotBrowsing THEN <<>> ELSE past[a + 1]
  /\ after' = <<>>
  /\ UNCHANGED <<past, overwrite>>

Older == past # <<>> /\ Shows(IF age + 1 < Len(past) THEN age + 1 ELSE Len(past) - 1)

\* Past the newest line, and also when no line is being browsed, the text goes.
Newer == Shows(IF age = NotBrowsing THEN NotBrowsing ELSE age - 1)

Toggle == overwrite' = ~overwrite /\ UNCHANGED <<before, after, past, age>>

Remembered(text) ==
  IF text = <<>> \/ (past # <<>> /\ past[1] = text) THEN past
  ELSE <<text>> \o SubSeq(past, 1, IF Len(past) < PastMax THEN Len(past) ELSE PastMax - 1)

Submit ==
  /\ past' = Remembered(before \o after)
  /\ before' = <<>> /\ after' = <<>> /\ age' = NotBrowsing
  /\ UNCHANGED overwrite

\* A ring-3 session ends in a monitor that remembers nothing.
Forget ==
  /\ before' = <<>> /\ after' = <<>> /\ past' = <<>> /\ age' = NotBrowsing
  /\ overwrite' = FALSE

Next ==
  \/ \E c \in Chars : Type(c)
  \/ \E n \in 1..LineMax : CutLeft(n) \/ CutRight(n)
  \/ \E n \in 0..Len(before) + Len(after) : Jump(n)
  \/ \E suffix \in UNION {[1..n -> Chars] : n \in 1..LineMax} : Complete(suffix)
  \/ Older \/ Newer \/ Toggle \/ Submit \/ Forget

Spec == Init /\ [][Next]_vars
===============================================================================
