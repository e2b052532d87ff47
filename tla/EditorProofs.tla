----------------------------- MODULE EditorProofs -----------------------------
(* Proofs about Editor, for every line length, history capacity, alphabet and *)
(* list of commands.                                                          *)
EXTENDS Editor, WellFoundedInduction, TLAPS

USE SMTT(90)

-----------------------------------------------------------------------------
(* Facts about sequences, the few that are used: every theorem a module      *)
(* imports is a hypothesis of each of its steps.                             *)

LEMMA CellInSet ==
  ASSUME NEW S, NEW seq \in Seq(S), NEW n \in 1..Len(seq)
  PROVE  seq[n] \in S
  OBVIOUS

LEMMA NoCells ==
  ASSUME NEW S
  PROVE  /\ <<>> \in Seq(S) /\ Len(<<>>) = 0
         /\ \A q \in Seq(S) : q # <<>> => Len(q) \in Nat \ {0}
  OBVIOUS

LEMMA Cells ==
  ASSUME NEW S, NEW q \in Seq(S)
  PROVE  Len(q) \in Nat /\ q \in [1..Len(q) -> S] /\ DOMAIN q = 1..Len(q)
  OBVIOUS

LEMMA SameCells ==
  ASSUME NEW S, NEW p \in Seq(S), NEW q \in Seq(S),
         Len(p) = Len(q), \A i \in 1..Len(p) : p[i] = q[i]
  PROVE  p = q
  OBVIOUS

LEMMA Joins ==
  ASSUME NEW S, NEW p \in Seq(S), NEW q \in Seq(S)
  PROVE  /\ p \o q \in Seq(S) /\ Len(p \o q) = Len(p) + Len(q)
         /\ \A i \in 1..Len(p) + Len(q) :
              (p \o q)[i] = IF i <= Len(p) THEN p[i] ELSE q[i - Len(p)]
  OBVIOUS

LEMMA JoinsNothing ==
  ASSUME NEW S, NEW q \in Seq(S)
  PROVE  q \o <<>> = q /\ <<>> \o q = q
  OBVIOUS

LEMMA CutsOut ==
  ASSUME NEW S, NEW q, NEW m \in Int, NEW n \in Int, \A i \in m..n : q[i] \in S
  PROVE  /\ SubSeq(q, m, n) \in Seq(S)
         /\ Len(SubSeq(q, m, n)) = IF m <= n THEN n - m + 1 ELSE 0
         /\ \A i \in 1..n - m + 1 : SubSeq(q, m, n)[i] = q[m + i - 1]
  OBVIOUS

LEMMA AppendsOne ==
  ASSUME NEW S, NEW q \in Seq(S), NEW e \in S
  PROVE  /\ Append(q, e) \in Seq(S) /\ Append(q, e) # <<>>
         /\ Len(Append(q, e)) = Len(q) + 1
         /\ \A i \in 1..Len(q) : Append(q, e)[i] = q[i]
         /\ Append(q, e)[Len(q) + 1] = e
  OBVIOUS

-----------------------------------------------------------------------------
(* What the operations on a line do to the text around its cursor. *)

-----------------------------------------------------------------------------
(* Least and greatest elements. *)

LEMMA NatMin ==
  ASSUME NEW T, T \subseteq Nat, T # {}
  PROVE  \E x \in T : \A y \in T : x <= y
<1> DEFINE R == {ss \in Nat \X Nat : ss[1] < ss[2]}
<1>1. IsWellFoundedOn(R, Nat)  BY NatLessThanWellFounded, Zenon DEF OpToRel
<1> HIDE DEF R
<1>2. \E x \in T : \A y \in T : ~ (<<y, x>> \in R)  BY <1>1, WFMin, Zenon
<1>3. PICK x \in T : \A y \in T : ~ (<<y, x>> \in R)  BY <1>2, Zenon
<1>4. ASSUME NEW y \in T PROVE x <= y
  <2>1. x \in Nat /\ y \in Nat  BY <1>3, <1>4, Zenon
  <2>2. y < x => <<y, x>> \in R  BY <2>1, Zenon DEF R
  <2> QED BY <1>3, <2>1, <2>2
<1> QED BY <1>3, <1>4, Zenon

LEMMA NatMax ==
  ASSUME NEW n \in Nat, NEW T, T \subseteq 0..n, T # {}
  PROVE  \E x \in T : \A y \in T : y <= x
<1> DEFINE D == {n - x : x \in T}
<1>0. \A x \in T : x \in Int /\ 0 <= x /\ x <= n  OBVIOUS
<1>1. D \subseteq Nat /\ D # {}
  <2>1. \A x \in T : n - x \in Nat  BY <1>0
  <2> QED BY <2>1, Zenon
<1>2. PICK d \in D : \A e \in D : d <= e  BY <1>1, NatMin, Zenon
<1>3. PICK x \in T : d = n - x  BY <1>2, Zenon
<1>4. ASSUME NEW y \in T PROVE y <= x
  <2>1. n - x <= n - y  BY <1>2, <1>3, Zenon
  <2> QED BY <2>1, <1>3
<1> QED BY <1>3, <1>4, Zenon

-----------------------------------------------------------------------------
(* Walking over bytes of one kind. *)

\* A walk to the left ends: at its start, or at the first byte of another kind.
LEMMA WalksLeft ==
  ASSUME NEW l \in Lines, NEW p \in 0..l.len, NEW kind
  PROVE  /\ WalkLeft(l, p, kind) \in 0..p
         /\ Run(l, WalkLeft(l, p, kind), p, kind)
         /\ WalkLeft(l, p, kind) > 0 => l.bytes[WalkLeft(l, p, kind) - 1] \notin kind
<1> DEFINE T == {q \in 0..p : Run(l, q, p, kind)}
<1>0. p \in Nat  BY DEF Lines
<1>1. p \in T  BY <1>0 DEF Run
<1>2. T \subseteq Nat /\ T # {}  BY <1>0, <1>1
<1>3. PICK q \in T : \A r \in T : q <= r  BY ONLY <1>2, NatMin, Zenon
<1>4. q \in 0..p /\ Run(l, q, p, kind)  BY <1>3, Zenon
<1>5. q > 0 => l.bytes[q - 1] \notin kind
  <2> SUFFICES ASSUME q > 0, l.bytes[q - 1] \in kind PROVE FALSE  BY Zenon
  <2>1. q - 1 \in 0..p  BY <1>0, <1>4
  <2>2. Run(l, q - 1, p, kind)  BY <1>0, <1>4 DEF Run
  <2>3. q - 1 \in T  BY <2>1, <2>2, Zenon
  <2> QED BY <1>3, <1>4, <2>3
<1>6. \E x \in 0..p : Run(l, x, p, kind) /\ (x > 0 => l.bytes[x - 1] \notin kind)
  BY <1>4, <1>5, Zenon
<1> QED BY <1>6, Zenon DEF WalkLeft

\* And one to the right: at the end of the line, or at the first such byte.
LEMMA WalksRight ==
  ASSUME NEW l \in Lines, NEW p \in 0..l.len, NEW kind
  PROVE  /\ WalkRight(l, p, kind) \in p..l.len
         /\ Run(l, p, WalkRight(l, p, kind), kind)
         /\ WalkRight(l, p, kind) < l.len => l.bytes[WalkRight(l, p, kind)] \notin kind
<1> DEFINE T == {q \in p..l.len : Run(l, p, q, kind)}
<1>0. p \in Nat /\ l.len \in Nat  BY DEF Lines
<1>1. p \in T  BY <1>0 DEF Run
<1>2. T \subseteq 0..l.len /\ T # {}  BY <1>0, <1>1
<1>3. PICK q \in T : \A r \in T : r <= q  BY ONLY <1>0, <1>2, NatMax, Zenon
<1>4. q \in p..l.len /\ Run(l, p, q, kind)  BY <1>3, Zenon
<1>5. q < l.len => l.bytes[q] \notin kind
  <2> SUFFICES ASSUME q < l.len, l.bytes[q] \in kind PROVE FALSE  BY Zenon
  <2>1. q + 1 \in p..l.len  BY <1>0, <1>4
  <2>2. Run(l, p, q + 1, kind)  BY <1>0, <1>4 DEF Run
  <2>3. q + 1 \in T  BY <2>1, <2>2, Zenon
  <2> QED BY <1>0, <1>3, <1>4, <2>3
<1>6. \E x \in p..l.len : Run(l, p, x, kind) /\ (x < l.len => l.bytes[x] \notin kind)
  BY <1>4, <1>5, Zenon
<1> QED BY <1>6, Zenon DEF WalkRight

LEMMA LineFacts ==
  ASSUME NEW l \in Lines
  PROVE  /\ INPUT_LINE_MAX \in Nat \ {0}
         /\ l.bytes \in [Index -> Bytes]
         /\ l.len \in Nat /\ l.cursor \in Nat
         /\ l.cursor <= l.len /\ l.len <= INPUT_LINE_MAX
         /\ l = [bytes |-> l.bytes, len |-> l.len, cursor |-> l.cursor]
  BY LineAssumption DEF Lines

\* The boundary to the left of the cursor, if there is anything to the left.
LEMMA PreviousBoundary ==
  ASSUME NEW l \in Lines
  PROVE  LET b == previous_word_boundary(l)
         IN /\ b \in 0..l.cursor
            /\ l.cursor > 0 => b < l.cursor /\ ~MidWord(l, b)
<1> DEFINE s == WalkLeft(l, l.cursor, SpaceBytes)
           w == WalkLeft(l, s, WordBytes)
           o == WalkLeft(l, l.cursor, OtherBytes)
<1>0. /\ l.len \in Nat /\ l.cursor \in Nat /\ l.cursor <= l.len /\ l.len <= INPUT_LINE_MAX
      /\ l.bytes \in [Index -> Bytes] /\ INPUT_LINE_MAX \in Nat
  BY LineFacts, Zenon
<1>1. l.cursor \in 0..l.len  BY <1>0
<1>2. /\ s \in 0..l.cursor /\ Run(l, s, l.cursor, SpaceBytes)
      /\ s > 0 => l.bytes[s - 1] \notin SpaceBytes
  BY <1>1, WalksLeft, Zenon
<1>3. /\ o \in 0..l.cursor /\ Run(l, o, l.cursor, OtherBytes)
      /\ o > 0 => l.bytes[o - 1] \notin OtherBytes
  BY <1>1, WalksLeft, Zenon
<1> HIDE DEF s, o
<1>4. s \in 0..l.len  BY <1>0, <1>2
<1>5. /\ w \in 0..s
      /\ w > 0 => l.bytes[w - 1] \notin WordBytes
  BY <1>4, WalksLeft, Zenon
<1> HIDE DEF w
<1>6. CASE w # l.cursor
  <2>1. previous_word_boundary(l) = w  BY <1>6, Zenon DEF previous_word_boundary, w, s
  <2>2. w \in 0..l.cursor /\ w < l.cursor  BY <1>0, <1>2, <1>5, <1>6
  <2>3. ~MidWord(l, w)  BY <1>5, <2>2 DEF MidWord
  <2> QED BY <2>1, <2>2, <2>3, Zenon
<1>7. CASE w = l.cursor
  <2>1. previous_word_boundary(l) = o  BY <1>7, Zenon DEF previous_word_boundary, w, s, o
  <2>2. s = l.cursor  BY <1>0, <1>2, <1>5, <1>7
  <2>3. ASSUME l.cursor > 0 PROVE o < l.cursor /\ ~MidWord(l, o)
    <3>1. l.cursor - 1 \in Index  BY <1>0, <2>3 DEF Index
    <3>2. l.bytes[l.cursor - 1] \in OtherBytes
      BY <1>0, <1>2, <1>5, <1>7, <2>2, <2>3, <3>1, Zenon DEF OtherBytes
    <3>3. o < l.cursor  BY <1>0, <1>3, <2>3, <3>2
    <3>4. l.bytes[o] \in OtherBytes  BY <1>0, <1>3, <3>3 DEF Run
    <3>5. ~MidWord(l, o)  BY <3>4, Zenon DEF MidWord, OtherBytes
    <3> QED BY <3>3, <3>5, Zenon
  <2> QED BY <1>3, <2>1, <2>3, Zenon
<1> QED BY <1>6, <1>7, Zenon

\* And to the right.
LEMMA NextBoundary ==
  ASSUME NEW l \in Lines
  PROVE  LET b == next_word_boundary(l)
         IN /\ b \in l.cursor..l.len
            /\ l.cursor < l.len => b > l.cursor /\ ~MidWord(l, b)
<1> DEFINE s == WalkRight(l, l.cursor, SpaceBytes)
           w == WalkRight(l, s, WordBytes)
           o == WalkRight(l, l.cursor, OtherBytes)
<1>0. /\ l.len \in Nat /\ l.cursor \in Nat /\ l.cursor <= l.len /\ l.len <= INPUT_LINE_MAX
      /\ l.bytes \in [Index -> Bytes] /\ INPUT_LINE_MAX \in Nat
  BY LineFacts, Zenon
<1>1. l.cursor \in 0..l.len  BY <1>0
<1>2. /\ s \in l.cursor..l.len
      /\ s < l.len => l.bytes[s] \notin SpaceBytes
  BY <1>1, WalksRight, Zenon
<1>3. /\ o \in l.cursor..l.len /\ Run(l, l.cursor, o, OtherBytes)
      /\ o < l.len => l.bytes[o] \notin OtherBytes
  BY <1>1, WalksRight, Zenon
<1> HIDE DEF s, o
<1>4. s \in 0..l.len  BY <1>0, <1>2
<1>5. /\ w \in s..l.len
      /\ w < l.len => l.bytes[w] \notin WordBytes
  BY <1>4, WalksRight, Zenon
<1> HIDE DEF w
<1>6. CASE w # l.cursor
  <2>1. next_word_boundary(l) = w  BY <1>6, Zenon DEF next_word_boundary, w, s
  <2>2. w \in l.cursor..l.len /\ w > l.cursor  BY <1>0, <1>2, <1>5, <1>6
  <2>3. ~MidWord(l, w)  BY <1>0, <1>5, <2>2 DEF MidWord
  <2> QED BY <2>1, <2>2, <2>3, Zenon
<1>7. CASE w = l.cursor
  <2>1. next_word_boundary(l) = o  BY <1>7, Zenon DEF next_word_boundary, w, s, o
  <2>2. s = l.cursor  BY <1>0, <1>2, <1>5, <1>7
  <2>3. ASSUME l.cursor < l.len PROVE o > l.cursor /\ ~MidWord(l, o)
    <3>1. l.cursor \in Index  BY <1>0, <2>3 DEF Index
    <3>2. l.bytes[l.cursor] \in OtherBytes
      BY <1>0, <1>2, <1>5, <1>7, <2>2, <2>3, <3>1, Zenon DEF OtherBytes
    <3>3. o > l.cursor  BY <1>0, <1>3, <2>3, <3>2
    <3>4. l.bytes[o - 1] \in OtherBytes  BY <1>0, <1>3, <3>3 DEF Run
    <3>5. ~MidWord(l, o)  BY <3>4, Zenon DEF MidWord, OtherBytes
    <3> QED BY <3>3, <3>5, Zenon
  <2> QED BY <1>3, <2>1, <2>3, Zenon
<1> QED BY <1>6, <1>7, Zenon

-----------------------------------------------------------------------------
(* The line as a text around the cursor. *)

\* What Before, After and Text are, byte by byte.
LEMMA Views ==
  ASSUME NEW l \in Lines
  PROVE  /\ Before(l) \in Seq(Bytes) /\ Len(Before(l)) = l.cursor
         /\ \A i \in 1..l.cursor : Before(l)[i] = l.bytes[i - 1]
         /\ After(l) \in Seq(Bytes) /\ Len(After(l)) = l.len - l.cursor
         /\ \A i \in 1..l.len - l.cursor : After(l)[i] = l.bytes[l.cursor + i - 1]
         /\ Text(l) \in Seq(Bytes) /\ Len(Text(l)) = l.len
         /\ \A i \in 1..l.len : Text(l)[i] = l.bytes[i - 1]
<1>0. /\ l.len \in Nat /\ l.cursor \in Nat /\ l.cursor <= l.len /\ l.len <= INPUT_LINE_MAX
      /\ l.bytes \in [Index -> Bytes] /\ INPUT_LINE_MAX \in Nat /\ l.len - l.cursor \in Nat
  BY LineFacts
<1>1. \A i \in 0..l.len - 1 : l.bytes[i] \in Bytes  BY <1>0 DEF Index
<1>2. Before(l) \in [1..l.cursor -> Bytes]  BY <1>0, <1>1 DEF Before
<1>3. After(l) \in [1..l.len - l.cursor -> Bytes]  BY <1>0, <1>1 DEF After
<1>4. Text(l) \in [1..l.len -> Bytes]  BY <1>0, <1>1 DEF Text
<1>5. Before(l) \in Seq(Bytes) /\ Len(Before(l)) = l.cursor  BY <1>0, <1>2
<1>6. After(l) \in Seq(Bytes) /\ Len(After(l)) = l.len - l.cursor  BY <1>0, <1>3
<1>7. Text(l) \in Seq(Bytes) /\ Len(Text(l)) = l.len  BY <1>0, <1>4
<1> QED BY <1>5, <1>6, <1>7, Zenon DEF Before, After, Text

\* The two parts make up the line.
LEMMA Parts ==
  ASSUME NEW l \in Lines
  PROVE  Before(l) \o After(l) = Text(l)
<1>0. l.len \in Nat /\ l.cursor \in Nat /\ l.cursor <= l.len  BY LineFacts, Zenon
<1>1. /\ Before(l) \in Seq(Bytes) /\ Len(Before(l)) = l.cursor
      /\ \A i \in 1..l.cursor : Before(l)[i] = l.bytes[i - 1]
      /\ After(l) \in Seq(Bytes) /\ Len(After(l)) = l.len - l.cursor
      /\ \A i \in 1..l.len - l.cursor : After(l)[i] = l.bytes[l.cursor + i - 1]
      /\ Text(l) \in Seq(Bytes) /\ Len(Text(l)) = l.len
      /\ \A i \in 1..l.len : Text(l)[i] = l.bytes[i - 1]
  BY Views, Zenon
<1> DEFINE s == Before(l) \o After(l)
<1>2. /\ s \in Seq(Bytes) /\ Len(s) = Len(Before(l)) + Len(After(l))
      /\ \A i \in 1..Len(Before(l)) + Len(After(l)) :
           s[i] = IF i <= Len(Before(l)) THEN Before(l)[i] ELSE After(l)[i - Len(Before(l))]
  BY <1>1, Joins, ZenonT(60)
<1> HIDE DEF s
<1>3. Len(s) = l.len  BY <1>0, <1>1, <1>2
<1>4. ASSUME NEW i \in 1..l.len PROVE s[i] = Text(l)[i]
  <2>1. CASE i <= l.cursor
    <3>1. i \in 1..l.cursor /\ i \in 1..Len(Before(l)) + Len(After(l))  BY <1>0, <1>1, <2>1
    <3>2. s[i] = Before(l)[i]  BY <1>0, <1>1, <1>2, <2>1, <3>1, Zenon
    <3>3. Before(l)[i] = l.bytes[i - 1]  BY <1>1, <3>1, Zenon
    <3> QED BY <1>1, <3>2, <3>3, Zenon
  <2>2. CASE i > l.cursor
    <3>1. i - l.cursor \in 1..l.len - l.cursor  BY <1>0, <2>2
    <3>2. s[i] = After(l)[i - l.cursor]  BY <1>0, <1>1, <1>2, <2>2
    <3>3. After(l)[i - l.cursor] = l.bytes[l.cursor + (i - l.cursor) - 1]  BY <1>1, <3>1, Zenon
    <3>4. l.cursor + (i - l.cursor) - 1 = i - 1  BY <1>0
    <3> QED BY <1>1, <3>2, <3>3, <3>4, Zenon
  <2> QED BY <1>0, <2>1, <2>2
<1>5. s = Text(l)  BY <1>1, <1>2, <1>3, <1>4, SameCells, Zenon
<1> QED BY <1>5, Zenon DEF s

LEMMA MakeLine ==
  ASSUME NEW b \in [Index -> Bytes], NEW n \in 0..INPUT_LINE_MAX, NEW c \in 0..n
  PROVE  [bytes |-> b, len |-> n, cursor |-> c] \in Lines
  BY LineAssumption DEF Lines

\* Lines that agree left of a common cursor, or right of it.
LEMMA SameBefore ==
  ASSUME NEW l \in Lines, NEW m \in Lines, m.cursor = l.cursor,
         \A i \in 0..l.cursor - 1 : m.bytes[i] = l.bytes[i]
  PROVE  Before(m) = Before(l)
<1>1. l.cursor \in Nat  BY LineFacts, Zenon
<1>2. \A i \in 1..l.cursor : m.bytes[i - 1] = l.bytes[i - 1]  BY <1>1
<1> QED BY <1>2, Zenon DEF Before

LEMMA SameAfter ==
  ASSUME NEW l \in Lines, NEW m \in Lines, m.len - m.cursor = l.len - l.cursor,
         \A i \in 1..l.len - l.cursor : m.bytes[m.cursor + i - 1] = l.bytes[l.cursor + i - 1]
  PROVE  After(m) = After(l)
  BY Zenon DEF After

\* The first bytes of the part before the cursor, the last ones of the part after.
LEMMA BeforeCut ==
  ASSUME NEW l \in Lines, NEW m \in Lines, m.cursor <= l.cursor,
         \A i \in 0..m.cursor - 1 : m.bytes[i] = l.bytes[i]
  PROVE  Before(m) = SubSeq(Before(l), 1, m.cursor)
<1>0. l.cursor \in Nat /\ m.cursor \in Nat  BY LineFacts, Zenon
<1>1. SubSeq(Before(l), 1, m.cursor) = [i \in 1..m.cursor |-> Before(l)[i]]
  BY <1>0, Views
<1>2. \A i \in 1..m.cursor : Before(l)[i] = m.bytes[i - 1]  BY <1>0, Views
<1> QED BY <1>1, <1>2, Zenon DEF Before

LEMMA AfterCut ==
  ASSUME NEW l \in Lines, NEW m \in Lines, NEW n \in 0..l.len - l.cursor,
         m.len - m.cursor = l.len - l.cursor - n,
         \A i \in 1..m.len - m.cursor :
           m.bytes[m.cursor + i - 1] = l.bytes[l.cursor + n + i - 1]
  PROVE  After(m) = SubSeq(After(l), n + 1, Len(After(l)))
<1>0. /\ l.len \in Nat /\ m.len \in Nat /\ l.cursor \in Nat /\ m.cursor \in Nat
      /\ l.cursor <= l.len /\ m.cursor <= m.len /\ n \in Nat
  BY LineFacts
<1> DEFINE k == l.len - l.cursor
           d == m.len - m.cursor
           s == SubSeq(After(l), n + 1, k)
<1>1. After(l) \in Seq(Bytes) /\ Len(After(l)) = k  BY Views, Zenon
<1>2. k \in Nat /\ d \in Nat /\ d = k - n  BY <1>0
<1>3. \A i \in 1..k : After(l)[i] = l.bytes[l.cursor + i - 1]  BY Views, Zenon
<1> HIDE DEF k, d
<1>4. s \in Seq(Bytes) /\ Len(s) = d /\ \A i \in 1..d : s[i] = After(l)[n + i]
  <2>1. \A i \in n + 1..k : i \in 1..Len(After(l))  BY <1>0, <1>1, <1>2
  <2>2. \A i \in n + 1..k : After(l)[i] \in Bytes  BY <1>1, <2>1, CellInSet, Zenon
  <2>3. /\ s \in Seq(Bytes) /\ Len(s) = IF n + 1 <= k THEN k - (n + 1) + 1 ELSE 0
        /\ \A i \in 1..k - (n + 1) + 1 : s[i] = After(l)[(n + 1) + i - 1]
    BY <1>0, <1>2, <2>2, CutsOut
  <2> HIDE DEF s
  <2>4. k - (n + 1) + 1 = d /\ \A i \in 1..d : (n + 1) + i - 1 = n + i  BY <1>0, <1>2
  <2>5. Len(s) = d  BY <1>0, <1>2, <2>3
  <2> QED BY <2>3, <2>4, <2>5, Zenon
<1> HIDE DEF s
<1>5. After(m) \in Seq(Bytes) /\ Len(After(m)) = d
      /\ \A i \in 1..d : After(m)[i] = m.bytes[m.cursor + i - 1]
  BY Views, Zenon DEF d
<1>6. ASSUME NEW i \in 1..d PROVE After(m)[i] = s[i]
  <2>1. n + i \in 1..k  BY <1>0, <1>2
  <2>2. s[i] = l.bytes[l.cursor + (n + i) - 1]  BY <1>3, <1>4, <2>1, Zenon
  <2>3. m.bytes[m.cursor + i - 1] = l.bytes[l.cursor + n + i - 1]  BY Zenon DEF d
  <2>4. l.cursor + n + i - 1 = l.cursor + (n + i) - 1  BY <1>0, <1>2
  <2> QED BY <1>5, <2>2, <2>3, <2>4, Zenon
<1>7. After(m) = s  BY <1>4, <1>5, <1>6, SameCells, Zenon
<1> QED BY <1>1, <1>7, Zenon DEF s

LEMMA BeforeAppend ==
  ASSUME NEW l \in Lines, NEW m \in Lines, NEW c \in Bytes, m.cursor = l.cursor + 1,
         \A i \in 0..l.cursor - 1 : m.bytes[i] = l.bytes[i], m.bytes[l.cursor] = c
  PROVE  Before(m) = Append(Before(l), c)
<1>0. l.cursor \in Nat /\ m.cursor \in Nat  BY LineFacts, Zenon
<1>1. /\ Before(l) \in Seq(Bytes) /\ Len(Before(l)) = l.cursor
      /\ \A i \in 1..l.cursor : Before(l)[i] = l.bytes[i - 1]
      /\ Before(m) \in Seq(Bytes) /\ Len(Before(m)) = m.cursor
      /\ \A i \in 1..m.cursor : Before(m)[i] = m.bytes[i - 1]
  BY Views, Zenon
<1>2. /\ Append(Before(l), c) \in Seq(Bytes) /\ Len(Append(Before(l), c)) = m.cursor
      /\ \A i \in 1..l.cursor : Append(Before(l), c)[i] = Before(l)[i]
      /\ Append(Before(l), c)[l.cursor + 1] = c
  BY <1>0, <1>1, AppendsOne
<1>3. ASSUME NEW i \in 1..m.cursor PROVE Before(m)[i] = Append(Before(l), c)[i]
  <2>1. CASE i = l.cursor + 1  BY <1>0, <1>1, <1>2, <2>1
  <2>2. CASE i \in 1..l.cursor  BY <1>0, <1>1, <1>2, <2>2
  <2>3. i = l.cursor + 1 \/ i \in 1..l.cursor  BY <1>0
  <2> QED BY <2>1, <2>2, <2>3, Zenon
<1> QED BY <1>1, <1>2, <1>3, SameCells, ZenonT(60)

-----------------------------------------------------------------------------
(* What each operation does to the two parts. *)

LEMMA InsertChar ==
  ASSUME NEW l \in Lines, NEW c \in Bytes
  PROVE  LET r == insert_char(l, c)
         IN /\ r \in Lines
            /\ IF l.len >= INPUT_LINE_MAX THEN r = l
               ELSE Before(r) = Append(Before(l), c) /\ After(r) = After(l)
<1> DEFINE r == insert_char(l, c)
<1>0. /\ l.len \in Nat /\ l.cursor \in Nat /\ l.cursor <= l.len /\ l.len <= INPUT_LINE_MAX
      /\ l.bytes \in [Index -> Bytes] /\ INPUT_LINE_MAX \in Nat
  BY LineFacts, Zenon
<1>1. CASE l.len >= INPUT_LINE_MAX  BY <1>1, Zenon DEF insert_char
<1>2. CASE l.len < INPUT_LINE_MAX
  <2> DEFINE b == [i \in Index |-> IF i = l.cursor THEN c
                                   ELSE IF i \in l.cursor + 1..l.len THEN l.bytes[i - 1]
                                   ELSE l.bytes[i]]
  <2>1. b \in [Index -> Bytes]
    <3>1. \A i \in Index : i \in l.cursor + 1..l.len => l.bytes[i - 1] \in Bytes
      BY <1>0 DEF Index
    <3> QED BY <1>0, <3>1, Zenon
  <2>2. r = [bytes |-> b, len |-> l.len + 1, cursor |-> l.cursor + 1]
    BY <1>0, <1>2 DEF insert_char
  <2>3. \A i \in 0..l.cursor - 1 : b[i] = l.bytes[i]  BY <1>0 DEF Index
  <2>4. b[l.cursor] = c  BY <1>0, <1>2 DEF Index
  <2>5. \A i \in l.cursor + 1..l.len : b[i] = l.bytes[i - 1]  BY <1>0, <1>2 DEF Index
  <2> HIDE DEF b, r
  <2>6. r \in Lines  BY <1>0, <1>2, <2>1, <2>2, MakeLine
  <2>7. r.bytes = b /\ r.len = l.len + 1 /\ r.cursor = l.cursor + 1  BY <2>2, Zenon
  <2>8. Before(r) = Append(Before(l), c)  BY <2>3, <2>4, <2>6, <2>7, BeforeAppend, Zenon
  <2>9. After(r) = After(l)
    <3>1. r.len - r.cursor = l.len - l.cursor  BY <1>0, <2>7
    <3>2. ASSUME NEW i \in 1..l.len - l.cursor
          PROVE  r.bytes[r.cursor + i - 1] = l.bytes[l.cursor + i - 1]
      <4>1. PICK j \in l.cursor + 1..l.len : j = l.cursor + i  BY <1>0
      <4>2. r.cursor + i - 1 = j /\ l.cursor + i - 1 = j - 1  BY <1>0, <2>7, <4>1
      <4>3. b[j] = l.bytes[j - 1]  BY <2>5, Zenon
      <4> QED BY <2>7, <4>2, <4>3, Zenon
    <3> QED BY <2>6, <3>1, <3>2, SameAfter, Zenon
  <2> QED BY <1>0, <1>2, <2>6, <2>8, <2>9 DEF r
<1> QED BY <1>0, <1>1, <1>2

LEMMA TypeChar ==
  ASSUME NEW l \in Lines, NEW c \in Bytes, NEW over \in BOOLEAN
  PROVE  LET r == insert_or_overwrite_char(l, c, over)
         IN /\ r \in Lines
            /\ \/ r = l
               \/ /\ over /\ l.cursor < l.len
                  /\ Before(r) = Append(Before(l), c) /\ After(r) = Tail(After(l))
               \/ /\ ~(over /\ l.cursor < l.len) /\ l.len < INPUT_LINE_MAX
                  /\ Before(r) = Append(Before(l), c) /\ After(r) = After(l)
<1> DEFINE r == insert_or_overwrite_char(l, c, over)
<1>0. /\ l.len \in Nat /\ l.cursor \in Nat /\ l.cursor <= l.len /\ l.len <= INPUT_LINE_MAX
      /\ l.bytes \in [Index -> Bytes] /\ INPUT_LINE_MAX \in Nat
      /\ l = [bytes |-> l.bytes, len |-> l.len, cursor |-> l.cursor]
  BY LineFacts, Zenon
<1>1. CASE over /\ l.cursor < l.len
  <2> DEFINE b == [l.bytes EXCEPT ![l.cursor] = c]
  <2>1. r = [bytes |-> b, len |-> l.len, cursor |-> l.cursor + 1]
    BY <1>0, <1>1, Zenon DEF insert_or_overwrite_char
  <2>2. b \in [Index -> Bytes]  BY <1>0, Zenon
  <2>3. \A i \in Index : b[i] = IF i = l.cursor THEN c ELSE l.bytes[i]  BY <1>0, Zenon
  <2> HIDE DEF b, r
  <2>4. r \in Lines  BY <1>0, <1>1, <2>1, <2>2, MakeLine
  <2>5. r.bytes = b /\ r.len = l.len /\ r.cursor = l.cursor + 1  BY <2>1, Zenon
  <2>6. Before(r) = Append(Before(l), c)
    <3>1. \A i \in 0..l.cursor - 1 : r.bytes[i] = l.bytes[i]
      BY <1>0, <1>1, <2>3, <2>5 DEF Index
    <3>2. r.bytes[l.cursor] = c  BY <1>0, <1>1, <2>3, <2>5 DEF Index
    <3> QED BY <2>4, <2>5, <3>1, <3>2, BeforeAppend, Zenon
  <2>7. After(r) = SubSeq(After(l), 1 + 1, Len(After(l)))
    <3>1. r.len - r.cursor = l.len - l.cursor - 1 /\ 1 \in 0..l.len - l.cursor
      BY <1>0, <1>1, <2>5
    <3>2. ASSUME NEW i \in 1..r.len - r.cursor
          PROVE  r.bytes[r.cursor + i - 1] = l.bytes[l.cursor + 1 + i - 1]
      BY <1>0, <1>1, <2>3, <2>5 DEF Index
    <3> QED BY <2>4, <3>1, <3>2, AfterCut, Zenon
  <2>8. Tail(After(l)) = SubSeq(After(l), 2, Len(After(l)))
    <3>1. After(l) \in Seq(Bytes)  BY Views, Zenon
    <3> QED BY <3>1
  <2>9. 1 + 1 = 2  OBVIOUS
  <2> QED BY <1>1, <2>4, <2>6, <2>7, <2>8, <2>9, Zenon DEF r
<1>2. CASE ~(over /\ l.cursor < l.len)
  <2>1. r = insert_char(l, c)  BY <1>2, Zenon DEF insert_or_overwrite_char
  <2> HIDE DEF r
  <2>2. /\ r \in Lines
        /\ IF l.len >= INPUT_LINE_MAX THEN r = l
           ELSE Before(r) = Append(Before(l), c) /\ After(r) = After(l)
    BY <2>1, InsertChar, Zenon
  <2>3. l.len >= INPUT_LINE_MAX \/ l.len < INPUT_LINE_MAX  BY <1>0
  <2>4. l.len < INPUT_LINE_MAX => ~(l.len >= INPUT_LINE_MAX)  BY <1>0
  <2> QED BY <1>2, <2>2, <2>3, <2>4, Zenon DEF r
<1> QED BY <1>1, <1>2, Zenon

\* A line from which the bytes from..to-1, with the cursor at one of their ends,
\* are cut.
LEMMA Cuts ==
  ASSUME NEW l \in Lines, NEW from \in Nat, NEW to \in Nat, from < to, to <= l.len
  PROVE  LET b == Shifted(l, from, to)
         IN /\ b \in [Index -> Bytes]
            /\ \A i \in 0..from - 1 : b[i] = l.bytes[i]
            /\ \A i \in from..l.len - (to - from) - 1 : b[i] = l.bytes[i + (to - from)]
<1> DEFINE b == Shifted(l, from, to)
<1>0. /\ l.len \in Nat /\ l.len <= INPUT_LINE_MAX
      /\ l.bytes \in [Index -> Bytes] /\ INPUT_LINE_MAX \in Nat
  BY LineFacts, Zenon
<1>1. \A i \in from..l.len - (to - from) - 1 : i \in Index /\ i + (to - from) \in Index
  BY <1>0 DEF Index
<1>2. b \in [Index -> Bytes]
  <2>1. \A i \in Index : i \in from..l.len - (to - from) - 1 =>
                           l.bytes[i + (to - from)] \in Bytes
    BY <1>0, <1>1, Zenon
  <2> QED BY <1>0, <2>1, Zenon DEF Shifted
<1>3. \A i \in 0..from - 1 : i \in Index /\ i \notin from..l.len - (to - from) - 1
  BY <1>0 DEF Index
<1>4. \A i \in 0..from - 1 : b[i] = l.bytes[i]  BY <1>3, Zenon DEF Shifted
<1>5. \A i \in from..l.len - (to - from) - 1 : b[i] = l.bytes[i + (to - from)]
  BY <1>1, Zenon DEF Shifted
<1> QED BY <1>2, <1>4, <1>5, Zenon

LEMMA CutsLeft ==
  ASSUME NEW l \in Lines, NEW n \in 1..l.cursor
  PROVE  LET r == [bytes |-> Shifted(l, l.cursor - n, l.cursor),
                   len |-> l.len - n, cursor |-> l.cursor - n]
         IN /\ r \in Lines
            /\ Before(r) = SubSeq(Before(l), 1, l.cursor - n) /\ After(r) = After(l)
<1> DEFINE b == Shifted(l, l.cursor - n, l.cursor)
           r == [bytes |-> b, len |-> l.len - n, cursor |-> l.cursor - n]
<1>0. /\ l.len \in Nat /\ l.cursor \in Nat /\ l.cursor <= l.len /\ l.len <= INPUT_LINE_MAX
      /\ n \in Nat /\ INPUT_LINE_MAX \in Nat /\ n <= l.cursor /\ 0 < n
  BY LineFacts
<1>1. l.cursor - n \in Nat /\ l.cursor - n < l.cursor  BY <1>0
<1>2. /\ b \in [Index -> Bytes]
      /\ \A i \in 0..(l.cursor - n) - 1 : b[i] = l.bytes[i]
      /\ \A i \in (l.cursor - n)..l.len - (l.cursor - (l.cursor - n)) - 1 :
           b[i] = l.bytes[i + (l.cursor - (l.cursor - n))]
  BY <1>0, <1>1, Cuts, ZenonT(60)
<1>3. l.cursor - (l.cursor - n) = n  BY <1>0
<1> HIDE DEF b
<1>4. r \in Lines  BY <1>0, <1>2, MakeLine
<1>5. r.bytes = b /\ r.len = l.len - n /\ r.cursor = l.cursor - n  BY Zenon
<1> HIDE DEF r
<1>6. Before(r) = SubSeq(Before(l), 1, r.cursor)
  <2>1. r.cursor <= l.cursor /\ \A i \in 0..r.cursor - 1 : r.bytes[i] = l.bytes[i]
    BY <1>0, <1>2, <1>5
  <2> QED BY <1>4, <2>1, BeforeCut, Zenon
<1>7. After(r) = After(l)
  <2>1. r.len - r.cursor = l.len - l.cursor  BY <1>0, <1>5
  <2>2. ASSUME NEW i \in 1..l.len - l.cursor
        PROVE  r.bytes[r.cursor + i - 1] = l.bytes[l.cursor + i - 1]
    <3>1. /\ r.cursor + i - 1 \in (l.cursor - n)..l.len - n - 1
          /\ (r.cursor + i - 1) + n = l.cursor + i - 1
      BY <1>0, <1>5
    <3>2. b[r.cursor + i - 1] = l.bytes[(r.cursor + i - 1) + n]  BY <1>2, <1>3, <3>1, Zenon
    <3> QED BY <1>5, <3>1, <3>2, Zenon
  <2> QED BY <1>4, <2>1, <2>2, SameAfter, Zenon
<1> QED BY <1>4, <1>5, <1>6, <1>7, Zenon DEF r, b

LEMMA CutsRight ==
  ASSUME NEW l \in Lines, NEW n \in 1..l.len - l.cursor
  PROVE  LET r == [bytes |-> Shifted(l, l.cursor, l.cursor + n),
                   len |-> l.len - n, cursor |-> l.cursor]
         IN /\ r \in Lines
            /\ Before(r) = Before(l) /\ After(r) = SubSeq(After(l), n + 1, Len(After(l)))
<1> DEFINE b == Shifted(l, l.cursor, l.cursor + n)
           r == [bytes |-> b, len |-> l.len - n, cursor |-> l.cursor]
<1>0. /\ l.len \in Nat /\ l.cursor \in Nat /\ l.cursor <= l.len /\ l.len <= INPUT_LINE_MAX
      /\ n \in Nat /\ INPUT_LINE_MAX \in Nat /\ l.cursor + n <= l.len /\ 0 < n
  BY LineFacts
<1>1. l.cursor + n \in Nat /\ l.cursor < l.cursor + n  BY <1>0
<1>2. /\ b \in [Index -> Bytes]
      /\ \A i \in 0..l.cursor - 1 : b[i] = l.bytes[i]
      /\ \A i \in l.cursor..l.len - ((l.cursor + n) - l.cursor) - 1 :
           b[i] = l.bytes[i + ((l.cursor + n) - l.cursor)]
  BY <1>0, <1>1, Cuts, ZenonT(60)
<1>3. (l.cursor + n) - l.cursor = n  BY <1>0
<1> HIDE DEF b
<1>4. r \in Lines
  <2>1. l.len - n \in 0..INPUT_LINE_MAX /\ l.cursor \in 0..l.len - n  BY <1>0
  <2> QED BY <1>2, <2>1, MakeLine, Zenon
<1>5. r.bytes = b /\ r.len = l.len - n /\ r.cursor = l.cursor  BY Zenon
<1> HIDE DEF r
<1>6. Before(r) = Before(l)  BY <1>2, <1>4, <1>5, SameBefore, Zenon
<1>7. After(r) = SubSeq(After(l), n + 1, Len(After(l)))
  <2>1. r.len - r.cursor = l.len - l.cursor - n /\ n \in 0..l.len - l.cursor
    BY <1>0, <1>5
  <2>2. ASSUME NEW i \in 1..r.len - r.cursor
        PROVE  r.bytes[r.cursor + i - 1] = l.bytes[l.cursor + n + i - 1]
    <3>1. /\ r.cursor + i - 1 \in l.cursor..l.len - n - 1
          /\ (r.cursor + i - 1) + n = l.cursor + n + i - 1
      BY <1>0, <1>5
    <3>2. b[r.cursor + i - 1] = l.bytes[(r.cursor + i - 1) + n]  BY <1>2, <1>3, <3>1, Zenon
    <3> QED BY <1>5, <3>1, <3>2, Zenon
  <2> QED BY <1>4, <2>1, <2>2, AfterCut, Zenon
<1> QED BY <1>4, <1>6, <1>7, Zenon DEF r, b

IsCutLeft(l, r) ==
  \E n \in 1..l.cursor : Before(r) = SubSeq(Before(l), 1, l.cursor - n) /\ After(r) = After(l)
IsCutRight(l, r) ==
  \E n \in 1..l.len - l.cursor :
    Before(r) = Before(l) /\ After(r) = SubSeq(After(l), n + 1, Len(After(l)))

LEMMA BackspaceCuts ==
  ASSUME NEW l \in Lines
  PROVE  backspace(l) \in Lines /\ (backspace(l) = l \/ IsCutLeft(l, backspace(l)))
<1>0. l.cursor \in Nat  BY LineFacts, Zenon
<1>1. CASE l.cursor = 0  BY <1>1, Zenon DEF backspace
<1>2. CASE l.cursor # 0
  <2>1. 1 \in 1..l.cursor  BY <1>0, <1>2
  <2>2. backspace(l) = [bytes |-> Shifted(l, l.cursor - 1, l.cursor),
                        len |-> l.len - 1, cursor |-> l.cursor - 1]
    BY <1>2, Zenon DEF backspace
  <2> QED BY <2>1, <2>2, CutsLeft, ZenonT(60) DEF IsCutLeft
<1> QED BY <1>1, <1>2, Zenon

LEMMA DeleteCuts ==
  ASSUME NEW l \in Lines
  PROVE  delete(l) \in Lines /\ (delete(l) = l \/ IsCutRight(l, delete(l)))
<1>0. /\ l.cursor \in Nat /\ l.len \in Nat
      /\ l = [bytes |-> l.bytes, len |-> l.len, cursor |-> l.cursor]
  BY LineFacts, Zenon
<1>1. CASE l.cursor >= l.len  BY <1>1, Zenon DEF delete
<1>2. CASE ~(l.cursor >= l.len)
  <2>1. 1 \in 1..l.len - l.cursor  BY <1>0, <1>2
  <2>2. delete(l) = [bytes |-> Shifted(l, l.cursor, l.cursor + 1),
                     len |-> l.len - 1, cursor |-> l.cursor]
    BY <1>0, <1>2, Zenon DEF delete
  <2> QED BY <2>1, <2>2, CutsRight, Zenon DEF IsCutRight
<1> QED BY <1>1, <1>2, Zenon

LEMMA WordLeftCuts ==
  ASSUME NEW l \in Lines
  PROVE  LET r == delete_word_left(l) IN r \in Lines /\ (r = l \/ IsCutLeft(l, r))
<1> DEFINE s == previous_word_boundary(l)
           n == l.cursor - s
           r == delete_word_left(l)
<1>0. /\ l.cursor \in Nat /\ l.len \in Nat /\ l.cursor <= l.len
      /\ l = [bytes |-> l.bytes, len |-> l.len, cursor |-> l.cursor]
  BY LineFacts, Zenon
<1>1. s \in 0..l.cursor  BY PreviousBoundary, Zenon
<1>2. r = IF s = l.cursor THEN l ELSE MoveTo(delete_range(l, s, l.cursor), s)
  BY Zenon DEF delete_word_left
<1> HIDE DEF s, r
<1>3. CASE s = l.cursor  BY <1>2, <1>3, Zenon DEF r
<1>4. CASE s # l.cursor
  <2>1. /\ n \in 1..l.cursor /\ s = l.cursor - n /\ l.cursor > s
        /\ l.len - (l.cursor - s) = l.len - n
    BY <1>0, <1>1, <1>4
  <2>2. ~(l.cursor <= s)  BY <1>0, <1>1, <2>1
  <2>3. r = [bytes |-> Shifted(l, s, l.cursor), len |-> l.len - (l.cursor - s), cursor |-> s]
    BY <1>2, <1>4, <2>2, Zenon DEF MoveTo, delete_range
  <2>4. r = [bytes |-> Shifted(l, l.cursor - n, l.cursor), len |-> l.len - n,
             cursor |-> l.cursor - n]
    BY <2>1, <2>3, Zenon
  <2> HIDE DEF n
  <2>5. r \in Lines /\ IsCutLeft(l, r)  BY <2>1, <2>4, CutsLeft, Zenon DEF IsCutLeft
  <2> QED BY <2>5, Zenon DEF r
<1> QED BY <1>3, <1>4, Zenon

LEMMA WordRightCuts ==
  ASSUME NEW l \in Lines
  PROVE  LET r == delete_word_right(l) IN r \in Lines /\ (r = l \/ IsCutRight(l, r))
<1> DEFINE e == next_word_boundary(l)
           n == e - l.cursor
           r == delete_word_right(l)
<1>0. /\ l.cursor \in Nat /\ l.len \in Nat /\ l.cursor <= l.len
      /\ l = [bytes |-> l.bytes, len |-> l.len, cursor |-> l.cursor]
  BY LineFacts, Zenon
<1>1. e \in l.cursor..l.len  BY NextBoundary, Zenon
<1>2. r = delete_range(l, l.cursor, e)  BY Zenon DEF delete_word_right
<1> HIDE DEF e, r
<1>3. CASE e <= l.cursor  BY <1>2, <1>3, Zenon DEF r, delete_range
<1>4. CASE ~(e <= l.cursor)
  <2>1. /\ n \in 1..l.len - l.cursor /\ e = l.cursor + n
        /\ ~(l.cursor > l.len - (e - l.cursor)) /\ l.len - (e - l.cursor) = l.len - n
    BY <1>0, <1>1, <1>4
  <2>2. r = [bytes |-> Shifted(l, l.cursor, e), len |-> l.len - (e - l.cursor),
             cursor |-> l.cursor]
    BY <1>2, <1>4, <2>1, Zenon DEF delete_range
  <2>3. r = [bytes |-> Shifted(l, l.cursor, l.cursor + n), len |-> l.len - n,
             cursor |-> l.cursor]
    BY <2>1, <2>2, Zenon
  <2> HIDE DEF n
  <2>4. r \in Lines /\ IsCutRight(l, r)  BY <2>1, <2>3, CutsRight, Zenon DEF IsCutRight
  <2> QED BY <2>4, Zenon DEF r
<1> QED BY <1>3, <1>4, Zenon

\* A move of the cursor cuts the same text elsewhere.
LEMMA Moves ==
  ASSUME NEW l \in Lines, NEW n \in 0..l.len
  PROVE  LET r == MoveTo(l, n)
         IN /\ r \in Lines /\ r.cursor = n /\ Text(r) = Text(l)
            /\ Before(r) = SubSeq(Text(l), 1, n)
            /\ After(r) = SubSeq(Text(l), n + 1, Len(Text(l)))
<1> DEFINE r == MoveTo(l, n)
           e == [bytes |-> l.bytes, len |-> l.len, cursor |-> l.len]
           h == [bytes |-> l.bytes, len |-> l.len, cursor |-> 0]
<1>0. /\ l.cursor \in Nat /\ l.len \in Nat /\ l.len <= INPUT_LINE_MAX
      /\ INPUT_LINE_MAX \in Nat /\ l.bytes \in [Index -> Bytes]
      /\ l = [bytes |-> l.bytes, len |-> l.len, cursor |-> l.cursor]
  BY LineFacts, Zenon
<1>1. r = [bytes |-> l.bytes, len |-> l.len, cursor |-> n]  BY <1>0 DEF MoveTo
<1> HIDE DEF r
<1>2. l.len \in 0..INPUT_LINE_MAX /\ l.len \in 0..l.len /\ 0 \in 0..l.len  BY <1>0
<1>3. r \in Lines /\ e \in Lines /\ h \in Lines  BY <1>0, <1>1, <1>2, MakeLine, Zenon
<1>4. r.bytes = l.bytes /\ r.len = l.len /\ r.cursor = n  BY <1>1, Zenon
<1>5. Before(e) = Text(l)  BY Zenon DEF Before, Text
<1>6. After(h) = Text(l)
  <2>1. l.len - 0 = l.len /\ \A i \in 1..l.len : 0 + i - 1 = i - 1  BY <1>0
  <2> QED BY <2>1, Zenon DEF After, Text
<1>7. Text(r) = Text(l)  BY <1>4, Zenon DEF Text
<1>8. Before(r) = SubSeq(Text(l), 1, n)
  <2>1. r.cursor <= e.cursor /\ \A i \in 0..r.cursor - 1 : r.bytes[i] = e.bytes[i]
    BY <1>0, <1>4
  <2>2. Before(r) = SubSeq(Before(e), 1, r.cursor)  BY <1>3, <2>1, BeforeCut, Zenon
  <2> QED BY <1>4, <1>5, <2>2, Zenon
<1>9. After(r) = SubSeq(Text(l), n + 1, Len(Text(l)))
  <2>1. n \in 0..h.len - h.cursor /\ r.len - r.cursor = h.len - h.cursor - n
    BY <1>0, <1>4
  <2>2. ASSUME NEW i \in 1..r.len - r.cursor
        PROVE  r.bytes[r.cursor + i - 1] = h.bytes[h.cursor + n + i - 1]
    <3>1. h.cursor + n + i - 1 = r.cursor + i - 1  BY <1>0, <1>4
    <3> QED BY <1>4, <3>1, Zenon
  <2> HIDE DEF h
  <2>3. After(r) = SubSeq(After(h), n + 1, Len(After(h)))  BY <1>3, <2>1, <2>2, AfterCut, Zenon
  <2> QED BY <1>6, <2>3, Zenon
<1> QED BY <1>3, <1>4, <1>7, <1>8, <1>9, Zenon DEF r

LEMMA TextFacts ==
  ASSUME NEW t \in LineTexts
  PROVE  t \in Seq(Bytes) /\ Len(t) \in 0..INPUT_LINE_MAX /\ t \in [1..Len(t) -> Bytes]
<1>1. PICK n \in 0..INPUT_LINE_MAX : t \in [1..n -> Bytes]  BY Zenon DEF LineTexts
<1>2. n \in Nat  BY LineAssumption
<1>3. t \in Seq(Bytes) /\ Len(t) = n  BY <1>1, <1>2
<1> QED BY <1>1, <1>3, Zenon

LEMMA TextOfLine ==
  ASSUME NEW l \in Lines
  PROVE  Text(l) \in LineTexts
<1>1. l.len \in 0..INPUT_LINE_MAX /\ l.len \in Nat  BY LineFacts, LineAssumption
<1>2. Text(l) \in Seq(Bytes) /\ Len(Text(l)) = l.len  BY Views, Zenon
<1>3. Text(l) \in [1..l.len -> Bytes]  BY <1>1, <1>2
<1> QED BY <1>1, <1>3, Zenon DEF LineTexts

LEMMA Sets ==
  ASSUME NEW l \in Lines, NEW t \in LineTexts
  PROVE  LET r == set_from_str(l, t)
         IN r \in Lines /\ Before(r) = t /\ After(r) = <<>> /\ Text(r) = t
<1> DEFINE b == [i \in Index |-> IF i < Len(t) THEN t[i + 1] ELSE l.bytes[i]]
           r == set_from_str(l, t)
<1>0. /\ l.bytes \in [Index -> Bytes] /\ INPUT_LINE_MAX \in Nat
      /\ t \in Seq(Bytes) /\ Len(t) \in Nat /\ Len(t) <= INPUT_LINE_MAX
      /\ t \in [1..Len(t) -> Bytes]
  BY LineFacts, TextFacts
<1>1. r = [bytes |-> b, len |-> Len(t), cursor |-> Len(t)]  BY <1>0 DEF set_from_str
<1>2. b \in [Index -> Bytes]
  <2>1. \A i \in Index : i < Len(t) => i + 1 \in 1..Len(t)  BY <1>0 DEF Index
  <2> QED BY <1>0, <2>1, Zenon
<1>3. \A i \in 1..Len(t) : b[i - 1] = t[i]
  <2> TAKE i \in 1..Len(t)
  <2>1. i - 1 \in Index /\ i - 1 < Len(t) /\ (i - 1) + 1 = i  BY <1>0 DEF Index
  <2> QED BY <2>1, Zenon
<1> HIDE DEF b, r
<1>4. r \in Lines  BY <1>0, <1>1, <1>2, MakeLine
<1>5. r.bytes = b /\ r.len = Len(t) /\ r.cursor = Len(t)  BY <1>1, Zenon
<1>6. t = [i \in 1..Len(t) |-> t[i]]  BY <1>0, Zenon
<1>7. Before(r) = t /\ Text(r) = t  BY <1>3, <1>5, <1>6, Zenon DEF Before, Text
<1>8. After(r) = <<>>
  <2>1. r.len - r.cursor = 0  BY <1>0, <1>5
  <2>2. After(r) \in Seq(Bytes) /\ Len(After(r)) = 0  BY <1>4, <2>1, Views, Zenon
  <2> QED BY <2>2, NoCells, Zenon
<1> QED BY <1>4, <1>7, <1>8, Zenon DEF r

LEMMA EmptyLine ==
  ASSUME NEW l \in Lines, l.len = 0, l.cursor = 0
  PROVE  Before(l) = <<>> /\ After(l) = <<>> /\ Text(l) = <<>>
<1>1. Len(Before(l)) = 0 /\ Len(After(l)) = 0 /\ Len(Text(l)) = 0  BY Views
<1>2. Before(l) \in Seq(Bytes) /\ After(l) \in Seq(Bytes) /\ Text(l) \in Seq(Bytes)  BY Views, Zenon
<1> QED BY <1>1, <1>2, NoCells, Zenon

LEMMA Clears ==
  ASSUME NEW l \in Lines
  PROVE  LET r == clear(l)
         IN r \in Lines /\ Before(r) = <<>> /\ After(r) = <<>> /\ Text(r) = <<>>
<1> DEFINE r == clear(l)
<1>0. INPUT_LINE_MAX \in Nat /\ l.bytes \in [Index -> Bytes]  BY LineFacts, Zenon
<1>1. r = [[l EXCEPT !.len = 0] EXCEPT !.cursor = 0]  BY Zenon DEF clear
<1> DEFINE q == [l EXCEPT !.len = 0]
<1>2. q = [bytes |-> l.bytes, len |-> 0, cursor |-> l.cursor]  BY DEF Lines
<1>3. r = [bytes |-> l.bytes, len |-> 0, cursor |-> 0]  BY <1>1, <1>2, Zenon
<1>4. r \in Lines /\ r.len = 0 /\ r.cursor = 0  BY <1>0, <1>3, MakeLine
<1> QED BY <1>4, EmptyLine, Zenon

LEMMA New == NewLine \in Lines /\ NewLine.len = 0 /\ NewLine.cursor = 0
<1>1. INPUT_LINE_MAX \in Nat /\ [i \in Index |-> Zero] \in [Index -> Bytes]  BY LineAssumption, Zenon
<1> QED BY <1>1, MakeLine DEF NewLine

\* Completion: the suffix of a name goes behind the line.
LEMMA Appends ==
  ASSUME NEW l \in Lines, l.cursor = l.len, NEW t \in Seq(Bytes),
         l.len + Len(t) <= INPUT_LINE_MAX
  PROVE  LET r == append_str(l, t)
         IN /\ r \in Lines /\ r.len = l.len + Len(t) /\ r.cursor = r.len
            /\ Before(r) = Before(l) \o t /\ After(r) = <<>>
            /\ \A i \in 1..l.len : Text(r)[i] = Text(l)[i]
<1> DEFINE n == Len(t)
           b == [i \in Index |-> IF i \in l.cursor..l.cursor + n - 1 THEN t[i - l.cursor + 1]
                                 ELSE IF i \in l.cursor + n..l.len + n - 1 THEN l.bytes[i - n]
                                 ELSE l.bytes[i]]
           r == append_str(l, t)
<1>0. /\ l.len \in Nat /\ l.cursor \in Nat /\ l.len <= INPUT_LINE_MAX
      /\ l.bytes \in [Index -> Bytes] /\ INPUT_LINE_MAX \in Nat
      /\ n \in Nat /\ l.len + n <= INPUT_LINE_MAX /\ ~(l.len + n > INPUT_LINE_MAX)
  BY LineFacts, Cells
<1>1. r = [bytes |-> b, len |-> l.len + n, cursor |-> l.cursor + n]  BY <1>0, Zenon DEF append_str
<1>2. \A i \in 1..n : t[i] \in Bytes  BY CellInSet, Zenon
<1> HIDE DEF n
<1>3. \A i \in Index : /\ i \notin l.cursor + n..l.len + n - 1
                       /\ i \in l.cursor..l.cursor + n - 1 => i - l.cursor + 1 \in 1..n
  BY <1>0 DEF Index
<1>4. b = [i \in Index |-> IF i \in l.cursor..l.cursor + n - 1 THEN t[i - l.cursor + 1]
                           ELSE l.bytes[i]]
  BY <1>3, Zenon
<1> HIDE DEF b, r
<1>5. b \in [Index -> Bytes]  BY <1>0, <1>2, <1>3, <1>4, Zenon
<1>6. \A i \in 1..l.len : b[i - 1] = l.bytes[i - 1]
  <2> TAKE i \in 1..l.len
  <2>1. i - 1 \in Index /\ i - 1 \notin l.cursor..l.cursor + n - 1  BY <1>0 DEF Index
  <2> QED BY <1>4, <2>1, Zenon
<1>7. \A i \in 1..n : b[l.len + i - 1] = t[i]
  <2> TAKE i \in 1..n
  <2>1. PICK j \in Index : j = l.len + i - 1  BY <1>0 DEF Index
  <2>2. j \in l.cursor..l.cursor + n - 1 /\ j - l.cursor + 1 = i  BY <1>0, <2>1
  <2>3. b[j] = t[j - l.cursor + 1]  BY <1>4, <2>2, Zenon
  <2> QED BY <2>1, <2>2, <2>3, Zenon
<1>8. r \in Lines  BY <1>0, <1>1, <1>5, MakeLine
<1>9. r.bytes = b /\ r.len = l.len + n /\ r.cursor = l.len + n  BY <1>1, Zenon
<1>10. \A i \in 1..l.len : Text(r)[i] = Text(l)[i]
  <2> TAKE i \in 1..l.len
  <2>1. i \in 1..r.len  BY <1>0, <1>9
  <2>2. Text(r)[i] = r.bytes[i - 1] /\ Text(l)[i] = l.bytes[i - 1]  BY <1>8, <2>1, Views, Zenon
  <2> QED BY <1>6, <1>9, <2>2, Zenon
<1>11. After(r) = <<>>
  <2>1. r.len - r.cursor = 0  BY <1>0, <1>9
  <2>2. After(r) \in Seq(Bytes) /\ Len(After(r)) = 0  BY <1>8, <2>1, Views, Zenon
  <2> QED BY <2>2, NoCells, Zenon
<1>12. Before(r) = Before(l) \o t
  <2> DEFINE s == Before(l) \o t
  <2>1. /\ Before(l) \in Seq(Bytes) /\ Len(Before(l)) = l.len
        /\ \A i \in 1..l.len : Before(l)[i] = l.bytes[i - 1]
        /\ Before(r) \in Seq(Bytes) /\ Len(Before(r)) = l.len + n
        /\ \A i \in 1..l.len + n : Before(r)[i] = b[i - 1]
    BY <1>8, <1>9, Views, Zenon
  <2>2. /\ s \in Seq(Bytes) /\ Len(s) = l.len + n
        /\ \A i \in 1..l.len + n : s[i] = IF i <= l.len THEN Before(l)[i] ELSE t[i - l.len]
    <3>1. /\ s \in Seq(Bytes) /\ Len(s) = Len(Before(l)) + Len(t)
          /\ \A i \in 1..Len(Before(l)) + Len(t) :
               s[i] = IF i <= Len(Before(l)) THEN Before(l)[i] ELSE t[i - Len(Before(l))]
      BY <2>1, Joins, Zenon
    <3> HIDE DEF s
    <3> QED BY <2>1, <3>1, Zenon DEF n
  <2> HIDE DEF s
  <2>3. ASSUME NEW i \in 1..l.len + n PROVE Before(r)[i] = s[i]
    <3>1. CASE i <= l.len
      <4>1. i \in 1..l.len  BY <1>0, <3>1
      <4> QED BY <1>6, <2>1, <2>2, <3>1, <4>1
    <3>2. CASE ~(i <= l.len)
      <4>1. PICK j \in 1..n : j = i - l.len  BY <1>0, <3>2
      <4>2. l.len + j - 1 = i - 1  BY <1>0, <4>1
      <4>3. b[i - 1] = t[j]  BY <1>7, <4>2, Zenon
      <4> QED BY <2>1, <2>2, <3>2, <4>1, <4>3, Zenon
    <3> QED BY <3>1, <3>2, Zenon
  <2>4. Before(r) = s  BY <2>1, <2>2, <2>3, SameCells, Zenon
  <2> QED BY <2>4, Zenon DEF s
<1> QED BY <1>8, <1>9, <1>10, <1>11, <1>12, Zenon DEF r, n

-----------------------------------------------------------------------------
(* The editor. *)

-----------------------------------------------------------------------------
(* The ring of the history as a list, newest first. *)

C == HISTORY_CAPACITY

Histories == [entries : [Slots -> LineTexts], len : 0..C, next_insert : Slots,
              browsing_age : {None} \cup Slots]

PastOf(h) == [k \in 1..h.len |-> entry_by_age(h, k - 1)]

LEMMA Wraps ==
  ASSUME NEW x \in Nat, x < 2 * C
  PROVE  x % C = IF x < C THEN x ELSE x - C
  BY HistoryAssumption DEF C

LEMMA HistoryFacts ==
  ASSUME NEW h \in Histories
  PROVE  /\ C \in Nat \ {0}
         /\ h.len \in Nat /\ h.len <= C
         /\ h.next_insert \in Nat /\ h.next_insert < C
         /\ h.entries \in [Slots -> LineTexts]
         /\ h.browsing_age \in Int /\ -1 <= h.browsing_age /\ h.browsing_age < C
         /\ h.browsing_age = None \/ h.browsing_age \in Nat
  BY HistoryAssumption DEF Histories, Slots, None, C

\* The slot of an age, without the modulus.
LEMMA SlotOfAge ==
  ASSUME NEW h \in Histories, NEW a \in 0..C - 1
  PROVE  /\ SlotOf(h, a) = IF a < h.next_insert THEN h.next_insert - 1 - a
                           ELSE h.next_insert - 1 - a + C
         /\ SlotOf(h, a) \in Slots /\ entry_by_age(h, a) \in LineTexts
<1> DEFINE n == h.next_insert
           x == n + C - 1
           m == IF n = 0 THEN C - 1 ELSE n - 1
           y == m + C - a
<1>0. /\ C \in Nat \ {0} /\ n \in Nat /\ n < C /\ h.entries \in [Slots -> LineTexts]
      /\ a \in Nat /\ a < C
  BY HistoryFacts
<1> HIDE DEF n
<1>1. x \in Nat /\ x < 2 * C  BY <1>0
<1>2. x % C = m
  <2>1. x % C = IF x < C THEN x ELSE x - C  BY <1>1, Wraps, Zenon
  <2> QED BY <1>0, <2>1
<1>3. y \in Nat /\ y < 2 * C  BY <1>0
<1>4. y % C = IF a < n THEN n - 1 - a ELSE n - 1 - a + C
  <2>1. y % C = IF y < C THEN y ELSE y - C  BY <1>3, Wraps, Zenon
  <2> QED BY <1>0, <2>1
<1>5. SlotOf(h, a) = y % C
  <2>1. SlotOf(h, a) = ((x % C) + C - a) % C  BY Zenon DEF SlotOf, C, n
  <2> HIDE DEF m, x
  <2> QED BY <1>2, <2>1, Zenon
<1> HIDE DEF x, y, m
<1>6. SlotOf(h, a) = IF a < n THEN n - 1 - a ELSE n - 1 - a + C  BY <1>4, <1>5, Zenon
<1>7. SlotOf(h, a) \in Slots  BY <1>0, <1>6 DEF Slots, C
<1> QED BY <1>0, <1>6, <1>7, Zenon DEF entry_by_age, n

LEMMA PastFacts ==
  ASSUME NEW h \in Histories
  PROVE  /\ PastOf(h) \in Seq(LineTexts) /\ Len(PastOf(h)) = h.len
         /\ \A k \in 1..h.len : PastOf(h)[k] = entry_by_age(h, k - 1)
<1>0. h.len \in Nat /\ h.len <= C /\ C \in Nat  BY HistoryFacts, Zenon
<1>1. \A k \in 1..h.len : k - 1 \in 0..C - 1  BY <1>0
<1>2. \A k \in 1..h.len : entry_by_age(h, k - 1) \in LineTexts  BY <1>1, SlotOfAge, Zenon
<1>3. PastOf(h) \in [1..h.len -> LineTexts]  BY <1>2, Zenon DEF PastOf
<1>4. PastOf(h) \in Seq(LineTexts) /\ Len(PastOf(h)) = h.len  BY <1>0, <1>3
<1> QED BY <1>4, Zenon DEF PastOf

\* Browsing is no part of the list.
LEMMA Browsing ==
  ASSUME NEW h \in Histories, NEW a \in {None} \cup Slots
  PROVE  LET r == [h EXCEPT !.browsing_age = a]
         IN /\ r \in Histories /\ r.len = h.len /\ r.browsing_age = a
            /\ PastOf(r) = PastOf(h)
            /\ \A k : entry_by_age(r, k) = entry_by_age(h, k)
<1> DEFINE r == [h EXCEPT !.browsing_age = a]
<1>1. /\ r \in Histories /\ r.len = h.len /\ r.browsing_age = a
      /\ r.entries = h.entries /\ r.next_insert = h.next_insert
  BY Zenon DEF Histories
<1> HIDE DEF r
<1>2. \A k : entry_by_age(r, k) = entry_by_age(h, k)  BY <1>1, Zenon DEF entry_by_age, SlotOf
<1>3. PastOf(r) = PastOf(h)  BY <1>1, <1>2, Zenon DEF PastOf
<1> QED BY <1>1, <1>2, <1>3, Zenon DEF r

Recent(h) == IF h.len < C THEN h.len ELSE C - 1    \* the old entries that stay

\* A pushed line becomes age 0 and every entry that stays one older.
LEMMA PushEntries ==
  ASSUME NEW h \in Histories, NEW t \in LineTexts
  PROVE  LET r == [entries |-> [h.entries EXCEPT ![h.next_insert] = t],
                   len |-> IF h.len < C THEN h.len + 1 ELSE h.len,
                   next_insert |-> (h.next_insert + 1) % C, browsing_age |-> None]
         IN /\ r \in Histories /\ r.len = Recent(h) + 1 /\ r.browsing_age = None
            /\ entry_by_age(r, 0) = t
            /\ \A a \in 0..Recent(h) - 1 : entry_by_age(r, a + 1) = entry_by_age(h, a)
<1> DEFINE n == h.next_insert
           e == [h.entries EXCEPT ![n] = t]
           r == [entries |-> e, len |-> IF h.len < C THEN h.len + 1 ELSE h.len,
                 next_insert |-> (n + 1) % C, browsing_age |-> None]
<1>0. /\ C \in Nat \ {0} /\ n \in Nat /\ n < C /\ h.entries \in [Slots -> LineTexts]
      /\ h.len \in Nat /\ h.len <= C
  BY HistoryFacts, Zenon
<1>1. n \in Slots  BY <1>0 DEF Slots, C
<1>2. /\ e \in [Slots -> LineTexts] /\ e[n] = t
      /\ \A s \in Slots : s # n => e[s] = h.entries[s]
  BY <1>0, <1>1, Zenon
<1> HIDE DEF n, e
<1>3. (n + 1) % C = IF n + 1 < C THEN n + 1 ELSE n + 1 - C  BY <1>0, Wraps
<1>4. (n + 1) % C \in Slots  BY <1>0, <1>3 DEF Slots, C
<1>5. r \in Histories  BY <1>0, <1>2, <1>4 DEF Histories
<1>6. /\ r.entries = e /\ r.len = Recent(h) + 1 /\ r.browsing_age = None
      /\ r.next_insert = IF n + 1 < C THEN n + 1 ELSE n + 1 - C
  BY <1>0, <1>3 DEF Recent
<1> HIDE DEF r
<1>7. SlotOf(r, 0) = n
  <2>1. 0 \in 0..C - 1  BY <1>0
  <2>2. SlotOf(r, 0) = IF 0 < r.next_insert THEN r.next_insert - 1 - 0
                       ELSE r.next_insert - 1 - 0 + C
    BY <1>5, <2>1, SlotOfAge, Zenon
  <2> QED BY <1>0, <1>6, <2>2
<1>8. ASSUME NEW a \in 0..Recent(h) - 1
      PROVE  entry_by_age(r, a + 1) = entry_by_age(h, a)
  <2>1. a \in 0..C - 1 /\ a + 1 \in 0..C - 1  BY <1>0 DEF Recent
  <2>2. SlotOf(r, a + 1) = IF a + 1 < r.next_insert THEN r.next_insert - 1 - (a + 1)
                           ELSE r.next_insert - 1 - (a + 1) + C
    BY <1>5, <2>1, SlotOfAge, Zenon
  <2>3. /\ SlotOf(h, a) = IF a < n THEN n - 1 - a ELSE n - 1 - a + C
        /\ SlotOf(h, a) \in Slots
    BY <2>1, SlotOfAge, Zenon DEF n
  <2>4. SlotOf(r, a + 1) = SlotOf(h, a)  BY <1>0, <1>6, <2>1, <2>2, <2>3
  <2>5. SlotOf(h, a) # n  BY <1>0, <2>1, <2>3
  <2> QED BY <1>2, <1>6, <2>3, <2>4, <2>5, Zenon DEF entry_by_age
<1>9. entry_by_age(r, 0) = t  BY <1>2, <1>6, <1>7, Zenon DEF entry_by_age
<1> QED BY <1>5, <1>6, <1>8, <1>9, Zenon DEF r, e, n

RememberedIn(h, t) ==
  IF t = <<>> \/ (PastOf(h) # <<>> /\ PastOf(h)[1] = t) THEN PastOf(h)
  ELSE <<t>> \o SubSeq(PastOf(h), 1, Recent(h))

\* What Enter does to the history.
LEMMA Pushes ==
  ASSUME NEW h \in Histories, NEW t \in LineTexts
  PROVE  LET r == reset_browsing(push_line(h, t))
         IN /\ r \in Histories /\ r.browsing_age = None
            /\ PastOf(r) = RememberedIn(h, t)
<1> DEFINE p == push_line(h, t)
           r == reset_browsing(p)
<1>0. C \in Nat \ {0} /\ h.len \in Nat /\ h.len <= C /\ None \in {None} \cup Slots
  BY HistoryFacts, Zenon
<1>1. p \in Histories => r \in Histories /\ r.browsing_age = None /\ PastOf(r) = PastOf(p)
  BY <1>0, Browsing, Zenon DEF reset_browsing
<1>2. /\ PastOf(h) \in Seq(LineTexts) /\ Len(PastOf(h)) = h.len
      /\ \A k \in 1..h.len : PastOf(h)[k] = entry_by_age(h, k - 1)
  BY PastFacts, Zenon
<1>3. (PastOf(h) # <<>>) <=> h.len > 0  BY <1>0, <1>2, NoCells
<1>4. h.len > 0 => PastOf(h)[1] = entry_by_age(h, 0)
  <2>1. h.len > 0 => 1 \in 1..h.len  BY <1>0
  <2>2. 1 - 1 = 0  OBVIOUS
  <2> QED BY <1>2, <2>1, <2>2, Zenon
<1>5. CASE t = <<>>
  <2>1. p = h  BY <1>5, Zenon DEF push_line
  <2> QED BY <1>1, <1>5, <2>1, Zenon DEF RememberedIn
<1>6. CASE t # <<>> /\ h.len > 0 /\ entry_by_age(h, 0) = t
  <2>1. p = reset_browsing(h)  BY <1>6, Zenon DEF push_line
  <2>2. p \in Histories /\ PastOf(p) = PastOf(h)
    BY <1>0, <2>1, Browsing, Zenon DEF reset_browsing
  <2> QED BY <1>1, <1>3, <1>4, <1>6, <2>2, Zenon DEF RememberedIn
<1>7. CASE t # <<>> /\ ~(h.len > 0 /\ entry_by_age(h, 0) = t)
  <2>1. p = [entries |-> [h.entries EXCEPT ![h.next_insert] = t],
             len |-> IF h.len < C THEN h.len + 1 ELSE h.len,
             next_insert |-> (h.next_insert + 1) % C, browsing_age |-> None]
    BY <1>7, Zenon DEF push_line, C
  <2> HIDE DEF p
  <2>2. /\ p \in Histories /\ p.len = Recent(h) + 1
        /\ entry_by_age(p, 0) = t
        /\ \A a \in 0..Recent(h) - 1 : entry_by_age(p, a + 1) = entry_by_age(h, a)
    BY <2>1, PushEntries, ZenonT(60)
  <2> DEFINE m == Recent(h)
             s == SubSeq(PastOf(h), 1, m)
             q == <<t>> \o s
  <2>3. m \in Nat /\ m <= h.len  BY <1>0 DEF Recent
  <2> HIDE DEF m
  <2>4. s \in Seq(LineTexts) /\ Len(s) = m /\ \A i \in 1..m : s[i] = PastOf(h)[i]
    <3>1. s = [i \in 1..m |-> PastOf(h)[i]]  BY <1>0, <1>2, <2>3
    <3> HIDE DEF s
    <3>2. \A i \in 1..m : i \in 1..Len(PastOf(h))  BY <1>0, <1>2, <2>3
    <3>3. \A i \in 1..m : PastOf(h)[i] \in LineTexts  BY <1>2, <3>2, CellInSet, Zenon
    <3>4. s \in [1..m -> LineTexts]  BY <3>1, <3>3, Zenon
    <3>5. s \in Seq(LineTexts) /\ Len(s) = m  BY <2>3, <3>4
    <3> QED BY <3>1, <3>5, Zenon
  <2> HIDE DEF s
  <2>5. <<t>> \in Seq(LineTexts) /\ Len(<<t>>) = 1 /\ <<t>>[1] = t  OBVIOUS
  <2>6. /\ q \in Seq(LineTexts) /\ Len(q) = 1 + m
        /\ \A i \in 1..1 + m : q[i] = IF i <= 1 THEN <<t>>[i] ELSE s[i - 1]
    <3> DEFINE o == <<t>>
    <3> HIDE DEF o
    <3>1. o \in Seq(LineTexts) /\ Len(o) = 1  BY <2>5, Zenon DEF o
    <3>2. /\ o \o s \in Seq(LineTexts) /\ Len(o \o s) = Len(o) + Len(s)
          /\ \A i \in 1..Len(o) + Len(s) :
               (o \o s)[i] = IF i <= Len(o) THEN o[i] ELSE s[i - Len(o)]
      BY <2>4, <3>1, Joins, Zenon
    <3> QED BY <2>4, <3>1, <3>2, Zenon DEF o
  <2> HIDE DEF q
  <2>7. /\ PastOf(p) \in Seq(LineTexts) /\ Len(PastOf(p)) = 1 + m
        /\ \A k \in 1..1 + m : PastOf(p)[k] = entry_by_age(p, k - 1)
    <3>1. p.len = 1 + m  BY <2>2, <2>3 DEF m
    <3> QED BY <2>2, <3>1, PastFacts, Zenon
  <2>8. ASSUME NEW k \in 1..1 + m PROVE PastOf(p)[k] = q[k]
    <3>1. CASE k = 1
      <4>1. k - 1 = 0 /\ k <= 1  BY <3>1
      <4> QED BY <2>2, <2>5, <2>6, <2>7, <3>1, <4>1
    <3>2. CASE k # 1
      <4>1. PICK j \in 1..m : j = k - 1  BY <2>3, <3>2
      <4>2. j - 1 \in 0..m - 1 /\ (j - 1) + 1 = j /\ ~(k <= 1) /\ j \in 1..h.len
        BY <1>0, <2>3, <3>2, <4>1
      <4>3. entry_by_age(p, (j - 1) + 1) = entry_by_age(h, j - 1)  BY <2>2, <4>2, Zenon DEF m
      <4>4. PastOf(p)[k] = entry_by_age(h, j - 1)  BY <2>7, <4>1, <4>2, <4>3, Zenon
      <4>5. q[k] = s[j]  BY <2>6, <4>1, <4>2, Zenon
      <4> QED BY <1>2, <2>4, <4>2, <4>4, <4>5
    <3> QED BY <3>1, <3>2, Zenon
  <2>9. PastOf(p) = q  BY <2>6, <2>7, <2>8, SameCells
  <2>10. RememberedIn(h, t) = q  BY <1>3, <1>4, <1>7, Zenon DEF RememberedIn, q, s, m
  <2>11. r \in Histories /\ r.browsing_age = None /\ PastOf(r) = RememberedIn(h, t)
    BY <1>1, <2>2, <2>9, <2>10, Zenon
  <2> QED BY <2>11, Zenon DEF p
<1> QED BY <1>5, <1>6, <1>7, Zenon

\* The arrow keys change nothing but the place in the list.
LEMMA Older ==
  ASSUME NEW h \in Histories, h.browsing_age < h.len, h.len > 0
  PROVE  LET a == IF h.browsing_age + 1 < h.len THEN h.browsing_age + 1 ELSE h.len - 1
         IN previous(h) = [h EXCEPT !.browsing_age = a] /\ a \in Slots /\ a < h.len
<1> DEFINE a == IF h.browsing_age + 1 < h.len THEN h.browsing_age + 1 ELSE h.len - 1
<1>0. /\ C \in Nat \ {0} /\ h.len \in Nat /\ h.len <= C /\ ~(h.len = 0)
      /\ h.browsing_age \in Int /\ -1 <= h.browsing_age /\ None = -1
      /\ h.browsing_age = None \/ h.browsing_age \in Nat
  BY HistoryFacts DEF None
<1>1. a = IF h.browsing_age = None THEN 0
          ELSE IF h.browsing_age + 1 < h.len - 1 THEN h.browsing_age + 1 ELSE h.len - 1
  BY <1>0
<1>2. previous(h) = [h EXCEPT !.browsing_age = a]  BY <1>0, <1>1, Zenon DEF previous, Histories
<1>3. a \in Slots /\ a < h.len  BY <1>0 DEF Slots, C
<1> QED BY <1>2, <1>3, Zenon

LEMMA Newer ==
  ASSUME NEW h \in Histories, h.browsing_age < h.len
  PROVE  LET a == IF h.browsing_age = None THEN None ELSE h.browsing_age - 1
         IN /\ next(h) = [h EXCEPT !.browsing_age = a]
            /\ a \in {None} \cup Slots /\ a < h.len
<1> DEFINE a == IF h.browsing_age = None THEN None ELSE h.browsing_age - 1
<1>0. /\ C \in Nat \ {0} /\ h.len \in Nat /\ h.len <= C
      /\ h.browsing_age \in Int /\ -1 <= h.browsing_age /\ None = -1
      /\ h.browsing_age = None \/ h.browsing_age \in Nat
  BY HistoryFacts, Zenon DEF None
<1>1. a = IF h.browsing_age = None \/ h.browsing_age = 0 THEN None ELSE h.browsing_age - 1
  BY <1>0
<1>2. next(h) = [h EXCEPT !.browsing_age = a]  BY <1>0, <1>1, Zenon DEF next, Histories
<1>3. a \in {None} \cup Slots /\ a < h.len  BY <1>0 DEF Slots, C
<1> QED BY <1>2, <1>3, Zenon

LEMMA NewHist ==
  NewHistory \in Histories /\ NewHistory.browsing_age = None /\ NewHistory.len = 0
<1>1. <<>> \in LineTexts
  <2>1. <<>> \in Seq(Bytes) /\ Len(<<>>) = 0 /\ 0 \in 0..INPUT_LINE_MAX  BY LineAssumption
  <2>2. <<>> \in [1..0 -> Bytes]  BY <2>1
  <2> QED BY <2>1, <2>2, Zenon DEF LineTexts
<1>2. C \in Nat \ {0} /\ 0 \in Slots  BY HistoryAssumption DEF C, Slots
<1> QED BY <1>1, <1>2 DEF NewHistory, Histories

-----------------------------------------------------------------------------
(* Every key, on the line and on the list. *)

LEMMA Typed ==
  TypeOK <=> /\ line \in Lines /\ hist \in Histories /\ hist.browsing_age < hist.len
             /\ overwrite_mode \in BOOLEAN /\ running \in BOOLEAN
  BY Zenon DEF TypeOK, Histories, C

LEMMA PastIs == past = PastOf(hist) /\ past' = PastOf(hist')
  BY Zenon DEF past, PastOf

\* The editor as the text buffer sees it.
Unseen ==
  /\ Before(line') = Before(line) /\ After(line') = After(line)
  /\ PastOf(hist') = PastOf(hist) /\ hist'.browsing_age = hist.browsing_age
  /\ overwrite_mode' = overwrite_mode

LEMMA Stutters ==
  ASSUME Unseen
  PROVE  UNCHANGED Abstract!vars
  BY PastIs, Zenon DEF Unseen, Abstract!vars

LEMMA EditStep ==
  ASSUME TypeOK, NEW new \in Lines, Edit(new)
  PROVE  /\ TypeOK' /\ line' = new /\ PastOf(hist') = PastOf(hist)
         /\ overwrite_mode' = overwrite_mode
         /\ new = line => Unseen
         /\ new # line => hist'.browsing_age = None
<1>0. /\ line \in Lines /\ hist \in Histories /\ hist.browsing_age < hist.len
      /\ overwrite_mode \in BOOLEAN /\ running \in BOOLEAN
  BY Typed, Zenon
<1>1. /\ line' = new /\ overwrite_mode' = overwrite_mode /\ running' = running
      /\ hist' = IF new # line THEN reset_browsing(hist) ELSE hist
  BY Zenon DEF Edit
<1>2. LET r == reset_browsing(hist)
      IN r \in Histories /\ r.len = hist.len /\ r.browsing_age = None /\ PastOf(r) = PastOf(hist)
  BY <1>0, Browsing, Zenon DEF reset_browsing
<1>3. hist' \in Histories /\ hist'.len = hist.len /\ PastOf(hist') = PastOf(hist)
  BY <1>0, <1>1, <1>2, Zenon
<1>4. new # line => hist'.browsing_age = None  BY <1>1, <1>2, Zenon
<1>5. hist'.browsing_age < hist'.len
  <2>1. hist.len \in Nat /\ None = -1  BY <1>0, HistoryFacts, Zenon DEF None
  <2> QED BY <1>0, <1>1, <1>3, <1>4, <2>1
<1>6. TypeOK'  BY <1>0, <1>1, <1>3, <1>5, Zenon DEF TypeOK, Histories, C
<1>7. new = line => Unseen  BY <1>1, Zenon DEF Unseen
<1> QED BY <1>1, <1>3, <1>4, <1>6, <1>7, Zenon

\* A change of the text, seen from the text buffer.
LEMMA Changes ==
  ASSUME PastOf(hist') = PastOf(hist), overwrite_mode' = overwrite_mode,
         hist'.browsing_age = None
  PROVE  Abstract!Edits(Before(line'), After(line'))
  BY PastIs, Zenon DEF Abstract!Edits, Abstract!NotBrowsing, None

LEMMA CharStep ==
  ASSUME TypeOK, NEW c \in Bytes, Char(c)
  PROVE  TypeOK' /\ [Abstract!Next]_(Abstract!vars)
<1> DEFINE new == insert_or_overwrite_char(line, c, overwrite_mode)
<1>0. line \in Lines /\ overwrite_mode \in BOOLEAN  BY Typed, Zenon
<1>1. /\ new \in Lines
      /\ \/ new = line
         \/ /\ overwrite_mode /\ line.cursor < line.len
            /\ Before(new) = Append(Before(line), c) /\ After(new) = Tail(After(line))
         \/ /\ ~(overwrite_mode /\ line.cursor < line.len) /\ line.len < INPUT_LINE_MAX
            /\ Before(new) = Append(Before(line), c) /\ After(new) = After(line)
  BY <1>0, TypeChar, Zenon
<1>2. Edit(new)  BY Zenon DEF Char
<1> HIDE DEF new
<1>3. /\ TypeOK' /\ line' = new /\ PastOf(hist') = PastOf(hist)
      /\ overwrite_mode' = overwrite_mode
      /\ new = line => Unseen
      /\ new # line => hist'.browsing_age = None
  BY <1>1, <1>2, EditStep, Zenon
<1>4. CASE new = line  BY <1>3, <1>4, Stutters, Zenon
<1>5. CASE new # line
  <2>1. Abstract!Edits(Before(new), After(new))  BY <1>3, <1>5, Changes, Zenon
  <2>2. /\ Len(Before(line)) = line.cursor /\ Len(After(line)) = line.len - line.cursor
        /\ After(line) \in Seq(Bytes) /\ line.cursor \in Nat /\ line.len \in Nat
        /\ line.cursor <= line.len
    BY <1>0, Views, LineFacts, Zenon
  <2>3. After(line) # <<>> <=> line.cursor < line.len  BY <2>2, NoCells
  <2>4. Len(Before(line)) + Len(After(line)) = line.len  BY <2>2
  <2>5. Abstract!Type(c)
    <3>1. CASE overwrite_mode /\ line.cursor < line.len
      <4>1. Abstract!Edits(Append(Before(line), c), Tail(After(line)))  BY <1>1, <1>5, <2>1, <3>1, Zenon
      <4> QED BY <2>3, <3>1, <4>1, Zenon DEF Abstract!Type
    <3>2. CASE ~(overwrite_mode /\ line.cursor < line.len)
      <4>1. Abstract!Edits(Append(Before(line), c), After(line)) /\ line.len < INPUT_LINE_MAX
        BY <1>1, <1>5, <2>1, <3>2, Zenon
      <4> QED BY <2>3, <2>4, <3>2, <4>1, Zenon DEF Abstract!Type
    <3> QED BY <3>1, <3>2, Zenon
  <2> QED BY <1>3, <2>5, Zenon DEF Abstract!Next
<1> QED BY <1>4, <1>5, Zenon

LEMMA CutStep ==
  ASSUME TypeOK, NEW new \in Lines, Edit(new),
         new = line \/ IsCutLeft(line, new) \/ IsCutRight(line, new)
  PROVE  TypeOK' /\ [Abstract!Next]_(Abstract!vars)
<1>0. line \in Lines  BY Typed, Zenon
<1>1. /\ TypeOK' /\ line' = new /\ PastOf(hist') = PastOf(hist)
      /\ overwrite_mode' = overwrite_mode
      /\ new = line => Unseen
      /\ new # line => hist'.browsing_age = None
  BY EditStep, Zenon
<1>2. /\ Len(Before(line)) = line.cursor /\ Len(After(line)) = line.len - line.cursor
      /\ line.cursor \in Nat /\ line.len \in Nat /\ line.cursor <= line.len
      /\ line.len <= INPUT_LINE_MAX /\ INPUT_LINE_MAX \in Nat
  BY <1>0, Views, LineFacts, Zenon
<1>3. CASE new = line  BY <1>1, <1>3, Stutters, Zenon
<1>4. CASE new # line
  <2>1. Abstract!Edits(Before(new), After(new))  BY <1>1, <1>4, Changes, Zenon
  <2>2. CASE IsCutLeft(line, new)
    <3>1. PICK n \in 1..line.cursor : /\ Before(new) = SubSeq(Before(line), 1, line.cursor - n)
                                      /\ After(new) = After(line)
      BY <2>2, Zenon DEF IsCutLeft
    <3>2. n \in 1..INPUT_LINE_MAX  BY <1>2
    <3>3. Abstract!CutLeft(n)  BY <1>2, <2>1, <3>1, Zenon DEF Abstract!CutLeft
    <3> QED BY <1>1, <3>2, <3>3, Zenon DEF Abstract!Next
  <2>3. CASE IsCutRight(line, new)
    <3>1. PICK n \in 1..line.len - line.cursor :
               /\ Before(new) = Before(line)
               /\ After(new) = SubSeq(After(line), n + 1, Len(After(line)))
      BY <2>3, Zenon DEF IsCutRight
    <3>2. n \in 1..INPUT_LINE_MAX  BY <1>2
    <3>3. Abstract!CutRight(n)  BY <1>2, <2>1, <3>1, Zenon DEF Abstract!CutRight
    <3> QED BY <1>1, <3>2, <3>3, Zenon DEF Abstract!Next
  <2> QED BY <1>4, <2>2, <2>3, Zenon
<1> QED BY <1>3, <1>4, Zenon

LEMMA MoveStep ==
  ASSUME TypeOK, NEW n \in 0..line.len, Move(MoveTo(line, n))
  PROVE  TypeOK' /\ [Abstract!Next]_(Abstract!vars)
<1>0. line \in Lines  BY Typed, Zenon
<1>1. /\ line' = MoveTo(line, n) /\ hist' = hist /\ overwrite_mode' = overwrite_mode
      /\ running' = running
  BY Zenon DEF Move
<1>2. /\ line' \in Lines /\ Before(line') = SubSeq(Text(line), 1, n)
      /\ After(line') = SubSeq(Text(line), n + 1, Len(Text(line)))
  BY <1>0, <1>1, Moves, Zenon
<1>3. TypeOK'  BY <1>1, <1>2, Zenon DEF TypeOK
<1>4. Text(line) = Before(line) \o After(line)  BY <1>0, Parts, Zenon
<1>5. Abstract!Jump(n)
  <2>1. past' = past  BY <1>1, PastIs, Zenon
  <2> QED BY <1>1, <1>2, <1>4, <2>1, Zenon DEF Abstract!Jump
<1>6. n \in 0..Len(Before(line)) + Len(After(line))
  <2>1. /\ Len(Before(line)) = line.cursor /\ Len(After(line)) = line.len - line.cursor
        /\ line.cursor \in Nat /\ line.len \in Nat
    BY <1>0, Views, LineFacts, Zenon
  <2>2. Len(Before(line)) + Len(After(line)) = line.len  BY <2>1
  <2> QED BY <2>2, Zenon
<1> QED BY <1>3, <1>5, <1>6, Zenon DEF Abstract!Next

LEMMA IdleStep ==
  ASSUME TypeOK, Move(line)
  PROVE  TypeOK' /\ [Abstract!Next]_(Abstract!vars)
<1>1. /\ line' = line /\ hist' = hist /\ overwrite_mode' = overwrite_mode
      /\ running' = running
  BY Zenon DEF Move
<1>2. Unseen  BY <1>1, Zenon DEF Unseen
<1>3. TypeOK'  BY <1>1, Zenon DEF TypeOK
<1> QED BY <1>2, <1>3, Stutters, Zenon

\* The keys that move the cursor move it to a place in the line, or not at all.
LEMMA CursorForms ==
  ASSUME TypeOK, ArrowLeft \/ ArrowRight \/ WordLeft \/ WordRight \/ Home \/ End
  PROVE  Move(line) \/ \E n \in 0..line.len : Move(MoveTo(line, n))
<1>0. /\ line \in Lines /\ line.cursor \in Nat /\ line.len \in Nat /\ line.cursor <= line.len
  BY Typed, LineFacts, Zenon
<1>1. previous_word_boundary(line) \in 0..line.len /\ next_word_boundary(line) \in 0..line.len
  <2>1. previous_word_boundary(line) \in 0..line.cursor  BY <1>0, PreviousBoundary, Zenon
  <2>2. next_word_boundary(line) \in line.cursor..line.len  BY <1>0, NextBoundary, Zenon
  <2> QED BY <1>0, <2>1, <2>2
<1>2. CASE ArrowLeft
  <2>1. line.cursor # 0 => line.cursor - 1 \in 0..line.len  BY <1>0
  <2> QED BY <1>2, <2>1, Zenon DEF ArrowLeft, move_left
<1>3. CASE ArrowRight
  <2>1. ~(line.cursor >= line.len) => line.cursor + 1 \in 0..line.len  BY <1>0
  <2> QED BY <1>3, <2>1, Zenon DEF ArrowRight, move_right
<1>4. CASE WordLeft  BY <1>1, <1>4, Zenon DEF WordLeft, move_word_left
<1>5. CASE WordRight  BY <1>1, <1>5, Zenon DEF WordRight, move_word_right
<1>6. CASE Home
  <2>1. 0 \in 0..line.len  BY <1>0
  <2> QED BY <1>6, <2>1, Zenon DEF Home, move_home
<1>7. CASE End
  <2>1. line.len \in 0..line.len  BY <1>0
  <2> QED BY <1>7, <2>1, Zenon DEF End, move_end
<1> QED BY <1>2, <1>3, <1>4, <1>5, <1>6, <1>7

LEMMA CursorStep ==
  ASSUME TypeOK, ArrowLeft \/ ArrowRight \/ WordLeft \/ WordRight \/ Home \/ End
  PROVE  TypeOK' /\ [Abstract!Next]_(Abstract!vars)
  BY CursorForms, IdleStep, MoveStep, Zenon

\* What Tab may put behind the line.
LEMMA Suffixes ==
  ASSUME TypeOK, CanComplete, \E name \in CommandNames : Matches(Text(line)) = {name}
  PROVE  Suffix(Text(line)) \in Seq(Bytes)
<1> DEFINE t == Text(line)
           m == CHOOSE name \in Matches(t) : TRUE
<1>0. line \in Lines  BY Typed, Zenon
<1>1. t \in Seq(Bytes) /\ Len(t) \in Nat  BY <1>0, Views, LineFacts, Zenon
<1> HIDE DEF t
<1>2. m \in Matches(t)  BY Zenon DEF t
<1> HIDE DEF m
<1>3. m \in Seq(Bytes) /\ Len(t) <= Len(m)  BY <1>2, NamesAssumption, Zenon DEF Matches, StartsWith
<1> DEFINE k == Len(m) - Len(t)
           s == SubSeq(m, Len(t) + 1, Len(m))
<1>4. k \in Nat /\ Len(m) \in Nat  BY <1>1, <1>3, Cells
<1>5. \A i \in 1..k : Len(t) + i \in 1..Len(m)  BY <1>1, <1>4
<1>6. \A i \in 1..k : m[Len(t) + i] \in Bytes  BY <1>3, <1>5, CellInSet, Zenon
<1>7. s = [i \in 1..k |-> m[Len(t) + i]]  BY <1>1, <1>3, <1>4
<1> HIDE DEF k, s
<1>8. s \in [1..k -> Bytes]  BY <1>6, <1>7, Zenon
<1>9. s \in Seq(Bytes)  BY <1>4, <1>8
<1> QED BY <1>9, Zenon DEF Suffix, s, m, t

\* Tab leaves the line or puts a text behind it.
LEMMA TabForms ==
  ASSUME TypeOK, Tab
  PROVE  \/ Move(line)
         \/ /\ line.cursor = line.len
            /\ \E t \in Seq(Bytes) : /\ line.len + Len(t) <= INPUT_LINE_MAX
                                     /\ Move(append_str(line, t))
<1>0. line \in Lines /\ line.len \in Nat /\ INPUT_LINE_MAX \in Nat  BY Typed, LineFacts, Zenon
<1>1. CASE CanComplete /\ \E name \in CommandNames : Matches(Text(line)) = {name}
  <2> DEFINE t == Suffix(Text(line))
  <2>1. t \in Seq(Bytes)  BY <1>1, Suffixes, Zenon
  <2>2. Move(append_str(line, t)) /\ line.cursor = line.len
    BY <1>1, Zenon DEF Tab, Completed, CanComplete
  <2> HIDE DEF t
  <2>3. Len(t) \in Nat  BY <2>1, Cells
  <2>4. line.len + Len(t) > INPUT_LINE_MAX => append_str(line, t) = line  BY Zenon DEF append_str
  <2>5. line.len + Len(t) > INPUT_LINE_MAX \/ line.len + Len(t) <= INPUT_LINE_MAX
    BY <1>0, <2>3
  <2> QED BY <2>1, <2>2, <2>4, <2>5, Zenon
<1>2. CASE ~(CanComplete /\ \E name \in CommandNames : Matches(Text(line)) = {name})
  BY <1>2, Zenon DEF Tab, Completed
<1> QED BY <1>1, <1>2, Zenon

LEMMA TabStep ==
  ASSUME TypeOK, Tab
  PROVE  TypeOK' /\ [Abstract!Next]_(Abstract!vars)
<1>0. /\ line \in Lines /\ line.len \in Nat /\ line.cursor \in Nat
      /\ INPUT_LINE_MAX \in Nat
  BY Typed, LineFacts, Zenon
<1>1. CASE Move(line)  BY <1>1, IdleStep, Zenon
<1>2. ASSUME NEW t \in Seq(Bytes), line.cursor = line.len,
             line.len + Len(t) <= INPUT_LINE_MAX, Move(append_str(line, t))
      PROVE  TypeOK' /\ [Abstract!Next]_(Abstract!vars)
  <2>1. /\ line' = append_str(line, t) /\ hist' = hist /\ overwrite_mode' = overwrite_mode
        /\ running' = running
    BY <1>2, Zenon DEF Move
  <2>2. line' \in Lines /\ Before(line') = Before(line) \o t /\ After(line') = <<>>
    BY <1>0, <1>2, <2>1, Appends, ZenonT(60)
  <2>3. TypeOK'  BY <2>1, <2>2, Zenon DEF TypeOK
  <2>4. /\ Before(line) \in Seq(Bytes) /\ Len(Before(line)) = line.len
        /\ After(line) \in Seq(Bytes) /\ Len(After(line)) = 0
    <3>1. line.len - line.cursor = 0  BY <1>0, <1>2
    <3> QED BY <1>0, <1>2, <3>1, Views, Zenon
  <2>5. After(line) = <<>>  BY <2>4, NoCells, Zenon
  <2>6. past' = past  BY <2>1, PastIs, Zenon
  <2>7. CASE t = <<>>
    <3>1. Before(line) \o <<>> = Before(line)  BY <2>4, JoinsNothing, Zenon
    <3>2. Unseen  BY <2>1, <2>2, <2>5, <2>7, <3>1 DEF Unseen
    <3> QED BY <2>3, <3>2, Stutters, Zenon
  <2>8. CASE t # <<>>
    <3>1. Len(t) \in Nat /\ Len(t) # 0  BY <2>8, Cells, NoCells, Zenon
    <3>2. Len(t) \in 1..INPUT_LINE_MAX  BY <1>0, <1>2, <3>1
    <3>3. t \in [1..Len(t) -> Bytes]  BY Cells, Zenon
    <3>4. t \in UNION {[1..n -> Bytes] : n \in 1..INPUT_LINE_MAX}  BY <3>2, <3>3, Zenon
    <3>5. Abstract!Complete(t)
      BY <1>2, <2>1, <2>2, <2>4, <2>5, <2>6 DEF Abstract!Complete
    <3>6. Abstract!Next  BY <3>4, <3>5, Zenon DEF Abstract!Next
    <3> QED BY <2>3, <3>6, Zenon
  <2> QED BY <2>7, <2>8, Zenon
<1> QED BY <1>1, <1>2, TabForms, Zenon

\* An arrow key that comes to the entry of age a.
LEMMA ShowsStep ==
  ASSUME TypeOK, NEW a \in Slots, a < hist.len,
         hist' = [hist EXCEPT !.browsing_age = a],
         line' = set_from_str(line, entry_by_age(hist', hist'.browsing_age)),
         overwrite_mode' = overwrite_mode, running' = running
  PROVE  TypeOK' /\ Abstract!Shows(a) /\ Text(line') = entry_by_age(hist', a)
<1>0. /\ line \in Lines /\ hist \in Histories /\ overwrite_mode \in BOOLEAN
      /\ running \in BOOLEAN
  BY Typed, Zenon
<1>1. a \in {None} \cup Slots /\ a \in Nat /\ a \in 0..C - 1
  BY HistoryAssumption DEF Slots, C
<1>2. /\ hist' \in Histories /\ hist'.len = hist.len /\ hist'.browsing_age = a
      /\ PastOf(hist') = PastOf(hist) /\ entry_by_age(hist', a) = entry_by_age(hist, a)
  BY <1>0, <1>1, Browsing, Zenon
<1> DEFINE t == entry_by_age(hist', a)
<1>3. t \in LineTexts  BY <1>0, <1>1, <1>2, SlotOfAge, Zenon
<1>4. line' \in Lines /\ Before(line') = t /\ After(line') = <<>> /\ Text(line') = t
  BY <1>0, <1>2, <1>3, Sets, ZenonT(60)
<1> HIDE DEF t
<1>5. TypeOK'  BY <1>0, <1>2, <1>4 DEF TypeOK, Histories, C
<1>6. past[a + 1] = t
  <2>1. hist.len \in Nat  BY <1>0, HistoryFacts, Zenon
  <2>2. a + 1 \in 1..hist.len /\ (a + 1) - 1 = a  BY <1>1, <2>1
  <2>3. PastOf(hist)[a + 1] = entry_by_age(hist, (a + 1) - 1)  BY <1>0, <2>2, PastFacts, Zenon
  <2> QED BY <1>2, <2>2, <2>3, PastIs, Zenon DEF t
<1>7. a # -1  BY <1>1
<1>8. Abstract!Shows(a)
  BY <1>2, <1>4, <1>6, <1>7, PastIs, Zenon DEF Abstract!Shows, Abstract!NotBrowsing
<1> QED BY <1>4, <1>5, <1>8, Zenon DEF t

LEMMA UpStep ==
  ASSUME TypeOK, ArrowUp
  PROVE  /\ TypeOK' /\ [Abstract!Next]_(Abstract!vars)
         /\ IF hist.len = 0 THEN line' = line /\ hist' = hist
            ELSE Text(line') = entry_by_age(hist', hist'.browsing_age)
<1>0. /\ line \in Lines /\ hist \in Histories /\ hist.browsing_age < hist.len
      /\ overwrite_mode' = overwrite_mode /\ running' = running /\ hist' = previous(hist)
      /\ hist.len \in Nat
  BY Typed, HistoryFacts, Zenon DEF ArrowUp
<1>1. CASE hist.len = 0
  <2>1. line' = line /\ hist' = hist  BY <1>0, <1>1, Zenon DEF ArrowUp, previous
  <2>2. Move(line)  BY <1>0, <2>1, Zenon DEF Move, ArrowUp
  <2> QED BY <1>1, <2>1, <2>2, IdleStep, Zenon
<1>2. CASE hist.len # 0
  <2> DEFINE a == IF hist.browsing_age + 1 < hist.len THEN hist.browsing_age + 1
                  ELSE hist.len - 1
  <2>1. hist.len > 0  BY <1>0, <1>2
  <2>2. hist' = [hist EXCEPT !.browsing_age = a] /\ a \in Slots /\ a < hist.len
    BY <1>0, <2>1, Older, Zenon
  <2>3. line' = set_from_str(line, entry_by_age(hist', hist'.browsing_age))
    BY <1>2, Zenon DEF ArrowUp
  <2> HIDE DEF a
  <2>4. hist'.browsing_age = a  BY <1>0, <2>2, Browsing
  <2>5. TypeOK' /\ Abstract!Shows(a) /\ Text(line') = entry_by_age(hist', a)
    BY <1>0, <2>2, <2>3, ShowsStep, Zenon
  <2>6. past # <<>> /\ Len(past) = hist.len
    <3>1. PastOf(hist) \in Seq(LineTexts) /\ Len(PastOf(hist)) = hist.len  BY <1>0, PastFacts, Zenon
    <3> QED BY <1>2, <3>1, PastIs, NoCells, Zenon
  <2>7. Abstract!Older  BY <2>5, <2>6, Zenon DEF Abstract!Older, a
  <2> QED BY <1>2, <2>4, <2>5, <2>7 DEF Abstract!Next
<1> QED BY <1>1, <1>2, Zenon

LEMMA DownStep ==
  ASSUME TypeOK, ArrowDown
  PROVE  /\ TypeOK' /\ [Abstract!Next]_(Abstract!vars)
         /\ hist'.browsing_age # None => Text(line') = entry_by_age(hist', hist'.browsing_age)
<1>0. /\ line \in Lines /\ hist \in Histories /\ hist.browsing_age < hist.len
      /\ overwrite_mode' = overwrite_mode /\ running' = running /\ hist' = next(hist)
      /\ hist.len \in Nat /\ overwrite_mode \in BOOLEAN /\ running \in BOOLEAN
  BY Typed, HistoryFacts, Zenon DEF ArrowDown
<1> DEFINE a == IF hist.browsing_age = None THEN None ELSE hist.browsing_age - 1
<1>1. hist' = [hist EXCEPT !.browsing_age = a] /\ a \in {None} \cup Slots /\ a < hist.len
  BY <1>0, Newer, Zenon
<1> HIDE DEF a
<1>2. /\ hist' \in Histories /\ hist'.len = hist.len /\ hist'.browsing_age = a
      /\ PastOf(hist') = PastOf(hist)
  <2>1. hist \in Histories  BY <1>0, Zenon
  <2> QED BY ONLY <1>1, <2>1, Browsing, Zenon
<1>3. CASE a = None
  <2>1. line' = clear(line)  BY <1>2, <1>3, Zenon DEF ArrowDown
  <2>2. line' \in Lines /\ Before(line') = <<>> /\ After(line') = <<>>
    BY <1>0, <2>1, Clears, Zenon
  <2>3. TypeOK'  BY <1>0, <1>1, <1>2, <2>2 DEF TypeOK, Histories, C
  <2>4. Abstract!Shows(a)
    BY <1>0, <1>2, <1>3, <2>2, PastIs DEF Abstract!Shows, Abstract!NotBrowsing, None
  <2>5. Abstract!Newer  BY <2>4, Zenon DEF Abstract!Newer, Abstract!NotBrowsing, None, a
  <2> QED BY <1>2, <1>3, <2>3, <2>5 DEF Abstract!Next
<1>4. CASE a # None
  <2>1. a \in Slots  BY <1>1, <1>4, Zenon
  <2>2. line' = set_from_str(line, entry_by_age(hist', hist'.browsing_age))
    BY <1>2, <1>4, Zenon DEF ArrowDown
  <2>3. TypeOK' /\ Abstract!Shows(a) /\ Text(line') = entry_by_age(hist', a)
    BY <1>0, <1>1, <2>1, <2>2, ShowsStep
  <2>4. Abstract!Newer  BY <2>3, Zenon DEF Abstract!Newer, Abstract!NotBrowsing, None, a
  <2> QED BY <1>2, <2>3, <2>4, Zenon DEF Abstract!Next
<1> QED BY <1>3, <1>4, Zenon

LEMMA InsertStep ==
  ASSUME TypeOK, Insert
  PROVE  TypeOK' /\ [Abstract!Next]_(Abstract!vars)
<1>1. /\ line' = line /\ hist' = hist /\ running' = running
      /\ overwrite_mode' = ~overwrite_mode
  BY Zenon DEF Insert
<1>2. TypeOK'  BY <1>1, Zenon DEF TypeOK
<1>3. Abstract!Toggle  BY <1>1, PastIs, Zenon DEF Abstract!Toggle
<1> QED BY <1>2, <1>3, Zenon DEF Abstract!Next

\* Enter, on the line and the list.
LEMMA SubmitStep ==
  ASSUME TypeOK, hist' = reset_browsing(push_line(hist, Text(line))),
         line' = clear(line), overwrite_mode' = overwrite_mode, running' \in BOOLEAN
  PROVE  TypeOK' /\ Abstract!Next
<1>0. line \in Lines /\ hist \in Histories /\ overwrite_mode \in BOOLEAN  BY Typed, Zenon
<1>1. line' \in Lines /\ Before(line') = <<>> /\ After(line') = <<>>
  BY <1>0, Clears, Zenon
<1>2. Text(line) \in LineTexts  BY <1>0, TextOfLine, Zenon
<1>3. /\ hist' \in Histories /\ hist'.browsing_age = None
      /\ PastOf(hist') = RememberedIn(hist, Text(line))
  BY <1>0, <1>2, Pushes, Zenon
<1>4. hist'.browsing_age < hist'.len
  <2>1. hist'.len \in Nat  BY <1>3, HistoryFacts, Zenon
  <2> QED BY <1>3, <2>1 DEF None
<1>5. TypeOK'  BY <1>0, <1>1, <1>3, <1>4 DEF TypeOK, Histories, C
<1>6. Recent(hist) = IF Len(PastOf(hist)) < C THEN Len(PastOf(hist)) ELSE C - 1
  BY <1>0, PastFacts, Zenon DEF Recent
<1>7. Abstract!Remembered(Text(line)) = RememberedIn(hist, Text(line))
  BY <1>6, PastIs, Zenon DEF Abstract!Remembered, RememberedIn, C
<1>8. Text(line) = Before(line) \o After(line)  BY <1>0, Parts, Zenon
<1>9. Abstract!Submit
  BY <1>1, <1>3, <1>7, <1>8, PastIs, ZenonT(60) DEF Abstract!Submit, Abstract!NotBrowsing, None
<1> QED BY <1>5, <1>9, Zenon DEF Abstract!Next

LEMMA SessionStep ==
  ASSUME TypeOK, EnterSession
  PROVE  TypeOK' /\ Abstract!Next
<1>1. /\ line' = NewLine /\ hist' = NewHistory /\ overwrite_mode' = FALSE
      /\ running' = running /\ running \in BOOLEAN
  BY Typed, Zenon DEF EnterSession
<1>2. line' \in Lines /\ Before(line') = <<>> /\ After(line') = <<>>
  BY <1>1, New, EmptyLine, Zenon
<1>3. hist' \in Histories /\ hist'.browsing_age = None /\ hist'.len = 0  BY <1>1, NewHist, Zenon
<1>4. TypeOK'
  <2>1. hist'.browsing_age < hist'.len  BY <1>3 DEF None
  <2> QED BY <1>1, <1>2, <1>3, <2>1, ZenonT(60) DEF TypeOK, Histories, C
<1>5. PastOf(hist') = <<>>
  <2>1. PastOf(hist') \in Seq(LineTexts) /\ Len(PastOf(hist')) = 0  BY <1>3, PastFacts, Zenon
  <2> QED BY <2>1, NoCells, Zenon
<1>6. Abstract!Forget
  BY <1>1, <1>2, <1>3, <1>5, PastIs DEF Abstract!Forget, Abstract!NotBrowsing, None
<1> QED BY <1>4, <1>6, Zenon DEF Abstract!Next

\* One step of the editor is one step of the text buffer, or none.
LEMMA StepStep ==
  ASSUME TypeOK, [Next]_vars
  PROVE  TypeOK' /\ [Abstract!Next]_(Abstract!vars)
<1>0. line \in Lines /\ running \in BOOLEAN  BY Typed, Zenon
<1>1. CASE \E c \in Bytes \ {Zero} : Char(c)  BY <1>1, CharStep, Zenon
<1>2. CASE Backspace  BY <1>0, <1>2, BackspaceCuts, CutStep DEF Backspace
<1>3. CASE Delete  BY <1>0, <1>3, DeleteCuts, CutStep, Zenon DEF Delete
<1>4. CASE WordDeleteLeft
  <2> DEFINE r == delete_word_left(line)
  <2>1. r \in Lines /\ (r = line \/ IsCutLeft(line, r))  BY <1>0, WordLeftCuts, Zenon
  <2>2. Edit(r)  BY <1>4, Zenon DEF WordDeleteLeft
  <2> HIDE DEF r
  <2> QED BY <2>1, <2>2, CutStep, Zenon
<1>5. CASE WordDeleteRight
  <2> DEFINE r == delete_word_right(line)
  <2>1. r \in Lines /\ (r = line \/ IsCutRight(line, r))  BY <1>0, WordRightCuts, Zenon
  <2>2. Edit(r)  BY <1>5, Zenon DEF WordDeleteRight
  <2> HIDE DEF r
  <2> QED BY <2>1, <2>2, CutStep
<1>6. CASE ArrowLeft \/ ArrowRight \/ WordLeft \/ WordRight \/ Home \/ End
  BY <1>6, CursorStep, Zenon
<1>7. CASE ArrowUp  BY <1>7, UpStep, Zenon
<1>8. CASE ArrowDown  BY <1>8, DownStep, Zenon
<1>9. CASE Insert  BY <1>9, InsertStep, Zenon
<1>10. CASE Tab  BY <1>10, TabStep, Zenon
<1>11. CASE Notice  BY <1>11, IdleStep, Zenon DEF Notice
<1>12. CASE Enter  BY <1>0, <1>12, SubmitStep, Zenon DEF Enter
<1>13. CASE EnterSession  BY <1>13, SessionStep, Zenon
<1>14. CASE EnterExit  BY <1>0, <1>14, SubmitStep, Zenon DEF EnterExit
<1>15. CASE Escape \/ UNCHANGED vars
  <2>1. line' = line /\ hist' = hist /\ overwrite_mode' = overwrite_mode
        /\ running' \in BOOLEAN
    BY <1>0, <1>15, Zenon DEF Escape, vars
  <2>2. Unseen  BY <2>1, Zenon DEF Unseen
  <2>3. TypeOK'  BY <2>1, Zenon DEF TypeOK
  <2> QED BY <2>2, <2>3, Stutters, Zenon
<1> QED BY <1>1, <1>2, <1>3, <1>4, <1>5, <1>6, <1>7, <1>8, <1>9, <1>10, <1>11, <1>12,
           <1>13, <1>14, <1>15 DEF Next, Key, Submits

LEMMA Starts ==
  ASSUME Init
  PROVE  /\ TypeOK /\ Abstract!Init /\ PastOf(hist) = <<>> /\ hist.browsing_age = None
<1>1. line = NewLine /\ hist = NewHistory /\ overwrite_mode = FALSE /\ running = TRUE
  BY Zenon DEF Init
<1>2. line \in Lines /\ Before(line) = <<>> /\ After(line) = <<>>  BY <1>1, New, EmptyLine, Zenon
<1>3. hist \in Histories /\ hist.browsing_age = None /\ hist.len = 0  BY <1>1, NewHist, Zenon
<1>4. TypeOK
  <2>1. hist.browsing_age < hist.len  BY <1>3 DEF None
  <2> QED BY <1>1, <1>2, <1>3, <2>1, ZenonT(60) DEF TypeOK, Histories, C
<1>5. PastOf(hist) = <<>>
  <2>1. PastOf(hist) \in Seq(LineTexts) /\ Len(PastOf(hist)) = 0  BY <1>3, PastFacts, Zenon
  <2> QED BY <2>1, NoCells, Zenon
<1>6. Abstract!Init
  BY <1>1, <1>2, <1>3, <1>5, PastIs, Zenon DEF Abstract!Init, Abstract!NotBrowsing, None
<1> QED BY <1>3, <1>4, <1>5, <1>6, Zenon

-----------------------------------------------------------------------------
(* The theorems. *)

\* Every index stays inside its array, for every line length and history size:
\* the line and its cursor in handle_key_event, the ring in push_line.
THEOREM TypeCorrect == Spec => []TypeOK
<1>1. Init => TypeOK  BY Starts, Zenon
<1>2. TypeOK /\ [Next]_vars => TypeOK'  BY StepStep, Zenon
<1> QED BY <1>1, <1>2, PTL DEF Spec

\* The editor refines the text buffer: the array of bytes with its shifts and the
\* ring with its wrapping indices are a text around a cursor and a list.
THEOREM Refines == Spec => ImplementsTextBuffer
<1>1. Init => Abstract!Init  BY Starts, Zenon
<1>2. TypeOK /\ [Next]_vars => [Abstract!Next]_(Abstract!vars)  BY StepStep, Zenon
<1> QED BY <1>1, <1>2, TypeCorrect, PTL DEF Spec, Abstract!Spec, ImplementsTextBuffer

\* Wherever the cursor is, move_word_left and move_word_right move it if they can
\* and never stop inside a word.
THEOREM WordJumps == Spec => []WordJumpsLandBetweenWords
<1>1. TypeOK => WordJumpsLandBetweenWords
  <2> SUFFICES ASSUME TypeOK PROVE WordJumpsLandBetweenWords  BY Zenon
  <2>0. line \in Lines /\ line.cursor \in Nat /\ line.len \in Nat /\ line.cursor <= line.len
    BY Typed, LineFacts, Zenon
  <2> DEFINE b == previous_word_boundary(line)
             e == next_word_boundary(line)
  <2>1. b \in 0..line.cursor /\ (line.cursor > 0 => b < line.cursor /\ ~MidWord(line, b))
    BY <2>0, PreviousBoundary, Zenon
  <2>2. /\ e \in line.cursor..line.len
        /\ line.cursor < line.len => e > line.cursor /\ ~MidWord(line, e)
    BY <2>0, NextBoundary, Zenon
  <2> HIDE DEF b, e
  <2>3. b \in 0..line.len /\ e \in 0..line.len  BY <2>0, <2>1, <2>2
  <2>4. MoveTo(line, b).cursor = b /\ MoveTo(line, e).cursor = e
    BY <2>0, <2>3, Moves, Zenon
  <2>5. move_word_left(line).cursor = b /\ move_word_right(line).cursor = e
    BY <2>4, Zenon DEF move_word_left, move_word_right, b, e
  <2> QED BY <2>1, <2>2, <2>5, Zenon DEF WordJumpsLandBetweenWords
<1> QED BY <1>1, TypeCorrect, PTL

NoRepeats(s) ==
  /\ \A k \in 1..Len(s) : s[k] # <<>>
  /\ \A k \in 1..Len(s) - 1 : s[k] # s[k + 1]

LEMMA RepeatsInList ==
  ASSUME TypeOK
  PROVE  HistoryHasNoRepeats <=> NoRepeats(PastOf(hist))
<1>0. /\ hist.len \in Nat /\ Len(PastOf(hist)) = hist.len
      /\ \A k \in 1..hist.len : PastOf(hist)[k] = entry_by_age(hist, k - 1)
  BY Typed, HistoryFacts, PastFacts, Zenon
<1>1. ASSUME NEW a \in 0..hist.len - 1
      PROVE  a + 1 \in 1..hist.len /\ PastOf(hist)[a + 1] = entry_by_age(hist, a)
  <2>1. a + 1 \in 1..hist.len /\ (a + 1) - 1 = a  BY <1>0
  <2> QED BY <1>0, <2>1, Zenon
<1>2. \A k \in 1..hist.len : k - 1 \in 0..hist.len - 1  BY <1>0
<1>3. ASSUME HistoryHasNoRepeats PROVE NoRepeats(PastOf(hist))
  <2>1. \A k \in 1..hist.len : PastOf(hist)[k] # <<>>
    BY <1>0, <1>2, <1>3, Zenon DEF HistoryHasNoRepeats
  <2>2. ASSUME NEW k \in 1..hist.len - 1 PROVE PastOf(hist)[k] # PastOf(hist)[k + 1]
    <3>1. /\ k - 1 \in 0..hist.len - 2 /\ k \in 1..hist.len /\ k + 1 \in 1..hist.len
          /\ (k - 1) + 1 = k /\ (k + 1) - 1 = k
      BY <1>0
    <3>2. PastOf(hist)[k] = entry_by_age(hist, k - 1)  BY <1>0, <3>1, Zenon
    <3>3. PastOf(hist)[k + 1] = entry_by_age(hist, k)  BY <1>0, <3>1, Zenon
    <3>4. entry_by_age(hist, k - 1) # entry_by_age(hist, (k - 1) + 1)
      BY <1>3, <3>1, Zenon DEF HistoryHasNoRepeats
    <3> QED BY <3>1, <3>2, <3>3, <3>4
  <2> QED BY <1>0, <2>1, <2>2, Zenon DEF NoRepeats
<1>4. ASSUME NoRepeats(PastOf(hist)) PROVE HistoryHasNoRepeats
  <2>1. \A a \in 0..hist.len - 1 : entry_by_age(hist, a) # <<>>
    BY <1>0, <1>1, <1>4, Zenon DEF NoRepeats
  <2>2. ASSUME NEW a \in 0..hist.len - 2
        PROVE  entry_by_age(hist, a) # entry_by_age(hist, a + 1)
    <3>1. a \in 0..hist.len - 1 /\ a + 1 \in 0..hist.len - 1 /\ a + 1 \in 1..hist.len - 1
      BY <1>0
    <3>2. PastOf(hist)[a + 1] = entry_by_age(hist, a)  BY <1>1, <3>1, Zenon
    <3>3. PastOf(hist)[(a + 1) + 1] = entry_by_age(hist, a + 1)  BY <1>1, <3>1, Zenon
    <3> QED BY <1>0, <1>4, <3>1, <3>2, <3>3 DEF NoRepeats
  <2> QED BY <2>1, <2>2, Zenon DEF HistoryHasNoRepeats
<1> QED BY <1>3, <1>4, Zenon

LEMMA RememberedOnce ==
  ASSUME NEW h \in Histories, NEW t \in LineTexts, NoRepeats(PastOf(h))
  PROVE  NoRepeats(RememberedIn(h, t))
<1> DEFINE s == PastOf(h)
           m == Recent(h)
           u == SubSeq(s, 1, m)
           o == <<t>>
           q == o \o u
<1>0. C \in Nat \ {0} /\ h.len \in Nat /\ h.len <= C  BY HistoryFacts, Zenon
<1>1. s \in Seq(LineTexts) /\ Len(s) = h.len  BY PastFacts, Zenon
<1>2. m \in Nat /\ m <= h.len  BY <1>0 DEF Recent
<1> HIDE DEF m, s
<1>3. CASE t = <<>> \/ (s # <<>> /\ s[1] = t)
  <2>1. RememberedIn(h, t) = s  BY <1>3, Zenon DEF RememberedIn, s
  <2> QED BY <2>1, Zenon DEF s
<1>4. CASE ~(t = <<>> \/ (s # <<>> /\ s[1] = t))
  <2>1. RememberedIn(h, t) = q  BY <1>4, Zenon DEF RememberedIn, s, m
  <2>2. u \in Seq(LineTexts) /\ Len(u) = m /\ \A i \in 1..m : u[i] = s[i]
    <3>1. u = [i \in 1..m |-> s[i]]  BY <1>0, <1>1, <1>2
    <3> HIDE DEF u
    <3>2. \A i \in 1..m : i \in 1..Len(s)  BY <1>0, <1>1, <1>2
    <3>3. \A i \in 1..m : s[i] \in LineTexts  BY <1>1, <3>2, CellInSet, Zenon
    <3>4. u \in [1..m -> LineTexts]  BY <3>1, <3>3, Zenon
    <3>5. u \in Seq(LineTexts) /\ Len(u) = m  BY <1>2, <3>4
    <3> QED BY <3>1, <3>5, Zenon
  <2>3. o \in Seq(LineTexts) /\ Len(o) = 1 /\ o[1] = t  OBVIOUS
  <2> HIDE DEF u, o
  <2>4. /\ Len(q) = Len(o) + Len(u)
        /\ \A i \in 1..Len(o) + Len(u) : q[i] = IF i <= Len(o) THEN o[i] ELSE u[i - Len(o)]
    BY <2>2, <2>3, Joins, ZenonT(60)
  <2> HIDE DEF q
  <2>5. Len(q) = 1 + m /\ \A i \in 1..1 + m : q[i] = IF i <= 1 THEN o[i] ELSE u[i - 1]
    BY <2>2, <2>3, <2>4, ZenonT(60)
  <2>6. q[1] = t  BY <1>2, <2>3, <2>5
  <2>7. ASSUME NEW i \in 1..m PROVE q[i + 1] = s[i] /\ i \in 1..Len(s)
    <3>1. i + 1 \in 1..1 + m /\ ~(i + 1 <= 1) /\ (i + 1) - 1 = i /\ i \in 1..Len(s)
      BY <1>0, <1>1, <1>2
    <3>2. q[i + 1] = u[(i + 1) - 1]  BY <2>5, <3>1, Zenon
    <3> QED BY <2>2, <3>1, <3>2, Zenon
  <2>8. ASSUME NEW k \in 1..1 + m PROVE q[k] # <<>>
    <3>1. CASE k = 1  BY <1>4, <2>6, <3>1, Zenon
    <3>2. CASE k # 1
      <4>1. PICK i \in 1..m : k = i + 1
        <5>1. k - 1 \in 1..m /\ k = (k - 1) + 1  BY <1>2, <3>2
        <5> QED BY <5>1, Zenon
      <4>2. s[i] # <<>>  BY <2>7, Zenon DEF NoRepeats, s
      <4> QED BY <2>7, <4>1, <4>2, Zenon
    <3> QED BY <3>1, <3>2, Zenon
  <2>9. ASSUME NEW k \in 1..(1 + m) - 1 PROVE q[k] # q[k + 1]
    <3>0. k \in 1..m  BY <1>2
    <3>1. CASE k = 1
      <4>1. q[k + 1] = s[1] /\ 1 \in 1..Len(s)  BY <2>7, <3>0, <3>1, Zenon
      <4>2. s # <<>>  BY <1>1, <4>1
      <4> QED BY <1>4, <2>6, <3>1, <4>1, <4>2
    <3>2. CASE k # 1
      <4>1. PICK i \in 1..m : k = i + 1
        <5>1. k - 1 \in 1..m /\ k = (k - 1) + 1  BY <1>2, <3>0, <3>2
        <5> QED BY <5>1, Zenon
      <4>2. q[k] = s[i] /\ q[k + 1] = s[i + 1]  BY <2>7, <3>0, <4>1, Zenon
      <4>3. i \in 1..Len(s) - 1  BY <1>0, <1>1, <1>2, <3>0, <4>1
      <4> QED BY <4>2, <4>3, Zenon DEF NoRepeats, s
    <3> QED BY <3>1, <3>2, Zenon
  <2> QED BY <2>1, <2>5, <2>8, <2>9 DEF NoRepeats
<1> QED BY <1>3, <1>4, Zenon

\* What a step may do to the list, read off the text buffer's steps.
LEMMA ListSteps ==
  ASSUME TypeOK, [Next]_vars
  PROVE  \/ PastOf(hist') = PastOf(hist)
         \/ PastOf(hist') = RememberedIn(hist, Text(line))
         \/ PastOf(hist') = <<>>
<1>0. line \in Lines /\ hist \in Histories  BY Typed, Zenon
<1>1. [Abstract!Next]_(Abstract!vars)  BY StepStep, Zenon
<1>2. past' = past \/ Abstract!Submit \/ Abstract!Forget
  BY <1>1 DEF Abstract!Next, Abstract!vars, Abstract!Type, Abstract!CutLeft,
       Abstract!CutRight, Abstract!Jump, Abstract!Complete, Abstract!Older, Abstract!Newer,
       Abstract!Shows, Abstract!Toggle, Abstract!Edits
<1>3. Recent(hist) = IF Len(PastOf(hist)) < C THEN Len(PastOf(hist)) ELSE C - 1
  BY <1>0, PastFacts, Zenon DEF Recent
<1>4. Abstract!Remembered(Text(line)) = RememberedIn(hist, Text(line))
  BY <1>3, PastIs, Zenon DEF Abstract!Remembered, RememberedIn, C
<1>5. Text(line) = Before(line) \o After(line)  BY <1>0, Parts, Zenon
<1> QED BY <1>2, <1>4, <1>5, PastIs, Zenon DEF Abstract!Submit, Abstract!Forget

\* push_line never stores an empty line, nor a line equal to its newest neighbour,
\* also when the ring wraps around.
THEOREM NoRepeatsInHistory == Spec => []HistoryHasNoRepeats
<1> DEFINE Inv == TypeOK /\ NoRepeats(PastOf(hist))
<1>1. NoRepeats(<<>>)  BY DEF NoRepeats
<1>2. Init => Inv  BY <1>1, Starts, Zenon
<1>3. Inv /\ [Next]_vars => Inv'
  <2> SUFFICES ASSUME TypeOK, NoRepeats(PastOf(hist)), [Next]_vars PROVE Inv'  BY Zenon
  <2>1. TypeOK'  BY StepStep, Zenon
  <2>2. hist \in Histories /\ Text(line) \in LineTexts  BY Typed, TextOfLine, Zenon
  <2>3. NoRepeats(PastOf(hist'))  BY <1>1, <2>2, ListSteps, RememberedOnce, Zenon
  <2> QED BY <2>1, <2>3, Zenon
<1>4. Inv => HistoryHasNoRepeats  BY RepeatsInList, Zenon
<1> QED BY <1>2, <1>3, <1>4, PTL DEF Spec

LEMMA ShownStays ==
  ASSUME TypeOK, BrowsedEntryIsShown, hist' = hist, line.len <= line'.len,
         line' \in Lines, \A i \in 1..line.len : Text(line')[i] = Text(line)[i]
  PROVE  BrowsedEntryIsShown'
<1> SUFFICES ASSUME hist.browsing_age # None
             PROVE  Prefix(entry_by_age(hist, hist.browsing_age), Text(line'))
  BY Zenon DEF BrowsedEntryIsShown
<1> DEFINE e == entry_by_age(hist, hist.browsing_age)
<1>0. line \in Lines /\ hist \in Histories  BY Typed, Zenon
<1>1. /\ line.len \in Nat /\ line'.len \in Nat
      /\ Len(Text(line)) = line.len /\ Len(Text(line')) = line'.len
  BY <1>0, LineFacts, Views, Zenon
<1>2. Prefix(e, Text(line))  BY Zenon DEF BrowsedEntryIsShown
<1>3. Len(e) \in Nat
  <2>1. hist.browsing_age \in 0..C - 1  BY <1>0, HistoryFacts DEF None
  <2>2. e \in LineTexts  BY <1>0, <2>1, SlotOfAge, Zenon
  <2> QED BY <2>2, TextFacts
<1> HIDE DEF e
<1>4. Len(e) <= Len(Text(line')) /\ \A i \in 1..Len(e) : Text(line')[i] = e[i]
  BY <1>1, <1>2, <1>3 DEF Prefix
<1> QED BY <1>4, Zenon DEF Prefix, e

LEMMA ShownMoves ==
  ASSUME TypeOK, BrowsedEntryIsShown, NEW n \in 0..line.len, Move(MoveTo(line, n))
  PROVE  BrowsedEntryIsShown'
<1>0. line \in Lines  BY Typed, Zenon
<1>1. line' = MoveTo(line, n) /\ hist' = hist  BY Zenon DEF Move
<1>2. line' \in Lines /\ Text(line') = Text(line)  BY <1>0, <1>1, Moves, ZenonT(60)
<1>3. line'.len = line.len /\ line.len \in Nat  BY <1>0, <1>2, LineFacts, Views
<1> QED BY <1>1, <1>2, <1>3, ShownStays

LEMMA ShownIdle ==
  ASSUME TypeOK, BrowsedEntryIsShown, line' = line, hist' = hist
  PROVE  BrowsedEntryIsShown'
  BY Zenon DEF BrowsedEntryIsShown

LEMMA ShownTab ==
  ASSUME TypeOK, BrowsedEntryIsShown, Tab
  PROVE  BrowsedEntryIsShown'
<1>0. line \in Lines /\ line.len \in Nat  BY Typed, LineFacts, Zenon
<1>1. CASE Move(line)  BY <1>1, ShownIdle, Zenon DEF Move
<1>2. ASSUME NEW t \in Seq(Bytes), line.cursor = line.len,
             line.len + Len(t) <= INPUT_LINE_MAX, Move(append_str(line, t))
      PROVE  BrowsedEntryIsShown'
  <2>1. line' = append_str(line, t) /\ hist' = hist  BY <1>2, Zenon DEF Move
  <2>2. /\ line' \in Lines /\ line'.len = line.len + Len(t)
        /\ \A i \in 1..line.len : Text(line')[i] = Text(line)[i]
    BY <1>0, <1>2, <2>1, Appends, ZenonT(60)
  <2>3. line.len <= line'.len  BY <1>0, <2>2, Cells
  <2> QED BY <2>1, <2>2, <2>3, ShownStays
<1> QED BY <1>1, <1>2, TabForms, Zenon

LEMMA ShownEdit ==
  ASSUME TypeOK, BrowsedEntryIsShown, NEW new \in Lines, Edit(new)
  PROVE  BrowsedEntryIsShown'
<1>1. CASE new = line
  <2>1. line' = line /\ hist' = hist  BY <1>1, Zenon DEF Edit
  <2> QED BY <2>1, ShownIdle, Zenon
<1>2. CASE new # line
  <2>1. hist'.browsing_age = None  BY <1>2, EditStep, Zenon
  <2> QED BY <2>1, Zenon DEF BrowsedEntryIsShown
<1> QED BY <1>1, <1>2, Zenon

LEMMA ShownArrow ==
  ASSUME hist'.browsing_age # None =>
           Text(line') = entry_by_age(hist', hist'.browsing_age) /\ Len(Text(line')) \in Nat
  PROVE  BrowsedEntryIsShown'
  BY DEF BrowsedEntryIsShown, Prefix

\* While the arrow keys browse the history, the line begins with the entry they
\* are at: every edit calls reset_browsing, and completion only adds to the line.
THEOREM Browsed == Spec => []BrowsedEntryIsShown
<1> DEFINE Inv == TypeOK /\ BrowsedEntryIsShown
<1>1. Init => Inv
  <2>1. Init => BrowsedEntryIsShown  BY Starts, Zenon DEF BrowsedEntryIsShown
  <2> QED BY <2>1, Starts, Zenon
<1>2. Inv /\ [Next]_vars => Inv'
  <2> SUFFICES ASSUME TypeOK, BrowsedEntryIsShown, [Next]_vars PROVE BrowsedEntryIsShown'
    BY StepStep, Zenon
  <2>0. /\ line \in Lines /\ line.cursor \in Nat /\ line.len \in Nat
        /\ line.cursor <= line.len /\ overwrite_mode \in BOOLEAN /\ hist \in Histories
    BY Typed, LineFacts, Zenon
  <2>00. line' \in Lines /\ Len(Text(line')) \in Nat
    <3>1. line' \in Lines  BY StepStep, Zenon DEF TypeOK
    <3> QED BY <3>1, Views, LineFacts
  <2>1. CASE \E c \in Bytes \ {Zero} : Char(c)
    <3>1. PICK c \in Bytes \ {Zero} : Char(c)  BY <2>1, Zenon
    <3>2. insert_or_overwrite_char(line, c, overwrite_mode) \in Lines
      BY <2>0, TypeChar, Zenon
    <3> QED BY <3>1, <3>2, ShownEdit, Zenon DEF Char
  <2>2. CASE Backspace  BY <2>0, <2>2, BackspaceCuts, ShownEdit DEF Backspace
  <2>3. CASE Delete  BY <2>0, <2>3, DeleteCuts, ShownEdit DEF Delete
  <2>4. CASE WordDeleteLeft
    <3>1. delete_word_left(line) \in Lines  BY <2>0, WordLeftCuts, Zenon
    <3> QED BY <2>4, <3>1, ShownEdit, Zenon DEF WordDeleteLeft
  <2>5. CASE WordDeleteRight
    <3>1. delete_word_right(line) \in Lines  BY <2>0, WordRightCuts, Zenon
    <3> QED BY <2>5, <3>1, ShownEdit, Zenon DEF WordDeleteRight
  <2>6. CASE ArrowLeft \/ ArrowRight \/ WordLeft \/ WordRight \/ Home \/ End
    <3>1. Move(line) \/ \E n \in 0..line.len : Move(MoveTo(line, n))  BY <2>6, CursorForms, Zenon
    <3>2. CASE Move(line)  BY <3>2, ShownIdle, Zenon DEF Move
    <3> QED BY <3>1, <3>2, ShownMoves, Zenon
  <2>7. CASE ArrowUp
    <3>1. CASE hist.len = 0  BY <2>7, <3>1, UpStep, ShownIdle
    <3>2. CASE hist.len # 0  BY <2>00, <2>7, <3>2, UpStep, ShownArrow
    <3> QED BY <3>1, <3>2, Zenon
  <2>8. CASE ArrowDown  BY <2>00, <2>8, DownStep, ShownArrow
  <2>9. CASE Insert \/ Notice \/ Escape \/ UNCHANGED vars
    <3>1. line' = line /\ hist' = hist  BY <2>9, Zenon DEF Insert, Notice, Move, Escape, vars
    <3> QED BY <3>1, ShownIdle, Zenon
  <2>10. CASE Tab  BY <2>10, ShownTab, Zenon
  <2>11. CASE Enter \/ EnterExit
    <3>1. hist' = reset_browsing(push_line(hist, Text(line)))  BY <2>11, Zenon DEF Enter, EnterExit
    <3>2. Text(line) \in LineTexts  BY <2>0, TextOfLine, Zenon
    <3>3. hist'.browsing_age = None  BY <2>0, <3>1, <3>2, Pushes, ZenonT(60)
    <3> QED BY <3>3, Zenon DEF BrowsedEntryIsShown
  <2>12. CASE EnterSession
    <3>1. hist'.browsing_age = None  BY <2>12, NewHist, Zenon DEF EnterSession
    <3> QED BY <3>1, Zenon DEF BrowsedEntryIsShown
  <2> QED BY <2>1, <2>2, <2>3, <2>4, <2>5, <2>6, <2>7, <2>8, <2>9, <2>10, <2>11, <2>12
          DEF Next, Key, Submits
<1>3. Inv => BrowsedEntryIsShown  BY Zenon
<1> QED BY <1>1, <1>2, <1>3, PTL DEF Spec
=============================================================================
