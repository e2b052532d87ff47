--------------------------- MODULE LauncherProofs ---------------------------
(***************************************************************************)
(* Proofs about the host launcher, for every command line, script file,    *)
(* marker, boot noise and size of the pipes.                               *)
(***************************************************************************)
EXTENDS Launcher, WellFoundedInduction, TLAPS

USE SMTT(90)

-----------------------------------------------------------------------------
(* Facts about sequences, the few that are used: every theorem a module      *)
(* imports is a hypothesis of each of its steps.                             *)

LEMMA CellInSet ==
  ASSUME NEW S, NEW seq \in Seq(S), NEW n \in 1..Len(seq)
  PROVE  seq[n] \in S
  OBVIOUS

LEMMA NoCells ==
  ASSUME NEW S
  PROVE  /\ <<>> \in Seq(S) /\ Len(<<>>) = 0
         /\ \A q \in Seq(S) : q # <<>> => Len(q) \in Nat \ {0}
  OBVIOUS

LEMMA SameCells ==
  ASSUME NEW S, NEW p \in Seq(S), NEW q \in Seq(S),
         Len(p) = Len(q), \A i \in 1..Len(p) : p[i] = q[i]
  PROVE  p = q
  OBVIOUS

LEMMA Joins ==
  ASSUME NEW S, NEW p \in Seq(S), NEW q \in Seq(S)
  PROVE  /\ p \o q \in Seq(S) /\ Len(p \o q) = Len(p) + Len(q)
         /\ \A i \in 1..Len(p) + Len(q) :
              (p \o q)[i] = IF i <= Len(p) THEN p[i] ELSE q[i - Len(p)]
  OBVIOUS

LEMMA JoinsNothing ==
  ASSUME NEW S, NEW q \in Seq(S)
  PROVE  q \o <<>> = q /\ <<>> \o q = q
  OBVIOUS

LEMMA JoinsThree ==
  ASSUME NEW S, NEW p \in Seq(S), NEW q \in Seq(S), NEW r \in Seq(S)
  PROVE  (p \o q) \o r = p \o (q \o r)
  OBVIOUS

LEMMA CutsOut ==
  ASSUME NEW S, NEW q, NEW m \in Int, NEW n \in Int, \A i \in m..n : q[i] \in S
  PROVE  /\ SubSeq(q, m, n) \in Seq(S)
         /\ Len(SubSeq(q, m, n)) = IF m <= n THEN n - m + 1 ELSE 0
         /\ \A i \in 1..n - m + 1 : SubSeq(q, m, n)[i] = q[m + i - 1]
  OBVIOUS

LEMMA CutsNothing ==
  ASSUME NEW q, NEW m \in Int, NEW n \in Int, n < m
  PROVE  SubSeq(q, m, n) = <<>>
  OBVIOUS

LEMMA HeadAndTail ==
  ASSUME NEW S, NEW q \in Seq(S), q # <<>>
  PROVE  /\ Head(q) \in S /\ Tail(q) \in Seq(S) /\ Len(Tail(q)) = Len(q) - 1
         /\ \A i \in 1..Len(Tail(q)) : Tail(q)[i] = q[i + 1]
  OBVIOUS

LEMMA CutsOneMore ==
  ASSUME NEW S, NEW q \in Seq(S), NEW m \in 1..Len(q), NEW n \in m..Len(q)
  PROVE  SubSeq(q, m, n) = SubSeq(q, m, n - 1) \o <<q[n]>>
  OBVIOUS

LEMMA CutsAll ==
  ASSUME NEW S, NEW q \in Seq(S)
  PROVE  SubSeq(q, 1, Len(q)) = q
  OBVIOUS

LEMMA AppendJoins ==
  ASSUME NEW S, NEW q \in Seq(S), NEW e \in S
  PROVE  Append(q, e) = q \o <<e>>
  OBVIOUS

-----------------------------------------------------------------------------
(* The inductive invariant, part by part. *)

\* The options that take the next argument as their value.
Pairs == {"--serial-script", "--serial-delay-ms"}

Options ==
  [use_uefi : {Unset, "uefi", "bios"}, show_display : BOOLEAN, serial_only : BOOLEAN,
   serial_script_path : STRING \cup {Unset}, serial_delay_ms : {Unset, Number}]

\* The options read so far.
Read == {i \in Option : i < index}

\* What each field of opts says of the arguments a, R being the options read.
With(a, R, names) == {i \in R : a[i] \in names}

SaysMode(a, o, R) ==
  /\ o.use_uefi = Unset => With(a, R, {"uefi", "bios"}) = {}
  /\ o.use_uefi # Unset =>
       \E i \in R : With(a, R, {"uefi", "bios"}) = {i} /\ o.use_uefi = a[i]

SaysDisplay(a, o, R) ==
  o.show_display = \E i \in Latest(With(a, R, {"--show", "--headless"})) : a[i] = "--show"

SaysSerial(a, o, R) ==
  o.serial_only = (With(a, R, {"--serial-only", "--serial-script"}) # {})

SaysScript(a, o, R) ==
  o.serial_script_path # Unset =>
    \E i \in Latest(With(a, R, {"--serial-script"})) : o.serial_script_path = a[i + 1]

Says(a, o, R) ==
  SaysMode(a, o, R) /\ SaysDisplay(a, o, R) /\ SaysSerial(a, o, R) /\ SaysScript(a, o, R)

\* main has read a prefix of the command line, option by option, and opts says
\* what that prefix says.
ArgsInv ==
  /\ args \in Seq(STRING \ {Unset}) /\ index \in 1..Len(args) + 1 /\ opts \in Options
  /\ index <= Len(args) => index \in Option
  /\ Says(args, opts, Read)
  /\ main \in {"spawn", "load", "wait"} => index > Len(args) /\ opts.use_uefi # Unset

\* Where main is decides which of the others can be at work.
MainInv ==
  /\ main \in {"args", "spawn", "load", "wait", "exited"}
  /\ exitCode \in {NotYet, 0, 1, 2, Panicked}
  /\ guest \in {"off", "boot", "monitor", "auto", "session", "gone"}
  /\ fwd \in {"off", "loop", "gone"} /\ snd \in {"off", "wait", "run", "gone"}
  /\ main \in {"args", "spawn"} => guest = "off" /\ fwd = "off" /\ snd = "off"
  /\ main = "load" => guest # "off" /\ snd = "off" /\ Scripted
  /\ main = "wait" => guest # "off"
  /\ main = "exited" => \/ guest \in {"off", "gone"}
                        \/ Scripted /\ script = <<Bad>>
  /\ main \notin {"load", "wait"} => fwd # "loop" /\ snd \in {"off", "gone"}

\* While the forwarder is at work, what was printed is in the log or in the pipe.
OutInv ==
  /\ log \in Seq(Byte) /\ printed \in Seq(Byte) /\ outPipe \in Seq(Byte)
  /\ fwd = "loop" => printed = log \o outPipe
  /\ fwd # "loop" => outPipe = <<>>
  /\ guest \in {"off", "boot"} => log = <<>> /\ printed = <<>>

\* The last bytes of s, as many as the marker has.
Ending(s) ==
  IF Len(s) <= Len(Marker) THEN s ELSE SubSeq(s, Len(s) - Len(Marker) + 1, Len(s))

\* The window is the end of the log until the marker is in the log.
FwdInv ==
  /\ ready_sent \in BOOLEAN /\ channel \in 0..1
  /\ ready_sent => marker_window = Marker /\ HasMarker(log)
  /\ ~ ready_sent => marker_window = Ending(log) /\ ~ HasMarker(log) /\ channel = 0

\* What the script has to type.
Bytes == {script[i].bytes : i \in {j \in DOMAIN script : script[j].kind = "send"}}

\* A sender that has seen the marker types into a monitor.  Unless it has typed with
\* a session ahead, only the last command on its way can take the guest to ring 3,
\* and a guest that is there or about to go has nothing to read.
SndInv ==
  /\ file \in Files /\ script = load_serial_script(file)
  /\ next \in 1..Len(script) + 1 /\ fellBack \in BOOLEAN /\ hurried \in BOOLEAN
  /\ inPipe \in Seq(Bytes) /\ Len(inPipe) <= PipeMax
  /\ snd \in {"off", "wait"} => inPipe = <<>> /\ guest \notin {"session", "auto"}
  /\ ~ fellBack /\ ~ hurried =>
       /\ lost = <<>>
       /\ snd = "run" => guest \notin {"off", "boot"}
       /\ guest # "monitor" => inPipe = <<>>
       /\ \A i \in 1..Len(inPipe) - 1 : Word(inPipe[i]) \notin Leaving

IInv == ArgsInv /\ MainInv /\ OutInv /\ FwdInv /\ SndInv

-----------------------------------------------------------------------------
(* Induction and recursive functions. *)

\* Induction up to n, over a set.
LEMMA UpTo ==
  ASSUME NEW n \in Nat, NEW T, 0 \in T, \A i \in 0..n - 1 : i \in T => i + 1 \in T
  PROVE  0..n \subseteq T
<1> DEFINE R == {ss \in Nat \X Nat : ss[1] < ss[2]}
           D == (0..n) \ T
<1>1. IsWellFoundedOn(R, Nat)
  BY NatLessThanWellFounded, Zenon DEF OpToRel
<1> SUFFICES ASSUME D # {} PROVE FALSE
  BY Zenon
<1>2. D \subseteq Nat
  OBVIOUS
<1> HIDE DEF R, D
<1>3. PICK x \in D : \A y \in D : ~ (<<y, x>> \in R)
  BY <1>1, <1>2, WFMin, Zenon
<1>4. x \in 0..n /\ x # 0
  BY <1>3, Zenon DEF D
<1>5. x - 1 \in 0..n - 1 /\ x - 1 \in Nat /\ x \in Nat
  BY <1>4
<1>6. <<x - 1, x>> \in R
  BY <1>5 DEF R
<1>7. x - 1 \in T
  BY <1>3, <1>5, <1>6 DEF D
<1>8. x - 1 + 1 = x
  BY <1>5
<1> QED
  BY <1>3, <1>5, <1>7, <1>8, Zenon DEF D

\* w is what F makes of base in n rounds.
Rounds(w, n, base, F) == w[0] = base /\ \A i \in 1..n : w[i] = F[<<i, w[i - 1]>>]

\* A function defined by recursion on 0..n exists.
LEMMA RecursiveFunction ==
  ASSUME NEW n \in Nat, NEW S, NEW base \in S, NEW F \in [(1..n) \X S -> S]
  PROVE  \E w \in [0..n -> S] : Rounds(w, n, base, F)
<1> DEFINE IsRec(w, m) == w[0] = base /\ \A i \in 1..m : w[i] = F[<<i, w[i - 1]>>]
           T == {m \in 0..n : \E w \in [0..m -> S] : IsRec(w, m)}
<1>1. 0 \in T
  <2>1. [i \in 0..0 |-> base] \in [0..0 -> S] /\ IsRec([i \in 0..0 |-> base], 0)
    OBVIOUS
  <2> HIDE DEF IsRec
  <2>2. 0 \in 0..n
    OBVIOUS
  <2> QED
    BY <2>1, <2>2, Zenon
<1>2. ASSUME NEW m \in 0..n - 1, m \in T PROVE m + 1 \in T
  <2>1. PICK w \in [0..m -> S] : IsRec(w, m)
    BY <1>2, Zenon
  <2>2. m \in Nat /\ m + 1 \in 1..n /\ m + 1 \in 0..n /\ w[m] \in S
    OBVIOUS
  <2> DEFINE v == [i \in 0..m + 1 |-> IF i = m + 1 THEN F[<<m + 1, w[m]>>] ELSE w[i]]
  <2>3. F[<<m + 1, w[m]>>] \in S
    BY <2>2, Zenon
  <2>4. v \in [0..m + 1 -> S]
    BY <2>2, <2>3
  <2>5. ASSUME NEW i \in 1..m + 1 PROVE v[i] = F[<<i, v[i - 1]>>]
    <3>1. v[i - 1] = w[i - 1]
      BY <2>2
    <3>2. CASE i = m + 1
      <4>1. v[i] = F[<<m + 1, w[m]>>] /\ i - 1 = m
        BY <2>2, <3>2
      <4> HIDE DEF v
      <4> QED
        BY <3>1, <3>2, <4>1, Zenon
    <3>3. CASE i \in 1..m
      <4>1. v[i] = w[i]
        BY <2>2, <3>3
      <4> QED
        BY <2>1, <3>1, <3>3, <4>1, Zenon
    <3> QED
      BY <2>2, <3>2, <3>3
  <2>6. v[0] = base
    BY <2>1, <2>2
  <2> HIDE DEF v
  <2> QED
    BY <2>2, <2>4, <2>5, <2>6, Zenon
<1>3. 0..n \subseteq T
  <2> HIDE DEF T
  <2> QED
    BY <1>1, <1>2, UpTo, Zenon
<1>4. n \in T
  BY <1>3
<1> QED
  BY <1>4, Zenon DEF Rounds

\* An argument is an option unless the one before it is an option with a value.
LEMMA OptionOrValue ==
  ASSUME args \in Seq(STRING \ {Unset})
  PROVE  /\ Option \subseteq 1..Len(args)
         /\ \A i \in 1..Len(args) :
              i \in Option <=> ~ (i > 1 /\ i - 1 \in Option /\ args[i - 1] \in Pairs)
<1> DEFINE n == Len(args)
           F == [p \in (1..n) \X BOOLEAN |-> p[1] > 1 /\ ~ p[2] /\ args[p[1] - 1] \in Pairs]
           Value(v) == v = [i \in 0..n |-> i > 1 /\ ~ v[i - 1] /\ args[i - 1] \in Pairs]
<1>1. n \in Nat
  OBVIOUS
<1>2. F \in [(1..n) \X BOOLEAN -> BOOLEAN]
  BY Zenon
<1> HIDE DEF n
<1>3. PICK w \in [0..n -> BOOLEAN] :
        w[0] = FALSE /\ \A i \in 1..n : w[i] = F[<<i, w[i - 1]>>]
  <2> DEFINE S == BOOLEAN
             base == FALSE
  <2>1. base \in S /\ F \in [(1..n) \X S -> S]
    BY <1>2, Zenon
  <2> HIDE DEF F, S, base
  <2>2. PICK w \in [0..n -> S] : Rounds(w, n, base, F)
    BY <1>1, <2>1, RecursiveFunction, Zenon
  <2> QED
    BY <2>2, Zenon DEF S, base, Rounds
<1>4. \A i \in 1..n : w[i] = (i > 1 /\ ~ w[i - 1] /\ args[i - 1] \in Pairs)
  <2> TAKE i \in 1..n
  <2>1. <<i, w[i - 1]>> \in (1..n) \X BOOLEAN
    BY <1>1
  <2> QED
    BY <1>3, <2>1, Zenon
<1> HIDE DEF F
<1>5. Value(w)
  <2>1. \A i \in 0..n : w[i] = (i > 1 /\ ~ w[i - 1] /\ args[i - 1] \in Pairs)
    BY <1>1, <1>3, <1>4
  <2> QED
    BY <2>1, Zenon
<1>6. PICK v : Value(v) /\ Option = {i \in 1..n : ~ v[i]}
  <2> DEFINE c == CHOOSE v : Value(v)
  <2>1. Value(c)
    <3> HIDE DEF Value
    <3> QED
      BY <1>5, Zenon
  <2>2. Option = {i \in 1..n : ~ c[i]}
    BY Zenon DEF Option, Pairs, n
  <2> HIDE DEF c
  <2> QED
    BY <2>1, <2>2, Zenon
<1>7. \A i \in 1..n : v[i] = (i > 1 /\ ~ v[i - 1] /\ args[i - 1] \in Pairs)
  BY <1>1, <1>6
<1>8. \A i \in 1..n : i > 1 => (i - 1 \in Option <=> ~ v[i - 1])
  BY <1>1, <1>6
<1>9. \A i \in 1..n : i \in Option <=> ~ v[i]
  BY <1>6, Zenon
<1>10. \A i \in 1..n :
         i \in Option <=> ~ (i > 1 /\ i - 1 \in Option /\ args[i - 1] \in Pairs)
  BY <1>7, <1>8, <1>9, Zenon
<1> QED
  BY <1>6, <1>10, Zenon DEF n

\* t is s with e behind it.
Longer(t, s, e, S) ==
  /\ t \in Seq(S) /\ Len(t) = Len(s) + 1 /\ t[Len(s) + 1] = e
  /\ \A i \in 1..Len(s) : t[i] = s[i]

LEMMA AppendIsLonger ==
  ASSUME NEW S, NEW s \in Seq(S), NEW e \in S
  PROVE  Longer(Append(s, e), s, e, S)
BY DEF Longer

\* The elements of a piece of s.
LEMMA Piece ==
  ASSUME NEW S, NEW s \in Seq(S), NEW a \in 1..Len(s) + 1, NEW b \in a - 1..Len(s)
  PROVE  /\ SubSeq(s, a, b) \in Seq(S)
         /\ Len(SubSeq(s, a, b)) = b - a + 1
         /\ \A j \in 1..b - a + 1 : SubSeq(s, a, b)[j] = s[a + j - 1]
<1>1. a \in Int /\ b \in Int /\ Len(s) \in Nat
  OBVIOUS
<1>2. \A i \in a..b : s[i] \in S
  BY <1>1, CellInSet
<1>3. /\ SubSeq(s, a, b) \in Seq(S)
      /\ Len(SubSeq(s, a, b)) = IF a <= b THEN b - a + 1 ELSE 0
      /\ \A j \in 1..b - a + 1 : SubSeq(s, a, b)[j] = s[a + j - 1]
  BY ONLY <1>1, <1>2, CutsOut
<1>4. ~ (a <= b) => b - a + 1 = 0
  BY <1>1
<1> QED
  BY <1>3, <1>4, Zenon

-----------------------------------------------------------------------------
(* The window and the marker. *)

LEMMA MarkerLen == Marker \in Seq(Byte) /\ Len(Marker) \in Nat \ {0}
BY MarkerAssumption, NoCells, Zenon

\* The marker stands in s behind the first i bytes.
At(s, i) == i + Len(Marker) <= Len(s) /\ \A j \in 1..Len(Marker) : s[i + j] = Marker[j]

\* A piece of s is the marker exactly if their bytes are the same.
LEMMA PieceIsMarker ==
  ASSUME NEW s \in Seq(Byte), NEW i \in Nat, i + Len(Marker) <= Len(s)
  PROVE  SubSeq(s, i + 1, i + Len(Marker)) = Marker <=> At(s, i)
<1> DEFINE m == Len(Marker)
           piece == SubSeq(s, i + 1, i + m)
<1>1. m \in Nat \ {0} /\ Len(s) \in Nat
  BY MarkerLen
<1> HIDE DEF m
<1> DEFINE a == i + 1
           b == i + m
<1>3. a \in 1..Len(s) + 1 /\ b \in a - 1..Len(s)
  BY <1>1 DEF m
<1> HIDE DEF a, b
<1>4. /\ SubSeq(s, a, b) \in Seq(Byte)
      /\ Len(SubSeq(s, a, b)) = b - a + 1
      /\ \A j \in 1..b - a + 1 : SubSeq(s, a, b)[j] = s[a + j - 1]
  BY <1>3, Piece, Zenon
<1> HIDE DEF piece
<1>5. piece \in Seq(Byte) /\ Len(piece) = m /\ \A j \in 1..m : piece[j] = s[i + j]
  <2>1. b - a + 1 = m /\ \A j \in 1..m : a + j - 1 = i + j
    BY <1>1 DEF a, b
  <2>2. piece = SubSeq(s, a, b)
    BY Zenon DEF piece, a, b
  <2> QED
    BY <1>4, <2>1, <2>2, Zenon
<1>6. ASSUME \A j \in 1..m : s[i + j] = Marker[j] PROVE piece = Marker
  <2>1. Len(piece) = Len(Marker) /\ \A j \in 1..Len(piece) : piece[j] = Marker[j]
    BY <1>5, <1>6, Zenon DEF m
  <2> QED
    BY <1>5, <2>1, MarkerLen, SameCells, Zenon
<1>7. ASSUME piece = Marker PROVE \A j \in 1..m : s[i + j] = Marker[j]
  BY <1>5, <1>7, Zenon
<1> QED
  BY <1>6, <1>7, Zenon DEF At, piece, m

LEMMA MarkerSomewhere ==
  ASSUME NEW s \in Seq(Byte)
  PROVE  HasMarker(s) <=> \E i \in Nat : At(s, i)
<1>1. Len(Marker) \in Nat \ {0} /\ Len(s) \in Nat
  BY MarkerLen
<1>2. ASSUME NEW i \in 1..Len(s) - Len(Marker) + 1,
             SubSeq(s, i, i + Len(Marker) - 1) = Marker
      PROVE  At(s, i - 1)
  <2>1. i - 1 \in Nat /\ i - 1 + Len(Marker) <= Len(s)
    BY <1>1
  <2>2. i - 1 + 1 = i /\ i - 1 + Len(Marker) = i + Len(Marker) - 1
    BY <1>1
  <2> QED
    BY <1>2, <2>1, <2>2, PieceIsMarker, Zenon
<1>3. ASSUME NEW i \in Nat, At(s, i)
      PROVE  /\ i + 1 \in 1..Len(s) - Len(Marker) + 1
             /\ SubSeq(s, i + 1, i + 1 + Len(Marker) - 1) = Marker
  <2>1. i + 1 \in 1..Len(s) - Len(Marker) + 1
    BY <1>1, <1>3 DEF At
  <2>2. i + 1 + Len(Marker) - 1 = i + Len(Marker) /\ i + Len(Marker) <= Len(s)
    BY <1>1, <1>3 DEF At
  <2> QED
    BY <1>3, <2>1, <2>2, PieceIsMarker, Zenon
<1>4. ASSUME HasMarker(s) PROVE \E i \in Nat : At(s, i)
  <2>1. PICK i \in 1..Len(s) - Len(Marker) + 1 : SubSeq(s, i, i + Len(Marker) - 1) = Marker
    BY <1>4, Zenon DEF HasMarker
  <2>2. i - 1 \in Nat
    BY <1>1
  <2> QED
    BY <1>2, <2>1, <2>2, Zenon
<1> QED
  BY <1>3, <1>4, Zenon DEF HasMarker

\* The bytes of the end of s.
LEMMA EndingBytes ==
  ASSUME NEW s \in Seq(Byte)
  PROVE  /\ Ending(s) \in Seq(Byte)
         /\ Len(Ending(s)) = IF Len(s) <= Len(Marker) THEN Len(s) ELSE Len(Marker)
         /\ \A j \in 1..Len(Ending(s)) : Ending(s)[j] = s[Len(s) - Len(Ending(s)) + j]
<1> DEFINE m == Len(Marker)
           n == Len(s)
<1>1. m \in Nat \ {0} /\ n \in Nat
  BY MarkerLen
<1>2. CASE n <= m
  <2>1. Ending(s) = s
    BY <1>2, Zenon DEF Ending
  <2>2. \A j \in 1..n : n - n + j = j
    BY <1>1
  <2> QED
    BY <1>2, <2>1, <2>2, Zenon
<1>3. CASE n > m
  <2> DEFINE piece == SubSeq(s, n - m + 1, n)
  <2>1. Ending(s) = piece
    BY <1>1, <1>3 DEF Ending
  <2>2. n - m + 1 \in 1..n + 1 /\ n \in n - m + 1 - 1..n /\ n - (n - m + 1) + 1 = m
    BY <1>1, <1>3
  <2>4. /\ piece \in Seq(Byte)
        /\ Len(piece) = n - (n - m + 1) + 1
        /\ \A j \in 1..n - (n - m + 1) + 1 : piece[j] = s[n - m + 1 + j - 1]
    <3> HIDE DEF m
    <3> QED
      BY <2>2, Piece
  <2> HIDE DEF piece, m, n
  <2>5. \A j \in 1..m : n - m + 1 + j - 1 = n - m + j
    BY <1>1
  <2>6. Len(piece) = m /\ \A j \in 1..m : piece[j] = s[n - m + j]
    BY <2>2, <2>4, <2>5, Zenon
  <2>7. ~ (n <= m)
    BY <1>1, <1>3
  <2>8. /\ Ending(s) \in Seq(Byte) /\ Len(Ending(s)) = m
        /\ \A j \in 1..m : Ending(s)[j] = s[n - m + j]
    BY <2>1, <2>4, <2>6, Zenon
  <2> QED
    BY <2>7, <2>8, Zenon DEF m, n
<1> QED
  BY <1>1, <1>2, <1>3

\* The end of s is the marker exactly if the marker stands at the end of s.
LEMMA EndingIsMarker ==
  ASSUME NEW s \in Seq(Byte)
  PROVE  Ending(s) = Marker <=> (Len(s) >= Len(Marker) /\ At(s, Len(s) - Len(Marker)))
<1> DEFINE m == Len(Marker)
           n == Len(s)
<1>1. m \in Nat \ {0} /\ n \in Nat /\ Marker \in Seq(Byte)
  BY MarkerLen
<1>2. /\ Ending(s) \in Seq(Byte)
      /\ Len(Ending(s)) = IF n <= m THEN n ELSE m
      /\ \A j \in 1..Len(Ending(s)) : Ending(s)[j] = s[n - Len(Ending(s)) + j]
  BY EndingBytes, Zenon
<1>3. ASSUME Ending(s) = Marker PROVE n >= m /\ At(s, n - m)
  <2>1. n >= m /\ n - m + m = n /\ Len(Ending(s)) = m
    BY <1>1, <1>2, <1>3
  <2>2. \A j \in 1..m : Marker[j] = s[n - m + j]
    BY <1>2, <1>3, <2>1, Zenon
  <2>3. n - m + m <= n
    BY <1>1, <2>1
  <2> QED
    BY <2>1, <2>2, <2>3, Zenon DEF At
<1>4. ASSUME n >= m, At(s, n - m) PROVE Ending(s) = Marker
  <2>1. Len(Ending(s)) = m
    BY <1>1, <1>2, <1>4
  <2>2. \A j \in 1..m : Ending(s)[j] = Marker[j]
    BY <1>2, <1>4, <2>1, Zenon DEF At
  <2> QED
    BY <1>1, <1>2, <2>1, <2>2, SameCells, Zenon
<1> QED
  BY <1>3, <1>4, Zenon

\* One byte more.
LEMMA OneByteMore ==
  ASSUME NEW s \in Seq(Byte), NEW b \in Byte
  PROVE  LET w == Ending(s)
             v == IF Len(w) = Len(Marker) THEN Tail(w) ELSE w
             t == Append(s, b)
         IN  /\ HasMarker(s) => HasMarker(t)
             /\ ~ HasMarker(s) => w # Marker
             /\ Append(v, b) = Ending(t)
             /\ ~ HasMarker(s) => (HasMarker(t) <=> Ending(t) = Marker)
<1> DEFINE m == Len(Marker)
           n == Len(s)
           w == Ending(s)
           v == IF Len(w) = m THEN Tail(w) ELSE w
           t == Append(s, b)
<1>1. m \in Nat \ {0} /\ n \in Nat /\ Marker \in Seq(Byte)
  BY MarkerLen
<1>2. /\ t \in Seq(Byte) /\ Len(t) = n + 1 /\ t[n + 1] = b
      /\ \A i \in 1..n : t[i] = s[i]
  <2>1. Longer(t, s, b, Byte)
    BY AppendIsLonger, Zenon
  <2> HIDE DEF t
  <2> QED
    BY <2>1, Zenon DEF Longer
<1> HIDE DEF t
<1>3. ASSUME NEW i \in Nat, At(s, i) PROVE At(t, i)
  <2>1. i + m <= n /\ \A j \in 1..m : s[i + j] = Marker[j]
    BY <1>3, Zenon DEF At
  <2>2. \A j \in 1..m : i + j \in 1..n
    BY <1>1, <2>1
  <2> QED
    BY <1>1, <1>2, <2>1, <2>2 DEF At
<1>4. ASSUME NEW i \in Nat, At(t, i), i + m <= n PROVE At(s, i)
  <2>1. \A j \in 1..m : i + j \in 1..n
    BY <1>1, <1>4
  <2> QED
    BY <1>1, <1>2, <1>4, <2>1, Zenon DEF At
<1>5. HasMarker(s) => HasMarker(t)
  BY <1>2, <1>3, MarkerSomewhere, Zenon
<1>6. ~ HasMarker(s) => w # Marker
  <2> SUFFICES ASSUME w = Marker PROVE HasMarker(s)
    BY Zenon
  <2>1. n >= m /\ At(s, n - m)
    BY EndingIsMarker, Zenon
  <2>2. n - m \in Nat
    BY <1>1, <2>1
  <2> QED
    BY <2>1, <2>2, MarkerSomewhere, Zenon
<1>7. ~ HasMarker(s) => (HasMarker(t) <=> Ending(t) = Marker)
  <2> SUFFICES ASSUME ~ HasMarker(s) PROVE HasMarker(t) <=> Ending(t) = Marker
    BY Zenon
  <2>1. ASSUME HasMarker(t) PROVE Ending(t) = Marker
    <3>1. PICK i \in Nat : At(t, i)
      BY <1>2, <2>1, MarkerSomewhere, Zenon
    <3>2. ~ (i + m <= n)
      BY <1>4, <3>1, MarkerSomewhere, Zenon
    <3>3. i = n + 1 - m /\ n + 1 >= m
      BY <1>1, <1>2, <3>1, <3>2 DEF At
    <3> QED
      BY <1>2, <3>1, <3>3, EndingIsMarker
  <2>2. ASSUME Ending(t) = Marker PROVE HasMarker(t)
    <3>1. n + 1 >= m /\ At(t, n + 1 - m)
      BY <1>2, <2>2, EndingIsMarker
    <3>2. n + 1 - m \in Nat
      BY <1>1, <3>1
    <3> QED
      BY <1>2, <3>1, <3>2, MarkerSomewhere, Zenon
  <2> QED
    BY <2>1, <2>2, Zenon
<1>8. Append(v, b) = Ending(t)
  <2> DEFINE k == Len(v)
  <2>1. /\ w \in Seq(Byte) /\ Len(w) = (IF n <= m THEN n ELSE m)
        /\ \A j \in 1..Len(w) : w[j] = s[n - Len(w) + j]
    BY EndingBytes, Zenon
  <2> HIDE DEF w
  <2>2. /\ v \in Seq(Byte) /\ k = (IF n + 1 <= m THEN n ELSE m - 1)
        /\ \A j \in 1..k : v[j] = s[n - k + j]
    <3>1. CASE Len(w) = m
      <4>1. w # <<>> /\ n >= m
        BY <1>1, <2>1, <3>1
      <4>2. /\ Tail(w) \in Seq(Byte) /\ Len(Tail(w)) = m - 1
            /\ \A j \in 1..m - 1 : Tail(w)[j] = w[j + 1]
        BY <2>1, <3>1, <4>1, HeadAndTail
      <4>3. \A j \in 1..m - 1 : j + 1 \in 1..m /\ n - m + (j + 1) = n - (m - 1) + j
        BY <1>1
      <4>4. v = Tail(w) /\ k = m - 1
        BY <3>1, <4>2, Zenon
      <4>5. ASSUME NEW j \in 1..m - 1 PROVE v[j] = s[n - (m - 1) + j]
        <5>1. w[j + 1] = s[n - m + (j + 1)]
          BY <2>1, <3>1, <4>3, Zenon
        <5> QED
          BY <4>2, <4>3, <4>4, <5>1, Zenon
      <4> QED
        BY <1>1, <4>1, <4>2, <4>4, <4>5
    <3>2. CASE Len(w) # m
      <4>1. v = w /\ k = n /\ n + 1 <= m
        BY <1>1, <2>1, <3>2
      <4>2. Len(w) = n
        BY <4>1
      <4>3. \A j \in 1..n : w[j] = s[n - n + j]
        BY <2>1, <4>2, Zenon
      <4> QED
        BY <2>1, <4>1, <4>2, <4>3, Zenon
    <3> QED
      BY <3>1, <3>2, Zenon
  <2> HIDE DEF v
  <2>3. k \in 0..n
    BY <1>1, <2>2
  <2> DEFINE u == Append(v, b)
  <2>4. /\ u \in Seq(Byte) /\ Len(u) = k + 1
        /\ \A j \in 1..k : u[j] = v[j]
        /\ u[k + 1] = b
    <3>1. Longer(u, v, b, Byte)
      BY <2>2, AppendIsLonger, Zenon
    <3> HIDE DEF u
    <3> QED
      BY <3>1, Zenon DEF Longer
  <2>5. /\ Ending(t) \in Seq(Byte)
        /\ Len(Ending(t)) = IF n + 1 <= m THEN n + 1 ELSE m
        /\ \A j \in 1..Len(Ending(t)) : Ending(t)[j] = t[n + 1 - Len(Ending(t)) + j]
    <3>1. /\ Ending(t) \in Seq(Byte)
          /\ Len(Ending(t)) = IF Len(t) <= m THEN Len(t) ELSE m
          /\ \A j \in 1..Len(Ending(t)) : Ending(t)[j] = t[Len(t) - Len(Ending(t)) + j]
      BY <1>2, EndingBytes, Zenon
    <3>2. Len(t) = n + 1
      BY <1>2, Zenon
    <3> HIDE DEF n, m
    <3> QED
      BY <1>1, <3>1, <3>2
  <2>6. Len(Ending(t)) = k + 1
    BY <1>1, <2>2, <2>5
  <2> HIDE DEF u, k
  <2>7. ASSUME NEW j \in 1..k + 1 PROVE u[j] = Ending(t)[j]
    <3>1. n + 1 - (k + 1) + j = n - k + j
      BY <1>1, <2>3
    <3>2. Ending(t)[j] = t[n - k + j]
      BY <2>5, <2>6, <3>1, Zenon
    <3>3. CASE j = k + 1
      <4>1. n - k + j = n + 1
        BY <1>1, <2>3, <3>3
      <4> QED
        BY <1>2, <2>4, <3>2, <3>3, <4>1, Zenon
    <3>4. CASE j \in 1..k
      <4>1. n - k + j \in 1..n
        BY <1>1, <2>3, <3>4
      <4> QED
        BY <1>2, <2>2, <2>4, <3>2, <3>4, <4>1, Zenon
    <3> QED
      BY <2>3, <3>3, <3>4
  <2>8. u = Ending(t)
    BY <2>4, <2>5, <2>6, <2>7, SameCells, Zenon
  <2> QED
    BY <2>8, Zenon DEF u
<1> QED
  BY <1>5, <1>6, <1>7, <1>8, Zenon DEF t

Regroup(x, y, z) == x \o (y \o z) = (x \o y) \o z

\* Concatenation may be regrouped: the bytes of two reads are the bytes of
\* their joined stream.
LEMMA Regroups ==
  ASSUME NEW S, NEW x \in Seq(S), NEW y \in Seq(S), NEW z \in Seq(S)
  PROVE  Regroup(x, y, z)
<1>1. (x \o y) \o z = x \o (y \o z)
  BY JoinsThree
<1> QED
  BY <1>1, Zenon DEF Regroup

\* The forwarder's window slides over the bytes of a read as over one stream.
LEMMA Slides ==
  ASSUME NEW L \in Seq(Byte), NEW s \in Seq(Byte), ~ HasMarker(L)
  PROVE  Slide(Ending(L), s) = IF HasMarker(L \o s) THEN Marker ELSE Ending(L \o s)
<1> DEFINE n == Len(s)
           W == Seq(Byte)
           Next1(w, e) ==
             IF w = Marker THEN Marker
             ELSE Append(IF Len(w) = Len(Marker) THEN Tail(w) ELSE w, e)
           F == [p \in (1..n) \X W |-> Next1(p[2], s[p[1]])]
           IsSlide(w) ==
             w = [i \in 0..n |->
                    IF i = 0 THEN Ending(L)
                    ELSE IF w[i - 1] = Marker THEN Marker
                    ELSE Append(IF Len(w[i - 1]) = Len(Marker) THEN Tail(w[i - 1])
                                                               ELSE w[i - 1], s[i])]
<1>1. n \in Nat /\ Ending(L) \in W
  BY EndingBytes
<1>2. ASSUME NEW w \in W, NEW e \in Byte PROVE Next1(w, e) \in W
  <2>1. Len(w) = Len(Marker) => Tail(w) \in W
    <3>1. Len(w) = Len(Marker) => w # <<>>
      BY MarkerLen, Zenon
    <3> QED
      BY <3>1, HeadAndTail, Zenon
  <2> DEFINE v == IF Len(w) = Len(Marker) THEN Tail(w) ELSE w
  <2>2. v \in W
    BY <2>1, Zenon
  <2> HIDE DEF v
  <2>3. Append(v, e) \in W
    BY <2>2, AppendIsLonger, Zenon DEF Longer
  <2> QED
    BY <2>3, MarkerLen, Zenon DEF v
<1>3. F \in [(1..n) \X W -> W]
  <2>1. \A p \in (1..n) \X W : p[2] \in W /\ s[p[1]] \in Byte
    OBVIOUS
  <2> HIDE DEF Next1
  <2> QED
    BY <1>2, <2>1, Zenon
<1>4. PICK w \in [0..n -> W] : Rounds(w, n, Ending(L), F)
  <2> HIDE DEF F, n, W
  <2> QED
    BY <1>1, <1>3, RecursiveFunction, Zenon
<1>5. w[0] = Ending(L) /\ \A i \in 1..n : w[i] = Next1(w[i - 1], s[i])
  <2>1. ASSUME NEW i \in 1..n PROVE w[i] = Next1(w[i - 1], s[i])
    <3>1. <<i, w[i - 1]>> \in (1..n) \X W
      <4>1. i - 1 \in 0..n
        BY <1>1
      <4> HIDE DEF n, W
      <4> QED
        BY <4>1, Zenon
    <3>2. F[<<i, w[i - 1]>>] = Next1(w[i - 1], s[i])
      <4> HIDE DEF Next1, W, n
      <4> QED
        BY <3>1, Zenon
    <3>3. w[i] = F[<<i, w[i - 1]>>]
      BY <1>4, Zenon DEF Rounds
    <3> QED
      BY <3>2, <3>3, Zenon
  <2> QED
    BY <1>4, <2>1, Zenon DEF Rounds
<1> HIDE DEF F
<1>6. IsSlide(w)
  <2>1. \A i \in 0..n : w[i] = IF i = 0 THEN Ending(L) ELSE Next1(w[i - 1], s[i])
    <3> HIDE DEF Next1
    <3> QED
      BY <1>1, <1>5
  <2>2. w = [i \in 0..n |-> w[i]]
    BY <1>4, Zenon
  <2> HIDE DEF n, W
  <2> QED
    BY <2>1, <2>2, Zenon
<1>7. PICK c : IsSlide(c) /\ Slide(Ending(L), s) = c[n]
  <2> DEFINE d == CHOOSE v : IsSlide(v)
  <2>1. IsSlide(d)
    <3> HIDE DEF IsSlide
    <3> QED
      BY <1>6, Zenon
  <2>2. Slide(Ending(L), s) = d[n]
    BY Zenon DEF Slide
  <2> HIDE DEF d, IsSlide
  <2> QED
    BY <2>1, <2>2, Zenon
<1>8. c[0] = Ending(L) /\ \A i \in 1..n : c[i] = Next1(c[i - 1], s[i])
  <2>1. \A i \in 0..n : c[i] = IF i = 0 THEN Ending(L) ELSE Next1(c[i - 1], s[i])
    BY <1>7, Zenon
  <2> HIDE DEF Next1
  <2> QED
    BY <1>1, <2>1
<1> HIDE DEF IsSlide, Next1
<1> DEFINE pre(i) == L \o SubSeq(s, 1, i)
           T == {i \in 0..n : c[i] = IF HasMarker(pre(i)) THEN Marker ELSE Ending(pre(i))}
<1>9. pre(0) = L
  BY CutsNothing, JoinsNothing
<1>10. 0 \in T
  <2>1. c[0] = IF HasMarker(pre(0)) THEN Marker ELSE Ending(pre(0))
    BY <1>8, <1>9, Zenon
  <2> HIDE DEF pre
  <2> QED
    BY <1>1, <2>1
<1>11. ASSUME NEW i \in 0..n - 1, i \in T PROVE i + 1 \in T
  <2>1. i + 1 \in 1..n /\ i + 1 \in 0..n /\ i + 1 - 1 = i /\ i \in 0..n /\ s[i + 1] \in Byte
    BY <1>1
  <2>2. pre(i) \in Seq(Byte) /\ pre(i + 1) = Append(pre(i), s[i + 1])
    <3> DEFINE a == SubSeq(s, 1, i)
               e == s[i + 1]
    <3>1. a \in Seq(Byte)
      BY <1>1, Piece
    <3>2. SubSeq(s, 1, i + 1) = a \o <<e>>
      <4>1. 1 \in 1..Len(s) /\ i + 1 \in 1..Len(s)
        BY <1>1
      <4> QED
        BY <2>1, <4>1, CutsOneMore
    <3> HIDE DEF a, e
    <3>3. <<e>> \in Seq(Byte) /\ e \in Byte
      BY <2>1 DEF e
    <3>4. L \o a \in Seq(Byte)
      BY <3>1
    <3>5. L \o (a \o <<e>>) = (L \o a) \o <<e>>
      <4> DEFINE one == <<e>>
      <4>1. one \in Seq(Byte)
        BY <3>3, Zenon
      <4> HIDE DEF one
      <4>0. L \in Seq(Byte)
        BY Zenon
      <4>2. L \o (a \o one) = (L \o a) \o one
        <5>1. Regroup(L, a, one)
          BY <3>1, <4>0, <4>1, Regroups, Zenon
        <5> QED
          BY <5>1, Zenon DEF Regroup
      <4> QED
        BY <4>2, Zenon DEF one
    <3>6. Append(L \o a, e) = (L \o a) \o <<e>>
      <4> DEFINE q == L \o a
      <4>1. q \in Seq(Byte)
        BY <3>4, Zenon
      <4> HIDE DEF q
      <4>2. Append(q, e) = q \o <<e>>
        BY <3>3, <4>1, AppendJoins, Zenon
      <4> QED
        BY <4>2, Zenon DEF q
    <3> QED
      BY <3>2, <3>4, <3>5, <3>6, Zenon DEF a, e
  <2>3. c[i + 1] = Next1(c[i], s[i + 1])
    BY <1>8, <2>1
  <2>4. c[i] = IF HasMarker(pre(i)) THEN Marker ELSE Ending(pre(i))
    BY <1>11, Zenon
  <2> HIDE DEF pre
  <2>5. CASE HasMarker(pre(i))
    <3>1. HasMarker(pre(i + 1))
      BY <2>1, <2>2, <2>5, OneByteMore, Zenon
    <3>2. c[i + 1] = Marker
      BY <2>3, <2>4, <2>5, Zenon DEF Next1
    <3> QED
      BY <2>1, <3>1, <3>2, Zenon
  <2>6. CASE ~ HasMarker(pre(i))
    <3>1. c[i] = Ending(pre(i)) /\ c[i] # Marker
      BY <2>1, <2>2, <2>4, <2>6, OneByteMore, Zenon
    <3>2. c[i + 1] = Append(IF Len(c[i]) = Len(Marker) THEN Tail(c[i]) ELSE c[i], s[i + 1])
      BY <2>3, <3>1, Zenon DEF Next1
    <3>3. /\ c[i + 1] = Ending(pre(i + 1))
          /\ HasMarker(pre(i + 1)) <=> Ending(pre(i + 1)) = Marker
      <4> DEFINE P == pre(i)
                 e == s[i + 1]
      <4>1. P \in Seq(Byte) /\ e \in Byte
        BY <2>1, <2>2, Zenon
      <4> HIDE DEF P, e
      <4>2. /\ Append(IF Len(Ending(P)) = Len(Marker) THEN Tail(Ending(P)) ELSE Ending(P), e)
                 = Ending(Append(P, e))
            /\ ~ HasMarker(P) =>
                 (HasMarker(Append(P, e)) <=> Ending(Append(P, e)) = Marker)
        BY <4>1, OneByteMore, Zenon
      <4> QED
        BY <2>2, <2>6, <3>1, <3>2, <4>2, Zenon DEF P, e
    <3> QED
      BY <2>1, <3>3, Zenon
  <2> QED
    BY <2>5, <2>6, Zenon
<1>12. n \in T
  <2>1. 0..n \subseteq T
    <3> HIDE DEF T
    <3> QED
      BY <1>1, <1>10, <1>11, UpTo, Zenon
  <2> QED
    BY <1>1, <2>1
<1>13. pre(n) = L \o s
  BY CutsAll, Zenon
<1> QED
  BY <1>7, <1>12, <1>13, Zenon

-----------------------------------------------------------------------------
(* The script. *)

\* A line stands for at most one action.
LEMMA LineIsOneAction ==
  ASSUME NEW raw
  PROVE  ParseLine(raw) = <<>> \/ \E x : ParseLine(raw) = <<x>>
BY Zenon DEF ParseLine

\* The actions with those of one more line.
Push(actions, raw) == actions \o ParseLine(raw)

\* w is what one line after the other pushes.
Pushes(w, lines) ==
  w = [n \in 0..Len(lines) |-> IF n = 0 THEN <<>> ELSE Push(w[n - 1], lines[n])]

\* The loop of load_serial_script pushes a sequence of actions.
LEMMA LinesPush ==
  ASSUME NEW lines \in Seq(Seq(STRING))
  PROVE  \E A : LoadLines(lines) \in Seq(A)
<1> DEFINE n == Len(lines)
           A == {ParseLine(lines[i])[1] : i \in 1..n}
           F == [p \in (1..n) \X Seq(A) |-> Push(p[2], lines[p[1]])]
<1>1. n \in Nat
  OBVIOUS
<1>2. ASSUME NEW i \in 1..n PROVE ParseLine(lines[i]) \in Seq(A)
  <2>1. CASE ParseLine(lines[i]) = <<>>
    BY <2>1
  <2>2. CASE \E x : ParseLine(lines[i]) = <<x>>
    <3>1. PICK x : ParseLine(lines[i]) = <<x>>
      BY <2>2, Zenon
    <3>2. x \in A
      BY <3>1
    <3> HIDE DEF A
    <3> QED
      BY <3>1, <3>2
  <2> QED
    BY <2>1, <2>2, LineIsOneAction, Zenon
<1> HIDE DEF n, A
<1>3. ASSUME NEW s \in Seq(A), NEW i \in 1..n PROVE Push(s, lines[i]) \in Seq(A)
  BY <1>2, Joins, Zenon DEF Push
<1>4. F \in [(1..n) \X Seq(A) -> Seq(A)]
  <2>1. \A p \in (1..n) \X Seq(A) : p[1] \in 1..n /\ p[2] \in Seq(A)
    BY Zenon
  <2>2. \A p \in (1..n) \X Seq(A) : Push(p[2], lines[p[1]]) \in Seq(A)
    BY <2>1, <1>3, Zenon
  <2> QED
    BY <2>2, Zenon
<1>5. <<>> \in Seq(A)
  OBVIOUS
<1>6. PICK w \in [0..n -> Seq(A)] : Rounds(w, n, <<>>, F)
  <2> HIDE DEF F
  <2> QED
    BY <1>1, <1>4, <1>5, RecursiveFunction, Zenon
<1>7. ASSUME NEW i \in 1..n PROVE w[i] = Push(w[i - 1], lines[i])
  <2>1. w[i - 1] \in Seq(A)
    BY <1>1
  <2>2. <<i, w[i - 1]>> \in (1..n) \X Seq(A)
    BY <2>1, Zenon
  <2>3. w[i] = F[<<i, w[i - 1]>>]
    BY <1>6, Zenon DEF Rounds
  <2> QED
    BY <2>2, <2>3, Zenon
<1> HIDE DEF F
<1>8. Pushes(w, lines)
  <2>1. ASSUME NEW i \in 0..n
        PROVE  w[i] = IF i = 0 THEN <<>> ELSE Push(w[i - 1], lines[i])
    <3>1. i # 0 => i \in 1..n
      BY <1>1
    <3> QED
      BY <3>1, <1>6, <1>7, Zenon DEF Rounds
  <2>2. w = [i \in 0..n |-> w[i]]
    BY Zenon
  <2> QED
    BY <2>1, <2>2, Zenon DEF Pushes, n
<1>9. PICK c : Pushes(c, lines) /\ LoadLines(lines) = c[n]
  <2> DEFINE d == CHOOSE v : Pushes(v, lines)
  <2>1. Pushes(d, lines)
    BY <1>8, Zenon
  <2>2. LoadLines(lines) = d[n]
    BY Zenon DEF LoadLines, Pushes, Push, n
  <2> HIDE DEF d
  <2> QED
    BY <2>1, <2>2, Zenon
<1>11. c[0] = <<>> /\ \A i \in 1..n : c[i] = Push(c[i - 1], lines[i])
  <2>1. \A i \in 0..n : c[i] = IF i = 0 THEN <<>> ELSE Push(c[i - 1], lines[i])
    BY <1>9, Zenon DEF Pushes, n
  <2>2. 0 \in 0..n /\ \A i \in 1..n : i # 0 /\ i \in 0..n
    BY <1>1
  <2> QED
    BY <2>1, <2>2, Zenon
<1> DEFINE T == {i \in 0..n : c[i] \in Seq(A)}
<1>12. 0 \in T
  <2>1. 0 \in 0..n
    BY <1>1
  <2> QED
    BY <2>1, <1>5, <1>11, Zenon
<1>13. ASSUME NEW i \in 0..n - 1, i \in T PROVE i + 1 \in T
  <2>1. i + 1 \in 1..n /\ i + 1 \in 0..n /\ i + 1 - 1 = i /\ c[i] \in Seq(A)
    BY <1>1, <1>13
  <2>2. c[i + 1] = Push(c[i], lines[i + 1])
    BY <2>1, <1>11
  <2> QED
    BY <2>1, <2>2, <1>3, Zenon
<1>14. 0..n \subseteq T
  <2> HIDE DEF T
  <2> QED
    BY <1>1, <1>12, <1>13, UpTo, Zenon
<1>15. n \in T
  BY <1>1, <1>14
<1> QED
  BY <1>9, <1>15, Zenon

\* What load_serial_script returns is a sequence, and not an empty one.
LEMMA ScriptIsSequence ==
  ASSUME NEW f \in Files
  PROVE  /\ Len(load_serial_script(f)) \in Nat \ {0}
         /\ DOMAIN load_serial_script(f) = 1..Len(load_serial_script(f))
<1> DEFINE s == load_serial_script(f)
<1>1. f.lines \in Seq(Seq(STRING))
  BY FilesAssumption, Zenon
<1>2. PICK A : LoadLines(f.lines) \in Seq(A)
  BY <1>1, LinesPush, Zenon
<1>3. \/ s = <<Bad>>
      \/ s # <<>> /\ s = LoadLines(f.lines)
      \/ \E x : s = <<x>>
  <2> DEFINE one == <<[kind |-> "send", bytes |-> normalize_raw_script_bytes(f.lines[1])]>>
             actions == CASE f.kind = "text" -> LoadLines(f.lines)
                          [] f.kind = "raw" -> one
                          [] OTHER -> <<>>
  <2>1. s = IF actions = <<>> \/ \E i \in DOMAIN actions : actions[i] = Bad
              THEN <<Bad>> ELSE actions
    BY Zenon DEF load_serial_script
  <2>2. actions = LoadLines(f.lines) \/ actions = one \/ actions = <<>>
    <3> HIDE DEF one
    <3> QED
      BY Zenon
  <2> HIDE DEF s, actions
  <2> QED
    BY <2>1, <2>2, Zenon
<1> HIDE DEF s
<1>4. \E S : s \in Seq(S) /\ s # <<>>
  <2>1. ASSUME NEW x, s = <<x>> PROVE \E S : s \in Seq(S) /\ s # <<>>
    <3>1. s \in Seq({x}) /\ s # <<>>
      BY <2>1
    <3> QED
      BY <3>1, Zenon
  <2> QED
    BY <1>2, <1>3, <2>1, Zenon
<1>5. PICK S : s \in Seq(S) /\ s # <<>>
  BY <1>4, Zenon
<1>6. Len(s) \in Nat /\ DOMAIN s = 1..Len(s) /\ Len(s) # 0
  BY <1>5
<1> QED
  BY <1>6, Zenon DEF s

-----------------------------------------------------------------------------
(* The command line. *)

LEMMA OptionStays ==
  ASSUME args' = args
  PROVE  Option' = Option
BY DEF Option

\* Taking an option, with its value if it has one, brings main to the next option.
LEMMA Advance ==
  ASSUME ArgsInv, args' = args, index <= Len(args),
         \/ args[index] \notin Pairs /\ index' = index + 1
         \/ args[index] \in Pairs /\ index' = index + 2 /\ index + 1 <= Len(args)
  PROVE  /\ Option' = Option /\ index \in Option
         /\ index' \in 1..Len(args) + 1
         /\ index' <= Len(args) => index' \in Option
         /\ Read' = Read \cup {index}
         /\ \A i \in Read : i \in Option /\ i < index /\ i \in 1..Len(args)
<1>1. /\ args \in Seq(STRING \ {Unset}) /\ index \in 1..Len(args) + 1 /\ index \in Option
  BY Zenon DEF ArgsInv
<1>2. Len(args) \in Nat /\ index \in 1..Len(args)
  BY <1>1
<1>3. /\ Option \subseteq 1..Len(args)
      /\ \A i \in 1..Len(args) :
           i \in Option <=> ~ (i > 1 /\ i - 1 \in Option /\ args[i - 1] \in Pairs)
  BY <1>1, OptionOrValue, Zenon
<1>4. Option' = Option
  BY OptionStays, Zenon
<1>5. index' \in 1..Len(args) + 1
  BY <1>2
<1>6. args[index] \in Pairs /\ index + 1 <= Len(args) => index + 1 \notin Option
  <2>1. index + 1 > 1 /\ index + 1 - 1 = index
    BY <1>2
  <2>2. index + 1 <= Len(args) => index + 1 \in 1..Len(args)
    BY <1>2
  <2> QED
    BY <1>1, <1>3, <2>1, <2>2
<1>7. ASSUME index' <= Len(args) PROVE index' \in Option
  <2>1. index' \in 1..Len(args) /\ index' > 1
    BY <1>2, <1>7
  <2>2. CASE args[index] \notin Pairs /\ index' = index + 1
    <3>1. index' - 1 = index
      BY <1>2, <2>2
    <3> QED
      BY <1>3, <2>1, <2>2, <3>1, Zenon
  <2>3. CASE args[index] \in Pairs /\ index' = index + 2 /\ index + 1 <= Len(args)
    <3>1. index' - 1 = index + 1
      BY <1>2, <2>3
    <3> QED
      BY <1>3, <1>6, <2>1, <2>3, <3>1, Zenon
  <2> QED
    BY <2>2, <2>3, Zenon
<1>8. \A i \in Option : i < index' <=> i < index \/ i = index
  <2> TAKE i \in Option
  <2>1. i \in 1..Len(args)
    BY <1>3, Zenon
  <2>2. args[index] \in Pairs /\ index + 1 <= Len(args) => i # index + 1
    BY <1>6, Zenon
  <2> QED
    BY <1>2, <2>1, <2>2
<1> QED
  BY <1>1, <1>3, <1>4, <1>5, <1>7, <1>8, Zenon DEF Read

\* One more option with none of the names changes nothing of what they say, ...
LEMMA WithSame ==
  ASSUME NEW a, NEW R, NEW k, NEW names, a[k] \notin names
  PROVE  With(a, R \cup {k}, names) = With(a, R, names)
BY Zenon DEF With

\* ... and one with such a name is the latest of them.
LEMMA WithLatest ==
  ASSUME NEW a, NEW R \in SUBSET Int, NEW k \in Int, \A i \in R : i < k, NEW names, a[k] \in names
  PROVE  Latest(With(a, R \cup {k}, names)) = {k}
<1>1. k \in With(a, R \cup {k}, names) /\ \A i \in With(a, R \cup {k}, names) : i \in Int /\ i <= k
  BY DEF With
<1> HIDE DEF With
<1>2. \A i \in With(a, R \cup {k}, names) : (\A j \in With(a, R \cup {k}, names) : j <= i) => i = k
  BY <1>1
<1> QED
  BY <1>1, <1>2, Zenon DEF Latest

\* What the options say after one more argument.
LEMMA OneMore ==
  ASSUME NEW a, NEW R \in SUBSET Int, NEW k \in Int, \A i \in R : i < k, NEW o, NEW p
  PROVE  /\ \/ p.use_uefi = o.use_uefi /\ a[k] \notin {"uefi", "bios"}
            \/ o.use_uefi = Unset /\ p.use_uefi = a[k] /\ a[k] \in {"uefi", "bios"}
            => (SaysMode(a, o, R) => SaysMode(a, p, R \cup {k}))
         /\ \/ p.show_display = o.show_display /\ a[k] \notin {"--show", "--headless"}
            \/ p.show_display = (a[k] = "--show") /\ a[k] \in {"--show", "--headless"}
            => (SaysDisplay(a, o, R) => SaysDisplay(a, p, R \cup {k}))
         /\ \/ /\ p.serial_only = o.serial_only
               /\ a[k] \notin {"--serial-only", "--serial-script"}
            \/ p.serial_only = TRUE /\ a[k] \in {"--serial-only", "--serial-script"}
            => (SaysSerial(a, o, R) => SaysSerial(a, p, R \cup {k}))
         /\ \/ p.serial_script_path = o.serial_script_path /\ a[k] # "--serial-script"
            \/ p.serial_script_path = a[k + 1] /\ a[k] = "--serial-script"
            => (SaysScript(a, o, R) => SaysScript(a, p, R \cup {k}))
<1>1. ASSUME SaysMode(a, o, R), p.use_uefi = o.use_uefi, a[k] \notin {"uefi", "bios"}
      PROVE  SaysMode(a, p, R \cup {k})
  BY <1>1, WithSame DEF SaysMode
<1>2. ASSUME SaysMode(a, o, R), o.use_uefi = Unset, p.use_uefi = a[k],
             a[k] \in {"uefi", "bios"}
      PROVE  SaysMode(a, p, R \cup {k})
  <2>1. With(a, R, {"uefi", "bios"}) = {}
    BY <1>2, Zenon DEF SaysMode
  <2>2. With(a, R \cup {k}, {"uefi", "bios"}) = {k}
    BY <1>2, <2>1, Zenon DEF With
  <2>3. p.use_uefi # Unset
    BY <1>2, Zenon DEF Unset
  <2> QED
    BY <1>2, <2>2, <2>3, Zenon DEF SaysMode
<1>3. ASSUME SaysDisplay(a, o, R), p.show_display = o.show_display,
             a[k] \notin {"--show", "--headless"}
      PROVE  SaysDisplay(a, p, R \cup {k})
  BY <1>3, WithSame DEF SaysDisplay
<1>4. ASSUME p.show_display = (a[k] = "--show"), a[k] \in {"--show", "--headless"}
      PROVE  SaysDisplay(a, p, R \cup {k})
  <2>1. Latest(With(a, R \cup {k}, {"--show", "--headless"})) = {k}
    <3> DEFINE names == {"--show", "--headless"}
    <3>1. a[k] \in names
      BY <1>4, Zenon
    <3> HIDE DEF names
    <3>2. Latest(With(a, R \cup {k}, names)) = {k}
      BY <3>1, WithLatest
    <3> QED
      BY <3>2, Zenon DEF names
  <2> QED
    BY <1>4, <2>1, Zenon DEF SaysDisplay
<1>5. ASSUME SaysSerial(a, o, R), p.serial_only = o.serial_only,
             a[k] \notin {"--serial-only", "--serial-script"}
      PROVE  SaysSerial(a, p, R \cup {k})
  BY <1>5, WithSame DEF SaysSerial
<1>6. ASSUME p.serial_only = TRUE, a[k] \in {"--serial-only", "--serial-script"}
      PROVE  SaysSerial(a, p, R \cup {k})
  BY <1>6, Zenon DEF SaysSerial, With
<1>7. ASSUME SaysScript(a, o, R), p.serial_script_path = o.serial_script_path,
             a[k] # "--serial-script"
      PROVE  SaysScript(a, p, R \cup {k})
  BY <1>7, WithSame DEF SaysScript
<1>8. ASSUME p.serial_script_path = a[k + 1], a[k] = "--serial-script"
      PROVE  SaysScript(a, p, R \cup {k})
  <2>1. Latest(With(a, R \cup {k}, {"--serial-script"})) = {k}
    <3> DEFINE names == {"--serial-script"}
    <3>1. a[k] \in names
      BY <1>8, Zenon
    <3> HIDE DEF names
    <3>2. Latest(With(a, R \cup {k}, names)) = {k}
      BY <3>1, WithLatest
    <3> QED
      BY <3>2, Zenon DEF names
  <2> QED
    BY <1>8, <2>1, Zenon DEF SaysScript
<1> QED
  BY <1>1, <1>2, <1>3, <1>4, <1>5, <1>6, <1>7, <1>8, ZenonT(60)

\* A step that leaves the command line and its options alone keeps ArgsInv, if it
\* brings main no closer to QEMU than the options allow.
LEMMA ArgsStay ==
  ASSUME ArgsInv, UNCHANGED <<args, index, opts>>,
         main' \in {"spawn", "load", "wait"} => index > Len(args) /\ opts.use_uefi # Unset
  PROVE  ArgsInv'
<1>1. Option' = Option
  BY OptionStays, Zenon
<1>2. Read' = Read
  BY <1>1, Zenon DEF Read
<1> QED
  BY <1>1, <1>2, Zenon DEF ArgsInv

\* An argument that is taken keeps ArgsInv, if the new options are what it says.
LEMMA ArgsTaken ==
  ASSUME ArgsInv, UNCHANGED <<args, main>>, main = "args", index <= Len(args),
         \/ args[index] \notin Pairs /\ index' = index + 1
         \/ args[index] \in Pairs /\ index' = index + 2 /\ index + 1 <= Len(args),
         opts' \in Options,
         \/ opts'.use_uefi = opts.use_uefi /\ args[index] \notin {"uefi", "bios"}
         \/ opts.use_uefi = Unset /\ opts'.use_uefi = args[index]
              /\ args[index] \in {"uefi", "bios"},
         \/ opts'.show_display = opts.show_display /\ args[index] \notin {"--show", "--headless"}
         \/ opts'.show_display = (args[index] = "--show")
              /\ args[index] \in {"--show", "--headless"},
         \/ opts'.serial_only = opts.serial_only
              /\ args[index] \notin {"--serial-only", "--serial-script"}
         \/ opts'.serial_only = TRUE /\ args[index] \in {"--serial-only", "--serial-script"},
         \/ opts'.serial_script_path = opts.serial_script_path /\ args[index] # "--serial-script"
         \/ opts'.serial_script_path = args[index + 1] /\ args[index] = "--serial-script"
  PROVE  ArgsInv'
<1>1. /\ Option' = Option
      /\ index' \in 1..Len(args) + 1
      /\ index' <= Len(args) => index' \in Option
      /\ Read' = Read \cup {index}
      /\ \A i \in Read : i \in Option /\ i < index /\ i \in 1..Len(args)
  BY Advance, Zenon
<1>2. Says(args, opts, Read) /\ args \in Seq(STRING \ {Unset}) /\ index \in 1..Len(args) + 1
  BY Zenon DEF ArgsInv
<1> DEFINE a == args
           o == opts
           p == opts'
           R == Read
           k == index
<1>3. R \in SUBSET Int /\ k \in Int /\ \A i \in R : i < k
  BY <1>1, <1>2
<1>4. SaysMode(a, o, R) /\ SaysDisplay(a, o, R) /\ SaysSerial(a, o, R) /\ SaysScript(a, o, R)
  BY <1>2, Zenon DEF Says
<1>5. /\ \/ p.use_uefi = o.use_uefi /\ a[k] \notin {"uefi", "bios"}
         \/ o.use_uefi = Unset /\ p.use_uefi = a[k] /\ a[k] \in {"uefi", "bios"}
      /\ \/ p.show_display = o.show_display /\ a[k] \notin {"--show", "--headless"}
         \/ p.show_display = (a[k] = "--show") /\ a[k] \in {"--show", "--headless"}
      /\ \/ p.serial_only = o.serial_only /\ a[k] \notin {"--serial-only", "--serial-script"}
         \/ p.serial_only = TRUE /\ a[k] \in {"--serial-only", "--serial-script"}
      /\ \/ p.serial_script_path = o.serial_script_path /\ a[k] # "--serial-script"
         \/ p.serial_script_path = a[k + 1] /\ a[k] = "--serial-script"
  BY Zenon
<1>6. Says(args, opts', Read \cup {index})
  <2> HIDE DEF a, o, p, R, k
  <2>1. /\ SaysMode(a, p, R \cup {k}) /\ SaysDisplay(a, p, R \cup {k})
        /\ SaysSerial(a, p, R \cup {k}) /\ SaysScript(a, p, R \cup {k})
    BY <1>3, <1>4, <1>5, OneMore, Zenon
  <2> QED
    BY <2>1, Zenon DEF Says, a, p, R, k
<1>7. Says(args, opts, Read)'
  BY <1>1, <1>6, Zenon
<1> QED
  BY <1>1, <1>2, <1>7, Zenon DEF ArgsInv

\* The argument loop keeps ArgsInv, one argument at a time.
LEMMA ArgsStep ==
  ASSUME ArgsInv, ParseArg \/ ArgsDone
  PROVE  ArgsInv'
<1>1. ASSUME ArgsDone PROVE ArgsInv'
  BY <1>1, ArgsStay, Zenon DEF ArgsDone, Leave, ArgsInv
<1>2. ASSUME ParseArg, NEW c, Leave(c) PROVE ArgsInv'
  BY <1>2, ArgsStay, Zenon DEF ParseArg, Leave
<1> SUFFICES ASSUME ParseArg PROVE ArgsInv'
  BY <1>1, Zenon
<1>3. main = "args" /\ index <= Len(args) /\ args' = args
  BY Zenon DEF ParseArg
<1>4. /\ opts \in Options /\ args \in Seq(STRING \ {Unset})
      /\ index \in 1..Len(args) + 1
  BY Zenon DEF ArgsInv
<1>5. CASE ModeArg /\ opts.use_uefi = Unset
  <2>1. /\ args[index] \in {"uefi", "bios"} /\ index' = index + 1 /\ UNCHANGED main
        /\ opts' = [opts EXCEPT !.use_uefi = args[index]]
    BY <1>4, <1>5, Zenon DEF ModeArg, Accept
  <2>2. /\ opts' \in Options /\ opts'.use_uefi = args[index]
        /\ opts'.show_display = opts.show_display /\ opts'.serial_only = opts.serial_only
        /\ opts'.serial_script_path = opts.serial_script_path
    BY <1>4, <2>1, Zenon DEF Options
  <2> QED
    BY <1>3, <1>4, <1>5, <2>1, <2>2, ArgsTaken, Zenon DEF Pairs
<1>6. CASE FlagArg
  <2>1. CASE args[index] = "--show" /\ Accept([opts EXCEPT !.show_display = TRUE], 1)
    BY <1>3, <1>4, <2>1, ArgsTaken, Zenon DEF Accept, Options, Pairs
  <2>2. CASE args[index] = "--headless" /\ Accept([opts EXCEPT !.show_display = FALSE], 1)
    BY <1>3, <1>4, <2>2, ArgsTaken, Zenon DEF Accept, Options, Pairs
  <2>3. CASE args[index] = "--serial-only" /\ Accept([opts EXCEPT !.serial_only = TRUE], 1)
    BY <1>3, <1>4, <2>3, ArgsTaken, Zenon DEF Accept, Options, Pairs
  <2> QED
    BY <1>6, <2>1, <2>2, <2>3, Zenon DEF FlagArg
<1>7. CASE ScriptArg /\ index + 1 <= Len(args)
  <2>1. args[index + 1] \in STRING
    BY <1>3, <1>4, <1>7
  <2>2. /\ args[index] = "--serial-script" /\ index' = index + 2 /\ UNCHANGED main
        /\ opts' = [opts EXCEPT !.serial_script_path = args[index + 1], !.serial_only = TRUE]
    BY <1>4, <1>7 DEF ScriptArg, Accept
  <2>3. /\ opts' \in Options /\ opts'.use_uefi = opts.use_uefi
        /\ opts'.show_display = opts.show_display /\ opts'.serial_only = TRUE
        /\ opts'.serial_script_path = args[index + 1]
    BY <1>4, <2>1, <2>2, Zenon DEF Options
  <2> QED
    BY <1>3, <1>4, <1>7, <2>2, <2>3, ArgsTaken, Zenon DEF Pairs
<1>8. CASE DelayArg /\ index + 1 <= Len(args) /\ args[index + 1] = Number
  BY <1>3, <1>4, <1>8, ArgsTaken DEF DelayArg, Accept, Options, Pairs
<1>9. \/ \E c \in {0, 1} : Leave(c)
      \/ ModeArg /\ opts.use_uefi = Unset
      \/ FlagArg
      \/ ScriptArg /\ index + 1 <= Len(args)
      \/ DelayArg /\ index + 1 <= Len(args) /\ args[index + 1] = Number
  BY <1>4 DEF ParseArg, ModeArg, ScriptArg, DelayArg, HelpArg, OtherArg
<1> QED
  BY <1>2, <1>5, <1>6, <1>7, <1>8, <1>9, Zenon

-----------------------------------------------------------------------------
(* The invariance of IInv. *)

LEMMA InitArgs == Init => ArgsInv
<1> SUFFICES ASSUME Init PROVE ArgsInv
  BY Zenon
<1>1. /\ args \in Seq(STRING \ {Unset}) /\ index = 1 /\ opts = NoOptions /\ main = "args"
  BY ArgListsAssumption, Zenon DEF Init, ArgsInit
<1>2. Len(args) \in Nat
  BY <1>1
<1>3. /\ Option \subseteq 1..Len(args)
      /\ \A i \in 1..Len(args) :
           i \in Option <=> ~ (i > 1 /\ i - 1 \in Option /\ args[i - 1] \in Pairs)
  BY <1>1, OptionOrValue, Zenon
<1>4. index <= Len(args) => index \in Option
  BY <1>1, <1>2, <1>3
<1>5. Read = {}
  <2>1. \A i \in 1..Len(args) : ~ (i < 1)
    OBVIOUS
  <2> QED
    BY <1>1, <1>3, <2>1, Zenon DEF Read
<1>6. opts \in Options
  <2>1. NoOptions \in Options
    BY Zenon DEF Options, NoOptions
  <2> QED
    BY <1>1, <2>1, Zenon
<1>7. \A names : With(args, {}, names) = {} /\ Latest({}) = {}
  BY Zenon DEF With, Latest
<1>8. Says(args, opts, {})
  BY <1>1, <1>7, Zenon DEF Says, SaysMode, SaysDisplay, SaysSerial, SaysScript, NoOptions
<1> QED
  BY <1>1, <1>2, <1>4, <1>5, <1>6, <1>8 DEF ArgsInv

LEMMA InitRest == Init => MainInv /\ OutInv /\ FwdInv /\ SndInv
<1> SUFFICES ASSUME Init PROVE MainInv /\ OutInv /\ FwdInv /\ SndInv
  BY Zenon
<1>1. MainInv
  BY Zenon DEF Init, ArgsInit, MainInv
<1>2. OutInv
  BY DEF Init, OutInv
<1>3. FwdInv
  <2>1. log = <<>> /\ log \in Seq(Byte) /\ Len(log) = 0
    BY DEF Init
  <2>2. Len(Marker) \in Nat \ {0}
    BY MarkerLen, Zenon
  <2>3. ~ HasMarker(log)
    BY <2>1, <2>2 DEF HasMarker
  <2>4. Ending(log) = <<>>
    BY <2>1, <2>2 DEF Ending
  <2> QED
    <3>1. ready_sent = FALSE /\ channel = 0 /\ marker_window = <<>>
      BY Zenon DEF Init
    <3>2. channel \in 0..1
      BY <3>1
    <3> QED
      BY <2>3, <2>4, <3>1, <3>2, Zenon DEF FwdInv
<1>4. SndInv
  <2>1. file \in Files /\ script = load_serial_script(file) /\ next = 1 /\ inPipe = <<>>
    BY Zenon DEF Init
  <2>2. Len(script) \in Nat
    BY <2>1, ScriptIsSequence, Zenon
  <2>3. inPipe \in Seq(Bytes) /\ Len(inPipe) = 0 /\ PipeMax \in Nat
    BY <2>1, BoundsAssumption
  <2>4. next \in 1..Len(script) + 1 /\ 1..Len(inPipe) - 1 = {} /\ Len(inPipe) <= PipeMax
    BY <2>1, <2>2, <2>3
  <2>5. fellBack = FALSE /\ hurried = FALSE /\ lost = <<>> /\ snd = "off" /\ guest = "off"
    BY Zenon DEF Init
  <2> QED
    BY <2>1, <2>3, <2>4, <2>5, Zenon DEF SndInv
<1> QED
  BY <1>1, <1>2, <1>3, <1>4, Zenon

LEMMA InitIInv == Init => IInv
BY InitArgs, InitRest, Zenon DEF IInv

\* Every step keeps what main has read of its command line.
LEMMA NextArgs ==
  ASSUME IInv, [Next]_vars
  PROVE  ArgsInv'
<1>1. ArgsInv /\ MainInv
  BY Zenon DEF IInv
<1>2. CASE MainArgs
  BY <1>1, <1>2, ArgsStep, Zenon DEF MainArgs
<1>3. CASE MainSpawn
  BY <1>1, <1>3, ArgsStay, Zenon DEF MainSpawn, ArgsInv
<1>4. CASE MainSpawnFails \/ MainLoadFails \/ MainWait
  BY <1>1, <1>4, ArgsStay, Zenon DEF MainSpawnFails, MainLoadFails, MainWait, Exit, Leave
<1>5. CASE MainLoad
  BY <1>1, <1>5, ArgsStay, Zenon DEF MainLoad, ArgsInv
<1>6. CASE UNCHANGED mainVars
  BY <1>1, <1>6, ArgsStay, Zenon DEF mainVars, ArgsInv
<1>7. Forwarder \/ ForwarderFails => UNCHANGED mainVars
  BY Zenon DEF Forwarder, ForwarderFails, FwdRead, FwdEof, FwdReadError, FwdWriteError, FwdStops
<1>8. Sender => UNCHANGED mainVars
  BY Zenon DEF Sender, SndReady, SndTimeout, SndDisconnected, FallBack, SndSend, SndSleep, SndDone,
         SndWriteError, SndStops
<1>9. GuestBoots \/ Guest \/ GuestLeaves \/ GuestStops => UNCHANGED mainVars
  BY Zenon DEF GuestBoots, Guest, GuestLeaves, GuestResumes, GuestReads, GuestStops,
       GuestWindowEnds,
         GuestFails, QemuEnds, OpensMonitor, Ends
<1> QED
  BY <1>2, <1>3, <1>4, <1>5, <1>6, <1>7, <1>8, <1>9, Zenon DEF Next, Main, vars

\* main exits with 0, 1 or 2.
LEMMA CodeIsSmall == \A s : process_code(s) \in {0, 1, 2}
BY Zenon DEF process_code

\* A command leaves the guest at its monitor or takes it to ring 3.
LEMMA AfterReading ==
  ASSUME guest \in {"monitor", "auto"}, NEW w
  PROVE  After(w) \in {"monitor", "auto", "session"}
BY Zenon DEF After

LEMMA GuestIsUp ==
  ASSUME GuestReads
  PROVE  guest \in {"monitor", "auto"} /\ guest' \in {"monitor", "auto", "session", "gone"}
<1>1. guest \in {"monitor", "auto"}
  BY Zenon DEF GuestReads
<1>2. guest' = "gone" \/ guest' = After(Word(Head(inPipe)))
  BY Zenon DEF GuestReads, Ends
<1> QED
  BY <1>1, <1>2, AfterReading, Zenon

\* Every step keeps main, its threads and QEMU in step with each other.
LEMMA NextMain ==
  ASSUME IInv, [Next]_vars
  PROVE  MainInv'
<1> USE DEF Scripted
<1>1. MainInv
  BY Zenon DEF IInv
<1>2. CASE MainArgs
  <2>1. /\ main = "args" /\ UNCHANGED <<script, fwdVars, sndVars, guestVars>>
    BY <1>2, Zenon DEF MainArgs, ParseArg, ArgsDone
  <2>2. \/ \E c \in {0, 1} : main' = "exited" /\ exitCode' = c
        \/ main' \in {"args", "spawn"} /\ exitCode' = exitCode
    BY <1>2, Zenon DEF MainArgs, ParseArg, ArgsDone, ModeArg, FlagArg, ScriptArg, DelayArg, HelpArg,
               OtherArg, Leave, Accept
  <2> QED
    BY <1>1, <2>1, <2>2, Zenon DEF MainInv, fwdVars, sndVars, guestVars
<1>3. CASE MainSpawn
  BY <1>1, <1>3, Zenon DEF MainSpawn, MainInv, sndVars
<1>4. CASE MainSpawnFails \/ MainLoadFails
  BY <1>1, <1>4, Zenon DEF MainSpawnFails, MainLoadFails, Exit, Leave, MainInv, guestVars
<1>5. CASE MainLoad
  BY <1>1, <1>5, Zenon DEF MainLoad, MainInv, fwdVars, guestVars
<1>6. CASE MainWait
  BY <1>1, <1>6, CodeIsSmall, Zenon DEF MainWait, Exit, Leave, MainInv, guestVars
<1>7. CASE Forwarder \/ ForwarderFails
  <2>1. /\ UNCHANGED <<script, mainVars, sndVars, guestVars>>
        /\ fwd = "loop" /\ fwd' \in {"loop", "gone"}
    BY <1>7, Zenon DEF Forwarder, ForwarderFails, FwdRead, FwdEof, FwdReadError, FwdWriteError,
               FwdStops
  <2> QED
    BY <1>1, <2>1 DEF MainInv, mainVars, sndVars, guestVars
<1>8. CASE Sender
  <2>1. /\ UNCHANGED <<script, mainVars, fwdVars, guestVars>>
        /\ snd \in {"wait", "run"} /\ snd' \in {"run", "gone"}
    BY <1>8, Zenon DEF Sender, SndReady, SndTimeout, SndDisconnected, FallBack, SndSend, SndSleep,
               SndDone, SndWriteError, SndStops
  <2> QED
    BY <1>1, <2>1 DEF MainInv, mainVars, fwdVars, guestVars
<1>9. CASE GuestBoots \/ Guest \/ GuestLeaves \/ GuestStops
  <2>1. /\ UNCHANGED <<script, mainVars, fwdVars, sndVars>>
        /\ guest \in {"boot", "monitor", "auto", "session"}
        /\ guest' \in {"monitor", "auto", "session", "gone"}
    <3>1. CASE GuestReads
      BY <3>1, GuestIsUp, Zenon DEF GuestReads, Ends
    <3> QED
      BY <1>1, <1>9, <3>1, Zenon DEF GuestBoots, Guest, GuestLeaves, GuestResumes, GuestStops,
           GuestWindowEnds, GuestFails, QemuEnds, OpensMonitor, Ends, MainInv
  <2> QED
    BY <1>1, <2>1 DEF MainInv, mainVars, fwdVars, sndVars
<1>10. CASE UNCHANGED vars
  BY <1>1, <1>10 DEF MainInv, vars, mainVars, fwdVars, sndVars, guestVars
<1> QED
  BY <1>2, <1>3, <1>4, <1>5, <1>6, <1>7, <1>8, <1>9, <1>10 DEF Next, Main

\* A sequence is what a read takes of it and what it leaves.
LEMMA TakeAndLeave ==
  ASSUME NEW S, NEW s \in Seq(S), NEW n \in 0..Len(s)
  PROVE  /\ SubSeq(s, 1, n) \in Seq(S) /\ SubSeq(s, n + 1, Len(s)) \in Seq(S)
         /\ Len(SubSeq(s, 1, n)) = n /\ Len(SubSeq(s, n + 1, Len(s))) = Len(s) - n
         /\ s = SubSeq(s, 1, n) \o SubSeq(s, n + 1, Len(s))
<1> DEFINE a == SubSeq(s, 1, n)
           b == SubSeq(s, n + 1, Len(s))
<1>1. Len(s) \in Nat /\ n \in Nat
  OBVIOUS
<1>2. a \in Seq(S) /\ Len(a) = n /\ \A j \in 1..n : a[j] = s[j]
  <2> DEFINE k == 1
  <2>1. k \in 1..Len(s) + 1 /\ n \in k - 1..Len(s) /\ n - k + 1 = n
        /\ \A j \in 1..n : k + j - 1 = j
    BY <1>1
  <2> HIDE DEF k
  <2>2. /\ SubSeq(s, k, n) \in Seq(S)
        /\ Len(SubSeq(s, k, n)) = n - k + 1
        /\ \A j \in 1..n - k + 1 : SubSeq(s, k, n)[j] = s[k + j - 1]
    BY <2>1, Piece
  <2> QED
    BY <2>1, <2>2, Zenon DEF k
<1>3. b \in Seq(S) /\ Len(b) = Len(s) - n /\ \A j \in 1..Len(s) - n : b[j] = s[n + j]
  <2> DEFINE k == n + 1
             m == Len(s)
  <2>1. k \in 1..Len(s) + 1 /\ m \in k - 1..Len(s) /\ m - k + 1 = Len(s) - n
        /\ \A j \in 1..Len(s) - n : k + j - 1 = n + j
    BY <1>1
  <2> HIDE DEF k, m
  <2>2. /\ SubSeq(s, k, m) \in Seq(S)
        /\ Len(SubSeq(s, k, m)) = m - k + 1
        /\ \A j \in 1..m - k + 1 : SubSeq(s, k, m)[j] = s[k + j - 1]
    BY <2>1, Piece
  <2> QED
    BY <2>1, <2>2, Zenon DEF k, m
<1> HIDE DEF a, b
<1>4. /\ a \o b \in Seq(S) /\ Len(a \o b) = Len(s)
      /\ \A i \in 1..Len(s) : (a \o b)[i] = IF i <= n THEN a[i] ELSE b[i - n]
  BY <1>1, <1>2, <1>3
<1>5. ASSUME NEW i \in 1..Len(s) PROVE (a \o b)[i] = s[i]
  <2>1. CASE i <= n
    BY <1>1, <1>2, <1>4, <2>1
  <2>2. CASE i > n
    <3>1. i - n \in 1..Len(s) - n /\ n + (i - n) = i /\ ~ (i <= n)
      BY <1>1, <2>2
    <3> QED
      BY <1>3, <1>4, <3>1, Zenon
  <2>3. i <= n \/ i > n
    BY <1>1
  <2> QED
    BY <2>1, <2>2, <2>3, Zenon
<1>6. a \o b = s
  BY <1>4, <1>5, SameCells, Zenon
<1> QED
  BY <1>2, <1>3, <1>6, Zenon DEF a, b

\* What the guest prints is bytes.
LEMMA EmitKeepsOut ==
  ASSUME OutInv, NEW s \in Seq(Byte), Emit(s), UNCHANGED <<log, fwd>>,
         guest' \notin {"off", "boot"}
  PROVE  OutInv'
<1>1. log \in Seq(Byte) /\ printed \in Seq(Byte) /\ outPipe \in Seq(Byte)
  BY Zenon DEF OutInv
<1>2. printed' \in Seq(Byte)
  BY <1>1 DEF Emit
<1>3. CASE fwd = "loop"
  <2>1. outPipe' = outPipe \o s /\ printed' = printed \o s /\ printed = log \o outPipe
    BY <1>3, Zenon DEF Emit, OutInv
  <2>2. outPipe' \in Seq(Byte)
    BY <1>1, <2>1
  <2>3. log \o (outPipe \o s) = (log \o outPipe) \o s
    <3>1. Regroup(log, outPipe, s)
      BY <1>1, Regroups, Zenon
    <3> QED
      BY <3>1, Zenon DEF Regroup
  <2>4. printed' = log \o outPipe'
    BY <2>1, <2>3, Zenon
  <2> QED
    BY <1>1, <1>2, <1>3, <2>2, <2>4, Zenon DEF OutInv
<1>4. CASE fwd # "loop"
  <2>1. outPipe' = <<>>
    BY <1>4, Zenon DEF Emit
  <2> QED
    BY <1>1, <1>2, <1>4, <2>1, Zenon DEF OutInv
<1> QED
  BY <1>3, <1>4, Zenon

\* Every step keeps the guest's output together.
LEMMA NextOut ==
  ASSUME IInv, [Next]_vars
  PROVE  OutInv'
<1>1. MainInv /\ OutInv
  BY Zenon DEF IInv
<1>2. log \in Seq(Byte) /\ printed \in Seq(Byte) /\ outPipe \in Seq(Byte)
  BY <1>1, Zenon DEF OutInv
<1>3. CASE UNCHANGED <<log, printed, outPipe, fwd, guest>>
  BY <1>1, <1>3, Zenon DEF OutInv
<1>4. CASE MainSpawn
  <2>1. log = <<>> /\ printed = <<>> /\ outPipe = <<>>
    BY <1>1, <1>4, Zenon DEF MainSpawn, MainInv, OutInv
  <2>2. UNCHANGED <<log, printed, outPipe>>
    BY <1>4, Zenon DEF MainSpawn
  <2>3. <<>> \o <<>> = <<>> /\ <<>> \in Seq(Byte)
    OBVIOUS
  <2>4. log' = <<>> /\ printed' = <<>> /\ outPipe' = <<>>
    BY <2>1, <2>2, Zenon
  <2>5. printed' = log' \o outPipe'
    BY ONLY <2>3, <2>4, Zenon
  <2>6. log' \in Seq(Byte) /\ printed' \in Seq(Byte) /\ outPipe' \in Seq(Byte)
    BY ONLY <2>3, <2>4, Zenon
  <2> QED
    BY <2>4, <2>5, <2>6, Zenon DEF OutInv
<1>5. CASE MainSpawnFails \/ MainLoadFails \/ MainWait
  <2>1. fwd' = "gone" /\ outPipe' = <<>> /\ UNCHANGED <<log, printed, guest>>
    BY <1>5, Zenon DEF MainSpawnFails, MainLoadFails, MainWait, Exit, guestVars
  <2> QED
    BY <1>1, <2>1 DEF OutInv
<1>6. ASSUME NEW n \in 1..ReadMax, FwdRead(n) PROVE OutInv'
  <2> DEFINE a == SubSeq(outPipe, 1, n)
             b == SubSeq(outPipe, n + 1, Len(outPipe))
  <2>1. /\ fwd = "loop" /\ n <= Len(outPipe) /\ log' = log \o a /\ outPipe' = b
        /\ UNCHANGED <<printed, fwd, guest>>
    BY <1>6, Zenon DEF FwdRead, guestVars
  <2>2. n \in 0..Len(outPipe) /\ Len(outPipe) # 0
    BY <1>2, <2>1, BoundsAssumption
  <2>3. a \in Seq(Byte) /\ b \in Seq(Byte) /\ outPipe = a \o b
    BY <1>2, <2>2, TakeAndLeave, Zenon
  <2> HIDE DEF a, b
  <2>4. log \o (a \o b) = (log \o a) \o b
    <3>1. Regroup(log, a, b)
      BY <1>2, <2>3, Regroups, Zenon
    <3> QED
      BY <3>1, Zenon DEF Regroup
  <2>5. printed = log \o outPipe
    BY <1>1, <2>1, Zenon DEF OutInv
  <2>6. printed' = log' \o outPipe'
    BY <2>1, <2>3, <2>4, <2>5, Zenon
  <2>7. log' \in Seq(Byte)
    BY <1>2, <2>1, <2>3
  <2>8. guest \notin {"off", "boot"}
    <3> SUFFICES ASSUME guest \in {"off", "boot"} PROVE FALSE
      BY Zenon
    <3>1. log = <<>> /\ printed = <<>>
      BY <1>1, Zenon DEF OutInv
    <3>2. Len(log \o outPipe) = Len(log) + Len(outPipe)
      BY <1>2
    <3> QED
      BY <1>2, <2>2, <2>5, <3>1, <3>2
  <2> QED
    BY <1>2, <2>1, <2>3, <2>6, <2>7, <2>8, Zenon DEF OutInv
<1>7. CASE FwdEof \/ ForwarderFails
  <2>1. /\ fwd' = "gone" /\ outPipe' = <<>> /\ UNCHANGED <<log, printed, guest>>
    BY <1>7, Zenon DEF FwdEof, ForwarderFails, FwdReadError, FwdWriteError, FwdStops, guestVars
  <2> QED
    BY <1>1, <2>1 DEF OutInv
<1>8. CASE GuestBoots \/ Guest \/ GuestLeaves \/ GuestStops
  <2>1. <<"x">> \in Seq(Byte) /\ <<>> \in Seq(Byte)
    BY ByteAssumption
  <2>2. \A n \in Noise : n \o Marker \in Seq(Byte)
    BY NoiseAssumption, MarkerAssumption
  <2>3. <<>> \o Marker \in Seq(Byte)
    BY MarkerAssumption
  <2>4. UNCHANGED <<log, fwd>> /\ guest' \notin {"off", "boot"}
    <3>1. CASE GuestReads
      BY <3>1, GuestIsUp, Zenon DEF GuestReads, Ends, fwdVars
    <3> QED
      BY <1>8, <3>1, Zenon DEF GuestBoots, Guest, GuestLeaves, GuestResumes, GuestStops,
           GuestWindowEnds, GuestFails, QemuEnds, OpensMonitor, Ends, fwdVars
  <2>5. \E s \in Seq(Byte) : Emit(s)
    <3>1. CASE GuestBoots
      BY <2>2, <3>1, Zenon DEF GuestBoots, OpensMonitor
    <3>2. CASE GuestResumes
      BY <2>3, <3>2, Zenon DEF GuestResumes, OpensMonitor
    <3>3. CASE GuestReads \/ GuestLeaves \/ GuestStops
      <4>1. Emit(<<"x">>) \/ Emit(<<>>)
        BY <3>3, Zenon DEF GuestReads, GuestLeaves, GuestStops, GuestWindowEnds, GuestFails,
             QemuEnds, Ends
      <4> QED
        BY <2>1, <4>1, Zenon
    <3> QED
      BY <1>8, <3>1, <3>2, <3>3, Zenon DEF Guest
  <2> QED
    BY <1>1, <2>4, <2>5, EmitKeepsOut, Zenon
<1>9. MainArgs \/ MainLoad \/ Sender \/ UNCHANGED vars
        => UNCHANGED <<log, printed, outPipe, fwd, guest>>
  BY Zenon DEF MainArgs, MainLoad, Sender, SndReady, SndTimeout, SndDisconnected, FallBack, SndSend,
         SndSleep, SndDone, SndWriteError, SndStops, vars, fwdVars, guestVars
<1> QED
  BY <1>3, <1>4, <1>5, <1>6, <1>7, <1>8, <1>9 DEF Next, Main, Forwarder

\* A marker that is there stays there.
LEMMA MarkerStays ==
  ASSUME NEW L \in Seq(Byte), NEW s \in Seq(Byte), HasMarker(L)
  PROVE  HasMarker(L \o s)
<1>1. Len(Marker) \in Nat \ {0} /\ Len(L) \in Nat /\ Len(s) \in Nat
  BY MarkerLen
<1>2. PICK i \in Nat : At(L, i)
  BY MarkerSomewhere, Zenon
<1>3. /\ L \o s \in Seq(Byte) /\ Len(L \o s) = Len(L) + Len(s)
      /\ \A j \in 1..Len(L) : (L \o s)[j] = L[j]
  OBVIOUS
<1>4. \A j \in 1..Len(Marker) : i + j \in 1..Len(L)
  BY <1>1, <1>2 DEF At
<1>5. At(L \o s, i)
  BY <1>1, <1>2, <1>3, <1>4 DEF At
<1> QED
  BY <1>3, <1>5, MarkerSomewhere, Zenon

\* Every step keeps the window at the end of the log.
LEMMA NextFwd ==
  ASSUME IInv, [Next]_vars
  PROVE  FwdInv'
<1>1. OutInv /\ FwdInv
  BY Zenon DEF IInv
<1>2. CASE UNCHANGED <<log, marker_window, ready_sent, channel>>
  BY <1>1, <1>2, Zenon DEF FwdInv, HasMarker, Ending
<1>3. ASSUME NEW n \in 1..ReadMax, FwdRead(n) PROVE FwdInv'
  <2> DEFINE s == SubSeq(outPipe, 1, n)
             window == IF ready_sent THEN marker_window ELSE Slide(marker_window, s)
  <2>1. /\ n <= Len(outPipe) /\ log' = log \o s /\ marker_window' = window
        /\ ready_sent' = (window = Marker)
        /\ channel' = IF ~ready_sent /\ window = Marker THEN channel + 1 ELSE channel
    BY <1>3, Zenon DEF FwdRead
  <2>2. log \in Seq(Byte) /\ outPipe \in Seq(Byte)
    BY <1>1, Zenon DEF OutInv
  <2>3. s \in Seq(Byte)
    <3>1. n \in 0..Len(outPipe)
      BY <2>1, <2>2, BoundsAssumption
    <3> QED
      BY <2>2, <3>1, TakeAndLeave, Zenon
  <2> HIDE DEF s
  <2>4. CASE ready_sent
    <3>1. window = Marker /\ HasMarker(log) /\ channel \in 0..1
      BY <1>1, <2>4, Zenon DEF FwdInv
    <3>2. HasMarker(log \o s)
      BY <2>2, <2>3, <3>1, MarkerStays, Zenon
    <3>3. ready_sent' = TRUE /\ channel' = channel /\ marker_window' = Marker
      BY <2>1, <2>4, <3>1, Zenon
    <3>4. HasMarker(log)'
      BY <2>1, <3>2, Zenon DEF HasMarker
    <3> QED
      BY <3>1, <3>3, <3>4, Zenon DEF FwdInv
  <2>5. CASE ~ ready_sent
    <3>1. marker_window = Ending(log) /\ ~ HasMarker(log) /\ channel = 0
      BY <1>1, <2>5, Zenon DEF FwdInv
    <3> DEFINE t == log \o s
    <3>2. window = IF HasMarker(t) THEN Marker ELSE Ending(t)
      BY <2>2, <2>3, <2>5, <3>1, Slides, Zenon
    <3>3. t \in Seq(Byte)
      BY <2>2, <2>3
    <3>4. log' = t
      BY <2>1, Zenon
    <3> HIDE DEF t, window
    <3>5. (HasMarker(log)' <=> HasMarker(t)) /\ Ending(log)' = Ending(t)
      BY <3>4, Zenon DEF HasMarker, Ending
    <3>6. CASE HasMarker(t)
      <4>1. window = Marker
        BY <3>2, <3>6, Zenon
      <4>2. ready_sent' = TRUE /\ marker_window' = Marker
        BY <2>1, <4>1, Zenon
      <4>3. channel' = channel + 1
        BY <2>1, <2>5, <4>1, Zenon
      <4>4. channel' \in 0..1
        BY <3>1, <4>3
      <4> QED
        BY <3>5, <3>6, <4>2, <4>4, Zenon DEF FwdInv
    <3>7. CASE ~ HasMarker(t)
      <4>1. window = Ending(t) /\ window # Marker
        BY <3>2, <3>3, <3>7, ByteAssumption, OneByteMore, Zenon
      <4>2. ready_sent' = FALSE /\ marker_window' = Ending(t) /\ channel' = 0
        BY <2>1, <2>5, <3>1, <4>1, Zenon
      <4>3. channel' \in 0..1
        BY <4>2
      <4> QED
        BY <3>5, <3>7, <4>2, <4>3, Zenon DEF FwdInv
    <3> QED
      BY <3>6, <3>7, Zenon
  <2> QED
    BY <2>4, <2>5, Zenon
<1>4. CASE SndReady
  <2>1. channel > 0 /\ channel' = channel - 1 /\ UNCHANGED <<log, marker_window, ready_sent>>
    BY <1>4, Zenon DEF SndReady, fwdVars
  <2>2. channel \in 0..1 /\ ready_sent \in BOOLEAN /\ (~ ready_sent => channel = 0)
    BY <1>1, Zenon DEF FwdInv
  <2>3. ready_sent /\ channel' \in 0..1
    BY <2>1, <2>2
  <2> QED
    BY <1>1, <2>1, <2>3, Zenon DEF FwdInv, HasMarker
<1>5. Main \/ FwdEof \/ ForwarderFails => UNCHANGED <<log, marker_window, ready_sent, channel>>
  BY Zenon DEF Main, MainArgs, MainSpawn, MainSpawnFails, MainLoadFails, MainLoad, MainWait,
       Exit, FwdEof,
         ForwarderFails, FwdReadError, FwdWriteError, FwdStops, fwdVars
<1>6. Sender /\ ~ SndReady => UNCHANGED <<log, marker_window, ready_sent, channel>>
  BY Zenon DEF Sender, SndTimeout, SndDisconnected, FallBack, SndSend, SndSleep, SndDone,
         SndWriteError, SndStops, fwdVars
<1>7. GuestBoots \/ Guest \/ GuestLeaves \/ GuestStops \/ UNCHANGED vars
        => UNCHANGED <<log, marker_window, ready_sent, channel>>
  BY Zenon DEF GuestBoots, Guest, GuestLeaves, GuestResumes, GuestReads, GuestStops,
       GuestWindowEnds, GuestFails,
         QemuEnds, OpensMonitor, Ends, vars, fwdVars
<1> QED
  BY <1>2, <1>3, <1>4, <1>5, <1>6, <1>7 DEF Next, Forwarder

\* Nothing changes the script once the launcher runs.
LEMMA ScriptStays ==
  ASSUME [Next]_vars
  PROVE  UNCHANGED <<file, script>> /\ Bytes' = Bytes
<1>1. Main => UNCHANGED <<file, script>>
  BY Zenon DEF Main, MainArgs, MainSpawn, MainSpawnFails, MainLoadFails, MainLoad, MainWait, Exit
<1>2. Forwarder \/ ForwarderFails => UNCHANGED <<file, script>>
  BY Zenon DEF Forwarder, FwdRead, FwdEof, ForwarderFails, FwdReadError, FwdWriteError, FwdStops,
         mainVars
<1>3. Sender => UNCHANGED <<file, script>>
  BY Zenon DEF Sender, SndReady, SndTimeout, SndDisconnected, FallBack, SndSend, SndSleep, SndDone,
         SndWriteError, SndStops, mainVars
<1>4. GuestBoots \/ Guest \/ GuestLeaves \/ GuestStops => UNCHANGED <<file, script>>
  BY Zenon DEF GuestBoots, Guest, GuestLeaves, GuestResumes, GuestReads, GuestStops,
       GuestWindowEnds, GuestFails,
         QemuEnds, OpensMonitor, Ends, mainVars
<1>5. UNCHANGED vars => UNCHANGED <<file, script>>
  BY Zenon DEF vars, mainVars
<1>6. UNCHANGED <<file, script>>
  BY <1>1, <1>2, <1>3, <1>4, <1>5, Zenon DEF Next
<1> QED
  BY <1>6, Zenon DEF Bytes

\* A step after which no command is on its way, and none is lost that was not.
LEMMA PipeEmpties ==
  ASSUME SndInv, UNCHANGED <<file, script, next, fellBack, hurried, lost>>, inPipe' = <<>>,
         snd' \in {"off", "wait"} => guest' \notin {"session", "auto"},
         ~ fellBack /\ ~ hurried /\ snd' = "run" => guest' \notin {"off", "boot"}
  PROVE  SndInv'
<1>1. inPipe' \in Seq(Bytes') /\ Len(inPipe') = 0 /\ 1..Len(inPipe') - 1 = {}
  OBVIOUS
<1>2. Len(inPipe') <= PipeMax
  BY <1>1, BoundsAssumption
<1>3. /\ file \in Files /\ script = load_serial_script(file)
      /\ next \in 1..Len(script) + 1 /\ fellBack \in BOOLEAN /\ hurried \in BOOLEAN
      /\ (~ fellBack /\ ~ hurried => lost = <<>>)
  BY Zenon DEF SndInv
<1> QED
  BY <1>1, <1>2, <1>3, Zenon DEF SndInv

\* The sender types into the pipe.
LEMMA SendKeepsSnd ==
  ASSUME IInv, SndSend, Bytes' = Bytes
  PROVE  SndInv'
<1>1. /\ SndInv /\ file \in Files /\ script = load_serial_script(file)
      /\ next \in 1..Len(script) + 1 /\ fellBack \in BOOLEAN /\ hurried \in BOOLEAN
      /\ inPipe \in Seq(Bytes)
  BY Zenon DEF IInv, SndInv
<1>2. /\ Len(script) \in Nat /\ DOMAIN script = 1..Len(script)
      /\ Len(inPipe) \in Nat /\ DOMAIN inPipe = 1..Len(inPipe)
  BY <1>1, ScriptIsSequence
<1>3. /\ snd = "run" /\ next <= Len(script) /\ script[next].kind = "send"
      /\ guest # "gone" /\ Len(inPipe) < PipeMax
      /\ inPipe' = Append(inPipe, script[next].bytes) /\ next' = next + 1
      /\ hurried' = (hurried \/ SessionAhead)
      /\ UNCHANGED <<script, file, snd, fellBack, guest, lost>>
  BY Zenon DEF SndSend, mainVars, guestVars
<1> DEFINE b == script[next].bytes
<1>4. b \in Bytes
  <2>1. next \in 1..Len(script)
    BY <1>1, <1>2, <1>3
  <2> QED
    BY <1>2, <1>3, <2>1, Zenon DEF Bytes
<1> HIDE DEF b
<1>5. /\ inPipe' \in Seq(Bytes) /\ Len(inPipe') = Len(inPipe) + 1
      /\ \A i \in 1..Len(inPipe) : inPipe'[i] = inPipe[i]
  <2>1. Longer(Append(inPipe, b), inPipe, b, Bytes)
    BY <1>1, <1>4, AppendIsLonger, Zenon
  <2>2. inPipe' = Append(inPipe, b)
    BY <1>3, Zenon DEF b
  <2> QED
    BY <2>1, <2>2, Zenon DEF Longer
<1>6. /\ next' \in 1..Len(script) + 1 /\ Len(inPipe') <= PipeMax
      /\ 1..Len(inPipe') - 1 = 1..Len(inPipe)
  BY <1>1, <1>2, <1>3, <1>5, BoundsAssumption
<1>7. hurried' \in BOOLEAN
  BY <1>3, Zenon
<1>8. ASSUME ~ fellBack, ~ hurried'
      PROVE  /\ lost' = <<>> /\ guest = "monitor"
             /\ \A i \in 1..Len(inPipe') - 1 : Word(inPipe'[i]) \notin Leaving
  <2>1. ~ hurried /\ ~ SessionAhead
    BY <1>3, <1>8, Zenon
  <2>2. lost = <<>> /\ guest \notin {"off", "boot"}
    BY <1>1, <1>3, <1>8, <2>1, Zenon DEF SndInv
  <2>3. guest \notin {"session", "auto"} /\ \A i \in 1..Len(inPipe) : Word(inPipe[i]) \notin Leaving
    BY <1>2, <2>1, Zenon DEF SessionAhead
  <2>4. guest = "monitor"
    BY <1>3, <2>2, <2>3, Zenon DEF IInv, MainInv
  <2> QED
    BY <1>3, <1>5, <1>6, <2>2, <2>3, <2>4, Zenon
<1>9. snd' = "run" /\ guest' = guest
  BY <1>3, Zenon
<1> QED
  BY <1>1, <1>3, <1>5, <1>6, <1>7, <1>8, <1>9, ZenonT(60) DEF SndInv

\* The guest opens its monitor, and its UART with it.
LEMMA OpeningKeepsSnd ==
  ASSUME SndInv, Bytes' = Bytes, UNCHANGED <<file, script>>, NEW k \in 0..PipeMax, NEW noise,
         guest # "monitor",
         OpensMonitor(k, noise)
  PROVE  SndInv'
<1>1. /\ k <= Len(inPipe) /\ guest' = "monitor" /\ UNCHANGED <<snd, next, fellBack, hurried>>
      /\ lost' = lost \o SubSeq(inPipe, 1, k)
      /\ inPipe' = SubSeq(inPipe, k + 1, Len(inPipe))
  BY Zenon DEF OpensMonitor, ClearReceiver, sndVars
<1>2. inPipe \in Seq(Bytes) /\ Len(inPipe) <= PipeMax /\ Len(inPipe) \in Nat /\ k \in 0..Len(inPipe)
  BY <1>1, BoundsAssumption DEF SndInv
<1>3. /\ inPipe' \in Seq(Bytes) /\ Len(inPipe') = Len(inPipe) - k
      /\ SubSeq(inPipe, 1, k) \in Seq(Bytes) /\ Len(SubSeq(inPipe, 1, k)) = k
  BY <1>1, <1>2, TakeAndLeave
<1>4. Len(inPipe') <= PipeMax
  BY <1>2, <1>3, BoundsAssumption
<1>5. CASE inPipe = <<>>
  <2>1. Len(inPipe) = 0 /\ k = 0 /\ Len(inPipe') = 0
    BY <1>2, <1>3, <1>5
  <2>2. inPipe' = <<>> /\ SubSeq(inPipe, 1, k) = <<>>
    BY <1>3, <2>1, NoCells, Zenon
  <2>3. lost = <<>> => lost' = <<>>
    BY <1>1, <2>2
  <2> QED
    BY <1>1, <1>3, <1>4, <1>5, <2>1, <2>2, <2>3, Zenon DEF SndInv
<1>6. CASE inPipe # <<>> /\ guest # "monitor"
  <2>1. (fellBack \/ hurried) /\ snd \notin {"off", "wait"}
    BY <1>6, ZenonT(60) DEF SndInv
  <2> QED
    BY <1>1, <1>3, <1>4, <2>1, Zenon DEF SndInv
<1> QED
  BY <1>5, <1>6, Zenon

LEMMA NoneBeforeTheLast ==
  ASSUME NEW n \in Nat \ {0}, ~ (1 \in 1..n - 1)
  PROVE  n = 1
OBVIOUS

\* The guest reads a command and goes on.
LEMMA ReadingKeepsSnd ==
  ASSUME SndInv, Bytes' = Bytes, UNCHANGED <<file, script, snd, next, fellBack, hurried, lost>>,
         guest \in {"monitor", "auto"}, inPipe # <<>>, inPipe' = Tail(inPipe),
         guest' = After(Word(Head(inPipe)))
  PROVE  SndInv'
<1>1. inPipe \in Seq(Bytes) /\ Len(inPipe) <= PipeMax /\ snd \notin {"off", "wait"}
  BY Zenon DEF SndInv
<1>2. Len(inPipe) \in Nat \ {0} /\ Head(inPipe) = inPipe[1]
  BY <1>1, NoCells
<1>3. /\ inPipe' \in Seq(Bytes) /\ Len(inPipe') = Len(inPipe) - 1
      /\ \A i \in 1..Len(inPipe) - 1 : inPipe'[i] = inPipe[i + 1]
  BY <1>1
<1>4. Len(inPipe') <= PipeMax
  BY <1>1, <1>2, <1>3, BoundsAssumption
<1>5. CASE fellBack \/ hurried
  BY <1>1, <1>3, <1>4, <1>5, Zenon DEF SndInv
<1>6. ASSUME ~ fellBack, ~ hurried
      PROVE  /\ lost = <<>> /\ (snd = "run" => guest' \notin {"off", "boot"})
             /\ (guest' # "monitor" => inPipe' = <<>>)
             /\ \A i \in 1..Len(inPipe') - 1 : Word(inPipe'[i]) \notin Leaving
  <2>1. /\ lost = <<>> /\ guest = "monitor"
        /\ \A i \in 1..Len(inPipe) - 1 : Word(inPipe[i]) \notin Leaving
    BY <1>6, Zenon DEF SndInv
  <2>2. guest' \in {"monitor", "auto", "session"}
    BY AfterReading, Zenon
  <2>3. CASE Word(inPipe[1]) \in Leaving
    <3>1. Len(inPipe) = 1
      <4>1. ~ (1 \in 1..Len(inPipe) - 1)
        BY <2>1, <2>3, Zenon
      <4> QED
        BY <1>2, <4>1, NoneBeforeTheLast, Zenon
    <3>2. inPipe' = <<>> /\ 1..Len(inPipe') - 1 = {}
      BY <1>3, <3>1, NoCells
    <3> QED
      BY <2>1, <2>2, <3>2, Zenon
  <2>4. CASE Word(inPipe[1]) \notin Leaving
    <3>1. guest' = "monitor"
      BY <1>2, <2>1, <2>4, Zenon DEF After, Leaving
    <3>2. ASSUME NEW i \in 1..Len(inPipe') - 1 PROVE Word(inPipe'[i]) \notin Leaving
      <4>1. i \in 1..Len(inPipe) - 1 /\ i + 1 \in 1..Len(inPipe) - 1
        BY <1>2, <1>3
      <4> QED
        BY <1>3, <2>1, <4>1, Zenon
    <3> QED
      BY <2>1, <3>1, <3>2, Zenon
  <2> QED
    BY <2>3, <2>4, Zenon
<1> QED
  BY <1>1, <1>3, <1>4, <1>5, <1>6, ZenonT(60) DEF SndInv

\* Every step keeps the sender in its script and its commands on their way.
LEMMA NextSnd ==
  ASSUME IInv, [Next]_vars
  PROVE  SndInv'
<1>1. MainInv /\ OutInv /\ FwdInv /\ SndInv
  BY Zenon DEF IInv
<1>2. UNCHANGED <<file, script>> /\ Bytes' = Bytes
  BY ScriptStays, Zenon
<1>3. CASE UNCHANGED <<next, fellBack, hurried, inPipe, lost, snd, guest>>
  BY <1>1, <1>2, <1>3, Zenon DEF SndInv
<1>4. CASE MainSpawn
  <2>1. /\ guest = "off" /\ snd = "off" /\ guest' = "boot"
        /\ UNCHANGED <<next, fellBack, hurried, inPipe, lost, snd>>
    BY <1>1, <1>4, Zenon DEF MainSpawn, MainInv, sndVars
  <2> QED
    BY <1>1, <1>2, <2>1, PipeEmpties, Zenon DEF SndInv
<1>5. CASE MainSpawnFails \/ MainLoadFails \/ MainWait
  <2>1. inPipe' = <<>> /\ snd' = "gone" /\ UNCHANGED <<next, fellBack, hurried, lost, guest>>
    BY <1>5, Zenon DEF MainSpawnFails, MainLoadFails, MainWait, Exit, guestVars
  <2> QED
    BY <1>1, <1>2, <2>1, PipeEmpties, Zenon
<1>6. CASE MainLoad
  <2>1. snd = "off" /\ snd' = "wait" /\ UNCHANGED <<next, fellBack, hurried, inPipe, lost, guest>>
    BY <1>1, <1>6, Zenon DEF MainLoad, MainInv, guestVars
  <2> QED
    BY <1>1, <1>2, <2>1, PipeEmpties, Zenon DEF SndInv
<1>7. CASE SndReady
  <2>1. /\ snd = "wait" /\ snd' = "run" /\ channel > 0
        /\ UNCHANGED <<next, fellBack, hurried, inPipe, lost, guest>>
    BY <1>7, Zenon DEF SndReady, guestVars
  <2>2. ready_sent /\ HasMarker(log)
    BY <1>1, <2>1 DEF FwdInv
  <2>3. log # <<>>
    BY <2>2, MarkerLen DEF HasMarker
  <2>4. guest \notin {"off", "boot"} /\ guest \notin {"session", "auto"} /\ inPipe = <<>>
    BY <1>1, <2>1, <2>3, Zenon DEF OutInv, SndInv
  <2> QED
    BY <1>1, <1>2, <2>1, <2>4, PipeEmpties, Zenon
<1>8. CASE SndTimeout \/ SndDisconnected
  <2>1. snd' = "run" /\ fellBack' = TRUE /\ UNCHANGED <<next, hurried, inPipe, lost, guest>>
    BY <1>8, Zenon DEF SndTimeout, SndDisconnected, FallBack, guestVars
  <2> QED
    BY <1>1, <1>2, <2>1, Zenon DEF SndInv
<1>9. CASE SndSend
  BY <1>2, <1>9, SendKeepsSnd, Zenon
<1>10. CASE SndSleep
  <2>1. /\ snd = "run" /\ next <= Len(script) /\ next' = next + 1
        /\ UNCHANGED <<fellBack, hurried, inPipe, lost, snd, guest>>
    BY <1>10, Zenon DEF SndSleep, guestVars
  <2>2. Len(script) \in Nat /\ next \in 1..Len(script) + 1
    BY <1>1, ScriptIsSequence, Zenon DEF SndInv
  <2>3. next' \in 1..Len(script) + 1
    BY ONLY <2>1, <2>2
  <2> QED
    BY <1>1, <1>2, <2>1, <2>3, Zenon DEF SndInv
<1>11. CASE SndDone \/ SndWriteError
  <2>1. snd' = "gone" /\ UNCHANGED <<next, fellBack, hurried, inPipe, lost, guest>>
    BY <1>11, Zenon DEF SndDone, SndWriteError, SndStops, guestVars
  <2> QED
    BY <1>1, <1>2, <2>1, Zenon DEF SndInv
<1>12. CASE GuestBoots \/ GuestResumes
  <2>1. guest # "monitor"
    BY <1>12, Zenon DEF GuestBoots, GuestResumes
  <2>2. PICK k \in 0..PipeMax : \E n : OpensMonitor(k, n)
    BY <1>12, Zenon DEF GuestBoots, GuestResumes
  <2> QED
    BY <1>1, <1>2, <2>1, <2>2, OpeningKeepsSnd
<1>13. ASSUME NEW s, NEW words, Ends(s, words) PROVE SndInv'
  <2>1. inPipe' = <<>> /\ guest' = "gone" /\ UNCHANGED <<next, fellBack, hurried, lost, snd>>
    BY <1>13, Zenon DEF Ends, sndVars
  <2> QED
    BY <1>1, <1>2, <2>1, PipeEmpties
<1>14. CASE GuestReads
  <2>1. CASE \E s, words : Ends(s, words)
    BY <1>13, <2>1, Zenon
  <2>2. CASE /\ guest' = After(Word(Head(inPipe)))
             /\ inPipe' = Tail(inPipe) /\ UNCHANGED <<sndVars, lost>>
    BY <1>1, <1>2, <1>14, <2>2, ReadingKeepsSnd DEF GuestReads, sndVars
  <2> QED
    BY <1>14, <2>1, <2>2, Zenon DEF GuestReads
<1>15. CASE GuestStops
  BY <1>13, <1>15, Zenon DEF GuestStops, GuestWindowEnds, GuestFails, QemuEnds
<1>16. MainArgs \/ Forwarder \/ ForwarderFails \/ UNCHANGED vars
         => UNCHANGED <<next, fellBack, hurried, inPipe, lost, snd, guest>>
  BY Zenon DEF MainArgs, Forwarder, FwdRead, FwdEof, ForwarderFails, FwdReadError, FwdWriteError,
         FwdStops, vars, sndVars, guestVars
<1>17. CASE GuestLeaves
  <2>1. /\ guest = "auto" /\ guest' = "session"
        /\ UNCHANGED <<next, fellBack, hurried, inPipe, lost, snd>>
    BY <1>17, Zenon DEF GuestLeaves, sndVars
  <2> QED
    BY <1>1, <1>2, <2>1, Zenon DEF SndInv
<1> QED
  BY <1>3, <1>4, <1>5, <1>6, <1>7, <1>8, <1>9, <1>10, <1>11, <1>12, <1>14, <1>15, <1>16, <1>17,
       ZenonT(60)
     DEF Next, Main, Sender, Guest

\* IInv is an invariant of the launcher, its threads and the guest together.
THEOREM Invariance == Spec => []IInv
<1>1. IInv /\ [Next]_vars => IInv'
  BY NextArgs, NextMain, NextOut, NextFwd, NextSnd, Zenon DEF IInv
<1> QED
  BY InitIInv, <1>1, PTL DEF Spec

-----------------------------------------------------------------------------
(* What follows from it. *)

\* Once main is past its arguments it has read all of them.
LEMMA AllIsRead ==
  ASSUME ArgsInv
  PROVE  OptionsAreTheCommandLine
<1> SUFFICES ASSUME main \in {"spawn", "load", "wait"}
             PROVE  OptionsAreTheCommandLine
  BY Zenon DEF OptionsAreTheCommandLine
<1>1. /\ index > Len(args) /\ opts.use_uefi # Unset /\ args \in Seq(STRING \ {Unset})
      /\ index \in 1..Len(args) + 1 /\ Says(args, opts, Read)
  BY Zenon DEF ArgsInv
<1>2. Option \subseteq 1..Len(args)
  BY <1>1, OptionOrValue, Zenon
<1>3. Read = Option
  <2>1. \A i \in 1..Len(args) : i < index
    BY <1>1
  <2> QED
    BY <1>2, <2>1, Zenon DEF Read
<1>4. /\ SaysMode(args, opts, Option) /\ SaysDisplay(args, opts, Option)
      /\ SaysSerial(args, opts, Option) /\ SaysScript(args, opts, Option)
  BY <1>1, <1>3, Zenon DEF Says
<1> QED
  BY <1>1, <1>4, Zenon DEF OptionsAreTheCommandLine, SaysMode, SaysDisplay, SaysSerial, SaysScript,
                    With

\* main starts QEMU only with the options that the whole command line states,
\* whatever the arguments are and in whatever order they come.
THEOREM CommandLine == Spec => []OptionsAreTheCommandLine
<1>1. IInv => OptionsAreTheCommandLine
  BY AllIsRead, Zenon DEF IInv
<1> QED
  BY Invariance, <1>1, PTL

\* For every marker, boot noise and size of a read, the forwarder announces the
\* monitor exactly when the marker is among the bytes it has passed on.
THEOREM MarkerInAnyCut == Spec => []MarkerIsSeenInAnyCut
<1>1. IInv => MarkerIsSeenInAnyCut
  BY Zenon DEF IInv, FwdInv, MarkerIsSeenInAnyCut
<1> QED
  BY Invariance, <1>1, PTL

\* The launcher leaves a QEMU behind only when it gives up on the script file.
THEOREM Orphans == Spec => []OrphanOnlyOfBadScript
<1>1. IInv => OrphanOnlyOfBadScript
  BY Zenon DEF IInv, MainInv, OrphanOnlyOfBadScript
<1> QED
  BY Invariance, <1>1, PTL

\* The window never outgrows the marker.
LEMMA WindowFits ==
  ASSUME IInv
  PROVE  Len(marker_window) <= Len(Marker)
<1>1. Len(Marker) \in Nat \ {0} /\ log \in Seq(Byte)
  BY MarkerLen, Zenon DEF IInv, OutInv
<1>2. Len(log) \in Nat
  BY <1>1
<1>3. Len(Ending(log)) <= Len(Marker)
  <2>1. CASE Len(log) <= Len(Marker)
    BY <2>1, Zenon DEF Ending
  <2>2. CASE ~ (Len(log) <= Len(Marker))
    <3> DEFINE a == Len(log) - Len(Marker) + 1
               b == Len(log)
    <3>1. a \in 1..Len(log) + 1 /\ b \in a - 1..Len(log) /\ b - a + 1 = Len(Marker)
      BY <1>1, <1>2, <2>2
    <3>2. Ending(log) = SubSeq(log, a, b)
      BY <2>2, Zenon DEF Ending
    <3> HIDE DEF a, b
    <3>3. Len(SubSeq(log, a, b)) = b - a + 1
      BY <1>1, <3>1, Piece, Zenon
    <3> QED
      BY <1>1, <3>1, <3>2, <3>3
  <2> QED
    BY <2>1, <2>2, Zenon
<1> QED
  BY <1>1, <1>3 DEF IInv, FwdInv

\* main stays within its arguments, the sender within its script, the window
\* within the marker and ready_tx within one message.
THEOREM TypeCorrect == Spec => []TypeOK
<1>1. IInv => TypeOK
  <2> SUFFICES ASSUME IInv PROVE TypeOK
    BY Zenon
  <2>1. index \in 1..Len(args) + 1 /\ opts.use_uefi \in {Unset, "uefi", "bios"}
    BY Zenon DEF IInv, ArgsInv, Options
  <2> QED
    BY <2>1, WindowFits, Zenon DEF IInv, MainInv, FwdInv, SndInv, TypeOK
<1> QED
  BY Invariance, <1>1, PTL

\* A script that is typed after the marker, and never with a session ahead, loses no
\* command to a UART that the guest initialises, for every script, whether it pauses
\* or not, every length of its pauses, noise, cut of the output and size of the pipe.
THEOREM NoCommandIsLost == Spec => []NothingIsLost
<1>1. IInv => NothingIsLost
  BY Zenon DEF IInv, SndInv, NothingIsLost
<1> QED
  BY Invariance, <1>1, PTL

\* While the forwarder is at work, the log is the beginning of what the guest has
\* printed, and the pipe holds the rest: nothing is dropped, doubled or reordered.
LogIsPrefix == fwd = "loop" => printed = log \o outPipe

THEOREM NothingIsDropped == Spec => []LogIsPrefix
<1>1. IInv => LogIsPrefix
  BY Zenon DEF IInv, OutInv, LogIsPrefix
<1> QED
  BY Invariance, <1>1, PTL

===============================================================================
