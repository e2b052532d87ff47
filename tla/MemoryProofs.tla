---------------------------- MODULE MemoryProofs ----------------------------
(***************************************************************************)
(* Lemmas about frames and page tables, for every memory map, heap size,   *)
(* size of pages and tables, and bootloader that leaves the kernel's areas *)
(* alone: which frames the allocator counts, what a walk finds, and what   *)
(* adding a table or a page leaves of it.                                  *)
(***************************************************************************)
EXTENDS Memory, WellFoundedInduction, TLAPS

USE SMTT(90)

-----------------------------------------------------------------------------
(* What holds of the page tables. *)

\* The calls that map pages.
Calls == {"demo", "heap", "user"}

\* The tables on the way to each page of the areas, -1 for the ones that are not
\* there yet.
Way == [Areas -> [1..4 -> Nat \cup {-1}]]

Agree(p, q, n) == \A m \in 1..n : p[m] = q[m]

\* Each table on the way to a page is where the entry before it says.
Linked(tab, e) ==
  \A p \in Areas :
    /\ tab[p][1] = CR3
    /\ \A k \in 1..3 :
         LET s == <<tab[p][k], p[k]>>
         IN IF tab[p][k] # -1 /\ s \in DOMAIN e
              THEN tab[p][k + 1] # -1 /\ e[s] = [kind |-> "table", frame |-> tab[p][k + 1]]
              ELSE tab[p][k + 1] = -1

\* The last entry on the way to a page holds the frame the page was given.
Leaves(tab, e, g) ==
  \A p \in Areas :
    LET s == <<tab[p][4], p[4]>>
    IN IF tab[p][4] # -1 /\ s \in DOMAIN e
         THEN p \in DOMAIN g /\ e[s] = [kind |-> "page", frame |-> g[p]]
         ELSE p \notin DOMAIN g

\* Two pages share a table exactly as far as their indices agree.
Apart(tab) ==
  \A p, q \in Areas :
    /\ \A i, j \in 1..4 : tab[p][i] # -1 /\ tab[p][i] = tab[q][j] => i = j /\ Agree(p, q, i - 1)
    /\ \A i \in 1..4 : Agree(p, q, i - 1) => tab[p][i] = tab[q][i]

\* No frame that may still be handed out is a table.
Unused(tab, e, f, n) ==
  \A i \in n + 1..Len(f) :
    /\ \A s \in DOMAIN e : s[1] # f[i]
    /\ \A p \in Areas : \A k \in 1..4 : tab[p][k] # f[i]

\* What the bootloader set up is still there.
Kept(e) == \A s \in DOMAIN BootEntries : s \in DOMAIN e /\ e[s] = BootEntries[s]

-----------------------------------------------------------------------------
(* Induction and recursive functions. *)

\* Induction up to n, over a set.
LEMMA UpTo ==
  ASSUME NEW n \in Nat, NEW T, 0 \in T, \A i \in 0..n - 1 : i \in T => i + 1 \in T
  PROVE  0..n \subseteq T
<1> DEFINE R == {ss \in Nat \X Nat : ss[1] < ss[2]}
           D == (0..n) \ T
<1>1. IsWellFoundedOn(R, Nat)
  BY NatLessThanWellFounded, Zenon DEF OpToRel
<1> SUFFICES ASSUME D # {} PROVE FALSE
  BY Zenon
<1>2. D \subseteq Nat
  OBVIOUS
<1> HIDE DEF R, D
<1>3. PICK x \in D : \A y \in D : ~ (<<y, x>> \in R)
  BY <1>1, <1>2, WFMin, Zenon
<1>4. x \in 0..n /\ x # 0
  BY <1>3, Zenon DEF D
<1>5. x - 1 \in 0..n - 1 /\ x - 1 \in Nat /\ x \in Nat
  BY <1>4
<1>6. <<x - 1, x>> \in R
  BY <1>5 DEF R
<1>7. x - 1 \in T
  BY <1>3, <1>5, <1>6 DEF D
<1>8. x - 1 + 1 = x
  BY <1>5
<1> QED
  BY <1>3, <1>5, <1>7, <1>8, Zenon DEF D

\* w is what F makes of base in n rounds.
Rounds(w, n, base, F) == w[0] = base /\ \A i \in 1..n : w[i] = F[<<i, w[i - 1]>>]

\* A function defined by recursion on 0..n exists.
LEMMA RecursiveFunction ==
  ASSUME NEW n \in Nat, NEW S, NEW base \in S, NEW F \in [(1..n) \X S -> S]
  PROVE  \E w \in [0..n -> S] : Rounds(w, n, base, F)
<1> DEFINE IsRec(w, m) == w[0] = base /\ \A i \in 1..m : w[i] = F[<<i, w[i - 1]>>]
           T == {m \in 0..n : \E w \in [0..m -> S] : IsRec(w, m)}
<1>1. 0 \in T
  <2>1. [i \in 0..0 |-> base] \in [0..0 -> S] /\ IsRec([i \in 0..0 |-> base], 0)
    OBVIOUS
  <2> HIDE DEF IsRec
  <2>2. 0 \in 0..n
    OBVIOUS
  <2> QED
    BY <2>1, <2>2, Zenon
<1>2. ASSUME NEW m \in 0..n - 1, m \in T PROVE m + 1 \in T
  <2>1. PICK w \in [0..m -> S] : IsRec(w, m)
    BY <1>2, Zenon
  <2>2. m \in Nat /\ m + 1 \in 1..n /\ m + 1 \in 0..n /\ w[m] \in S
    OBVIOUS
  <2> DEFINE v == [i \in 0..m + 1 |-> IF i = m + 1 THEN F[<<m + 1, w[m]>>] ELSE w[i]]
  <2>3. F[<<m + 1, w[m]>>] \in S
    BY <2>2, Zenon
  <2>4. v \in [0..m + 1 -> S]
    BY <2>2, <2>3
  <2>5. ASSUME NEW i \in 1..m + 1 PROVE v[i] = F[<<i, v[i - 1]>>]
    <3>1. v[i - 1] = w[i - 1]
      BY <2>2
    <3>2. CASE i = m + 1
      <4>1. v[i] = F[<<m + 1, w[m]>>] /\ i - 1 = m
        BY <2>2, <3>2
      <4> HIDE DEF v
      <4> QED
        BY <3>1, <3>2, <4>1, Zenon
    <3>3. CASE i \in 1..m
      <4>1. v[i] = w[i]
        BY <2>2, <3>3
      <4> QED
        BY <2>1, <3>1, <3>3, <4>1, Zenon
    <3> QED
      BY <2>2, <3>2, <3>3
  <2>6. v[0] = base
    BY <2>1, <2>2
  <2> HIDE DEF v
  <2> QED
    BY <2>2, <2>4, <2>5, <2>6, Zenon
<1>3. 0..n \subseteq T
  <2> HIDE DEF T
  <2> QED
    BY <1>1, <1>2, UpTo, Zenon
<1>4. n \in T
  BY <1>3
<1> QED
  BY <1>4, Zenon DEF Rounds

-----------------------------------------------------------------------------
(* Division. *)

\* A number is its quotient times the divisor, and the remainder.
LEMMA Quotient ==
  ASSUME NEW P \in Nat \ {0}, NEW q \in Nat, NEW r \in 0..P - 1
  PROVE  (q * P + r) \div P = q
<1> DEFINE x == q * P + r
           d == x \div P
           m == x % P
<1>1. q * P \in Nat
  OBVIOUS
<1>2. x \in Nat
  BY <1>1
<1>3. d \in Nat /\ m \in 0..P - 1 /\ x = P * d + m
  BY <1>2
<1>4. CASE d > q
  <2>1. PICK j \in Nat : d = q + 1 + j
    <3>1. d - q - 1 \in Nat /\ d = q + 1 + (d - q - 1)
      BY <1>3, <1>4
    <3> QED
      BY <3>1, Zenon
  <2>2. P * d = q * P + P + P * j /\ P * j \in Nat
    BY <2>1
  <2> QED
    BY <1>1, <1>3, <2>2
<1>5. CASE d < q
  <2>1. PICK j \in Nat : q = d + 1 + j
    <3>1. q - d - 1 \in Nat /\ q = d + 1 + (q - d - 1)
      BY <1>3, <1>5
    <3> QED
      BY <3>1, Zenon
  <2>2. q * P = P * d + P + P * j /\ P * j \in Nat
    BY <1>3, <2>1
  <2> QED
    BY <1>1, <1>3, <2>2
<1> QED
  BY <1>3, <1>4, <1>5

\* A number without remainder is a multiple.
LEMMA Multiple ==
  ASSUME NEW P \in Nat \ {0}, NEW x \in Nat, x % P = 0
  PROVE  \E q \in Nat : x = q * P
<1>1. x \div P \in Nat /\ x = P * (x \div P) + (x % P)
  OBVIOUS
<1>2. P * (x \div P) = (x \div P) * P
  BY <1>1
<1> QED
  BY <1>1, <1>2

-----------------------------------------------------------------------------
(* The frames of a memory map. *)

Region == [kind : STRING, start : Nat, end : Nat]
Steps(r) == (r.end - Start(r) + PAGE_SIZE - 1) \div PAGE_SIZE
Size(r) == IF usable(r) THEN saturating_sub(r.end, r.start) ELSE 0

\* The frame f lies in the usable region r, above the first megabyte.
Within(r, f) ==
  /\ usable(r) /\ f * PAGE_SIZE >= MIN_ALLOCATABLE_PHYS_ADDR
  /\ r.start <= f * PAGE_SIZE /\ (f + 1) * PAGE_SIZE <= r.end

\* The ends of a region above the first megabyte are page boundaries.
Cut(r) ==
  \A x \in {r.start, r.end} : x >= MIN_ALLOCATABLE_PHYS_ADDR => x % PAGE_SIZE = 0

\* What usable_frames needs of a region's frames s: they are in the region, in
\* ascending order, and no more than fit in it.
Fits(r, s) ==
  /\ s \in Seq(Nat)
  /\ \A i \in DOMAIN s : Within(r, s[i])
  /\ \A i, j \in DOMAIN s : i < j => s[i] < s[j]
  /\ Len(s) * PAGE_SIZE <= Size(r)

\* The frames of one region, cut at page boundaries, fit in it.
LEMMA SpanFits ==
  ASSUME NEW r \in Region, Cut(r)
  PROVE  Fits(r, Span(r, Steps(r)))
<1> DEFINE P == PAGE_SIZE
           M == MIN_ALLOCATABLE_PHYS_ADDR
<1>0. P \in Nat \ {0} /\ M \in Nat /\ M % P = 0
  BY MemoryAssumption, Zenon
<1>1. CASE ~ (usable(r) /\ Start(r) < r.end)
  <2>1. Span(r, Steps(r)) = <<>>
    BY <1>1, Zenon DEF Span
  <2>2. Size(r) \in Nat
    BY DEF Size, saturating_sub, Region
  <2> QED
    BY <1>0, <2>1, <2>2 DEF Fits
<1>2. CASE usable(r) /\ Start(r) < r.end
  <2>1. /\ r.start \in Nat /\ r.end \in Nat /\ Start(r) \in Nat /\ Start(r) >= M
        /\ Start(r) >= r.start /\ Start(r) \in {r.start, M}
    BY <1>0 DEF Start, Region
  <2>2. Start(r) % P = 0 /\ r.end % P = 0
    BY <1>0, <1>2, <2>1 DEF Cut
  <2>3. PICK a \in Nat : Start(r) = a * P
    BY <1>0, <2>1, <2>2, Multiple, Zenon
  <2>4. PICK b \in Nat : r.end = b * P
    BY <1>0, <2>1, <2>2, Multiple, Zenon
  <2>5. a < b
    <3>1. ASSUME b <= a PROVE FALSE
      <4>1. PICK j \in Nat : a = b + j
        <5>1. a - b \in Nat /\ a = b + (a - b)
          BY <3>1
        <5> QED
          BY <5>1, Zenon
      <4>2. a * P = b * P + j * P /\ j * P \in Nat /\ b * P \in Nat
        BY <1>0, <4>1
      <4> QED
        BY <1>2, <2>3, <2>4, <4>2
    <3> QED
      BY <3>1
  <2> DEFINE n == b - a
  <2>6. n \in Nat /\ n * P = r.end - Start(r)
    BY <1>0, <2>3, <2>4, <2>5
  <2>7. Steps(r) = n
    <3>1. r.end - Start(r) + P - 1 = n * P + (P - 1) /\ P - 1 \in 0..P - 1
      BY <1>0, <2>1, <2>6
    <3> HIDE DEF n
    <3> QED
      BY <1>0, <2>6, <3>1, Quotient, Zenon DEF Steps
  <2>8. ASSUME NEW k \in 1..n
        PROVE  (Start(r) + (k - 1) * P) \div P = a + k - 1
    <3> DEFINE q == a + k - 1
    <3>1. q \in Nat /\ Start(r) + (k - 1) * P = q * P + 0 /\ 0 \in 0..P - 1
      BY <1>0, <2>3
    <3> HIDE DEF q
    <3>2. (q * P + 0) \div P = q
      BY <1>0, <3>1, Quotient, Zenon
    <3>3. (Start(r) + (k - 1) * P) \div P = q
      BY <3>1, <3>2, Zenon
    <3> QED
      BY <3>3, Zenon DEF q
  <2> DEFINE s == [k \in 1..n |-> a + k - 1]
  <2>9. Span(r, Steps(r)) = s
    BY <1>2, <2>7, <2>8, Zenon DEF Span
  <2>10. s \in Seq(Nat) /\ Len(s) = n /\ DOMAIN s = 1..n
    BY <2>6
  <2>11. ASSUME NEW k \in 1..n PROVE Within(r, s[k])
    <3> DEFINE f == a + k - 1
    <3>1. f \in Nat /\ f * P = a * P + (k - 1) * P /\ (k - 1) * P \in Nat /\ a * P \in Nat
      BY <1>0
    <3>2. (f + 1) * P = b * P - (b - a - k) * P /\ (b - a - k) * P \in Nat /\ b * P \in Nat
      <4>1. f + 1 = b - (b - a - k) /\ b - a - k \in Nat
        BY <2>5
      <4> QED
        BY <1>0, <4>1
    <3> HIDE DEF f
    <3>3. s[k] = f
      BY Zenon DEF f
    <3> QED
      BY <1>0, <1>2, <2>1, <2>3, <2>4, <3>1, <3>2, <3>3 DEF Within
  <2>12. \A i, j \in 1..n : i < j => s[i] < s[j]
    BY <2>6
  <2>13. n * P <= Size(r)
    BY <1>0, <1>2, <2>1, <2>6 DEF Size, saturating_sub
  <2> HIDE DEF s, n
  <2> QED
    BY <2>9, <2>10, <2>11, <2>12, <2>13, Zenon DEF Fits
<1> QED
  BY <1>1, <1>2, Zenon

\* No more multiples fit than the quotient.
LEMMA AtMost ==
  ASSUME NEW P \in Nat \ {0}, NEW x \in Nat, NEW l \in Nat, l * P <= x
  PROVE  l <= x \div P
<1> DEFINE d == x \div P
           m == x % P
<1>1. d \in Nat /\ m \in 0..P - 1 /\ x = P * d + m
  OBVIOUS
<1> HIDE DEF d, m
<1>2. ASSUME l > d PROVE FALSE
  <2>1. PICK j \in Nat : l = d + 1 + j
    <3>1. l - d - 1 \in Nat /\ l = d + 1 + (l - d - 1)
      BY <1>1, <1>2
    <3> QED
      BY <3>1, Zenon
  <2>2. l * P = P * d + P + j * P /\ j * P \in Nat /\ P * d \in Nat
    BY <1>1, <2>1
  <2> QED
    BY <1>1, <2>2
<1> QED
  BY <1>1, <1>2 DEF d

\* A frame that ends before another begins comes before it.
LEMMA FramesApart ==
  ASSUME NEW P \in Nat \ {0}, NEW x \in Nat, NEW y \in Nat, (x + 1) * P <= y * P
  PROVE  x < y
<1> SUFFICES ASSUME y <= x PROVE FALSE
  OBVIOUS
<1>1. PICK j \in Nat : x = y + j
  <2>1. x - y \in Nat /\ x = y + (x - y)
    OBVIOUS
  <2> QED
    BY <2>1, Zenon
<1>2. (x + 1) * P = y * P + j * P + P /\ j * P \in Nat /\ y * P \in Nat
  BY <1>1
<1> QED
  BY <1>2

\* The frames v of the first n regions, and their bytes b.
Counted(rs, n, v, b) ==
  /\ v \in Seq(Nat) /\ b \in Nat
  /\ \A i \in DOMAIN v : \E j \in 1..n : Within(rs[j], v[i])
  /\ \A i, j \in DOMAIN v : i < j => v[i] < v[j]
  /\ Len(v) * PAGE_SIZE <= b

Joined(v, r) == v \o Span(r, Steps(r))

\* The frames of one more region keep the order and the count.
LEMMA OneRegionMore ==
  ASSUME NEW rs \in Regions, NEW n \in 1..Len(rs), NEW v, NEW b, Counted(rs, n - 1, v, b)
  PROVE  Counted(rs, n, Joined(v, rs[n]), b + Size(rs[n]))
<1> DEFINE s == Span(rs[n], Steps(rs[n]))
           w == v \o s
           P == PAGE_SIZE
<1>0. P \in Nat \ {0}
  BY MemoryAssumption, Zenon
<1>1. /\ rs \in Seq(Region) /\ Cut(rs[n])
      /\ \A i, j \in DOMAIN rs : i < j => rs[i].end <= rs[j].start
  BY RegionsAssumption DEF Region, Cut
<1>2. rs[n] \in Region
  BY <1>1
<1>3. Fits(rs[n], s)
  BY <1>1, <1>2, SpanFits, Zenon
<1>4. Size(rs[n]) \in Nat
  BY <1>2 DEF Size, saturating_sub, Region
<1> HIDE DEF s
<1>5. /\ v \in Seq(Nat) /\ s \in Seq(Nat) /\ w \in Seq(Nat) /\ Len(w) = Len(v) + Len(s)
      /\ \A i \in DOMAIN v : w[i] = v[i]
      /\ \A i \in DOMAIN w : i \notin DOMAIN v => w[i] = s[i - Len(v)] /\ i - Len(v) \in DOMAIN s
  <2>1. v \in Seq(Nat) /\ s \in Seq(Nat)
    BY <1>3, Zenon DEF Counted, Fits
  <2> QED
    BY <2>1
<1> HIDE DEF w
<1>6. b \in Nat /\ b + Size(rs[n]) \in Nat
  BY <1>4 DEF Counted
<1>7. Len(w) * P <= b + Size(rs[n])
  <2>1. Len(w) * P = Len(v) * P + Len(s) * P
    BY <1>0, <1>5
  <2>2. Len(v) * P <= b /\ Len(s) * P <= Size(rs[n]) /\ Len(v) * P \in Nat /\ Len(s) * P \in Nat
    BY <1>0, <1>3, <1>5 DEF Counted, Fits
  <2> QED
    BY <1>4, <1>6, <2>1, <2>2
<1>8. ASSUME NEW i \in DOMAIN v PROVE \E j \in 1..n - 1 : Within(rs[j], w[i])
  BY <1>5, Zenon DEF Counted
<1>9. ASSUME NEW i \in DOMAIN w, i \notin DOMAIN v PROVE Within(rs[n], w[i])
  BY <1>3, <1>5, <1>9, Zenon DEF Fits
<1>10. ASSUME NEW i \in DOMAIN w PROVE \E j \in 1..n : Within(rs[j], w[i])
  <2>1. n \in 1..n /\ 1..n - 1 \subseteq 1..n
    BY <1>1
  <2> QED
    BY <1>8, <1>9, <2>1, Zenon
<1>11. ASSUME NEW i \in DOMAIN w, NEW j \in DOMAIN w, i < j PROVE w[i] < w[j]
  <2>1. CASE i \in DOMAIN v /\ j \in DOMAIN v
    BY <1>5, <1>11, <2>1, Zenon DEF Counted
  <2>2. CASE i \notin DOMAIN v
    <3>0. DOMAIN v = 1..Len(v) /\ DOMAIN w = 1..Len(w) /\ Len(v) \in Nat /\ Len(w) \in Nat
      BY <1>5
    <3>1. j \notin DOMAIN v /\ i - Len(v) < j - Len(v)
      BY <1>11, <2>2, <3>0
    <3>2. /\ w[i] = s[i - Len(v)] /\ w[j] = s[j - Len(v)]
          /\ i - Len(v) \in DOMAIN s /\ j - Len(v) \in DOMAIN s
      BY <1>5, <2>2, <3>1, Zenon
    <3> QED
      BY <1>3, <3>1, <3>2, Zenon DEF Fits
  <2>3. CASE i \in DOMAIN v /\ j \notin DOMAIN v
    <3>1. PICK k \in 1..n - 1 : Within(rs[k], w[i])
      BY <1>8, <2>3, Zenon
    <3>2. Within(rs[n], w[j])
      BY <1>9, <2>3, Zenon
    <3>3. k \in DOMAIN rs /\ n \in DOMAIN rs /\ k < n /\ w[i] \in Nat /\ w[j] \in Nat
      <4>1. DOMAIN rs = 1..Len(rs) /\ Len(rs) \in Nat
        BY <1>1
      <4>0. w \in Seq(Nat)
        BY <1>5, Zenon
      <4>2. w[i] \in Nat /\ w[j] \in Nat
        BY <4>0
      <4> QED
        BY <4>1, <4>2
    <3>4. rs[k] \in Region /\ rs[k].end <= rs[n].start
      BY <1>1, <3>3
    <3>5. (w[i] + 1) * P <= rs[k].end /\ rs[n].start <= w[j] * P
      BY <3>1, <3>2, Zenon DEF Within
    <3>6. (w[i] + 1) * P \in Nat /\ w[j] * P \in Nat /\ rs[k].end \in Nat /\ rs[n].start \in Nat
      BY <1>0, <1>2, <3>3, <3>4 DEF Region
    <3>7. (w[i] + 1) * P <= w[j] * P
      BY <3>4, <3>5, <3>6
    <3> QED
      BY <1>0, <3>3, <3>7, FramesApart, Zenon
  <2> QED
    BY <2>1, <2>2, <2>3, Zenon
<1> QED
  <2>1. Counted(rs, n, w, b + Size(rs[n]))
    BY <1>5, <1>6, <1>7, <1>10, <1>11, Zenon DEF Counted
  <2> QED
    BY <2>1, Zenon DEF w, s, Joined

\* v and b are the frames and the bytes after each region.
Flat(v, rs) == v = [n \in 0..Len(rs) |-> IF n = 0 THEN <<>> ELSE Joined(v[n - 1], rs[n])]
Sums(b, rs) == b = [n \in 0..Len(rs) |-> IF n = 0 THEN 0 ELSE b[n - 1] + Size(rs[n])]

\* usable_frames is the last value of a function defined by recursion: flat_map,
\* region by region.
LEMMA FlatExists ==
  ASSUME NEW rs \in Seq(Region), \A i \in DOMAIN rs : Cut(rs[i])
  PROVE  \E v : Flat(v, rs)
<1> DEFINE n == Len(rs)
           F == [p \in (1..n) \X Seq(Nat) |-> Joined(p[2], rs[p[1]])]
<1>1. n \in Nat /\ DOMAIN rs = 1..n
  OBVIOUS
<1>2. ASSUME NEW s \in Seq(Nat), NEW i \in 1..n PROVE Joined(s, rs[i]) \in Seq(Nat)
  <2>1. rs[i] \in Region /\ Cut(rs[i])
    BY <1>1
  <2>2. Span(rs[i], Steps(rs[i])) \in Seq(Nat)
    BY <2>1, SpanFits, Zenon DEF Fits
  <2> QED
    BY <2>2 DEF Joined
<1> HIDE DEF n
<1>4. F \in [(1..n) \X Seq(Nat) -> Seq(Nat)]
  <2>1. \A p \in (1..n) \X Seq(Nat) : p[1] \in 1..n /\ p[2] \in Seq(Nat)
    BY Zenon
  <2>2. \A p \in (1..n) \X Seq(Nat) : Joined(p[2], rs[p[1]]) \in Seq(Nat)
    BY <2>1, <1>2, Zenon
  <2> QED
    BY <2>2, Zenon
<1>5. <<>> \in Seq(Nat)
  OBVIOUS
<1>6. PICK w \in [0..n -> Seq(Nat)] : Rounds(w, n, <<>>, F)
  <2> HIDE DEF F
  <2> QED
    BY <1>1, <1>4, <1>5, RecursiveFunction, Zenon
<1>7. ASSUME NEW i \in 1..n PROVE w[i] = Joined(w[i - 1], rs[i])
  <2>1. w[i - 1] \in Seq(Nat)
    BY <1>1
  <2>2. <<i, w[i - 1]>> \in (1..n) \X Seq(Nat)
    BY <2>1, Zenon
  <2>3. w[i] = F[<<i, w[i - 1]>>]
    BY <1>6, Zenon DEF Rounds
  <2> QED
    BY <2>2, <2>3, Zenon
<1> HIDE DEF F
<1>8. ASSUME NEW i \in 0..n
      PROVE  w[i] = IF i = 0 THEN <<>> ELSE Joined(w[i - 1], rs[i])
  <2>1. i # 0 => i \in 1..n
    BY <1>1
  <2> QED
    BY <2>1, <1>6, <1>7, Zenon DEF Rounds
<1>9. w = [i \in 0..n |-> w[i]]
  BY Zenon
<1> QED
  BY <1>8, <1>9, Zenon DEF Flat, n

\* So are the bytes of summarize_memory.
LEMMA SumsExist ==
  ASSUME NEW rs \in Seq(Region)
  PROVE  \E b : Sums(b, rs)
<1> DEFINE n == Len(rs)
           F == [p \in (1..n) \X Nat |-> p[2] + Size(rs[p[1]])]
<1>1. n \in Nat /\ DOMAIN rs = 1..n
  OBVIOUS
<1>2. ASSUME NEW i \in 1..n PROVE Size(rs[i]) \in Nat
  <2>1. rs[i] \in Region
    BY <1>1
  <2> QED
    BY <2>1 DEF Size, saturating_sub, Region
<1> HIDE DEF n
<1>4. F \in [(1..n) \X Nat -> Nat]
  BY <1>2
<1>6. PICK w \in [0..n -> Nat] : Rounds(w, n, 0, F)
  <2> HIDE DEF F
  <2>1. 0 \in Nat
    BY Zenon
  <2> QED
    BY <1>1, <1>4, <2>1, RecursiveFunction, Zenon
<1>7. ASSUME NEW i \in 1..n PROVE w[i] = w[i - 1] + Size(rs[i])
  <2>1. w[i - 1] \in Nat
    BY <1>1
  <2>2. <<i, w[i - 1]>> \in (1..n) \X Nat
    BY <2>1, Zenon
  <2>3. w[i] = F[<<i, w[i - 1]>>]
    BY <1>6, Zenon DEF Rounds
  <2> QED
    BY <2>2, <2>3, Zenon
<1> HIDE DEF F
<1>8. ASSUME NEW i \in 0..n
      PROVE  w[i] = IF i = 0 THEN 0 ELSE w[i - 1] + Size(rs[i])
  <2>1. i # 0 => i \in 1..n
    BY <1>1
  <2> QED
    BY <2>1, <1>6, <1>7, Zenon DEF Rounds
<1>9. w = [i \in 0..n |-> w[i]]
  BY Zenon
<1> QED
  BY <1>8, <1>9, Zenon DEF Sums, n

\* The allocator's frames lie in usable regions, ascend, and are no more than the
\* memory summary counts.
LEMMA UsableFrames ==
  ASSUME NEW rs \in Regions
  PROVE  /\ \E b : Counted(rs, Len(rs), usable_frames(rs), b)
         /\ Len(usable_frames(rs)) <= summarize_memory(rs).usable_frames_4k
<1> DEFINE n == Len(rs)
<1>1. rs \in Seq(Region) /\ \A i \in DOMAIN rs : Cut(rs[i])
  BY RegionsAssumption, Zenon DEF Region, Cut
<1>2. n \in Nat
  BY <1>1
<1>3. PICK v : Flat(v, rs) /\ usable_frames(rs) = v[n]
  <2> DEFINE d == CHOOSE v : Flat(v, rs)
  <2>1. Flat(d, rs)
    BY <1>1, FlatExists, Zenon
  <2>2. usable_frames(rs) = d[n]
    BY Zenon DEF usable_frames, Flat, Joined, Steps
  <2> HIDE DEF d
  <2> QED
    BY <2>1, <2>2, Zenon
<1>4. PICK b : Sums(b, rs) /\ summarize_memory(rs).usable_frames_4k = b[n] \div PAGE_SIZE
  <2> DEFINE d == CHOOSE b : Sums(b, rs)
  <2>1. Sums(d, rs)
    BY <1>1, SumsExist, Zenon
  <2>2. summarize_memory(rs) = [usable_bytes |-> d[n], usable_frames_4k |-> d[n] \div PAGE_SIZE]
    BY Zenon DEF summarize_memory, Sums, Size
  <2> HIDE DEF d
  <2>3. summarize_memory(rs).usable_frames_4k = d[n] \div PAGE_SIZE
    BY <2>2
  <2> QED
    BY <2>1, <2>3, Zenon
<1> HIDE DEF n
<1>5. v[0] = <<>> /\ \A i \in 1..n : v[i] = Joined(v[i - 1], rs[i])
  <2>1. \A i \in 0..n : v[i] = IF i = 0 THEN <<>> ELSE Joined(v[i - 1], rs[i])
    BY <1>3, Zenon DEF Flat, n
  <2>2. 0 \in 0..n /\ \A i \in 1..n : i # 0 /\ i \in 0..n
    BY <1>2
  <2> QED
    BY <2>1, <2>2, Zenon
<1>6. b[0] = 0 /\ \A i \in 1..n : b[i] = b[i - 1] + Size(rs[i])
  <2>1. \A i \in 0..n : b[i] = IF i = 0 THEN 0 ELSE b[i - 1] + Size(rs[i])
    BY <1>4, Zenon DEF Sums, n
  <2>2. 0 \in 0..n /\ \A i \in 1..n : i # 0 /\ i \in 0..n
    BY <1>2
  <2> QED
    BY <2>1, <2>2, Zenon
<1> DEFINE T == {i \in 0..n : Counted(rs, i, v[i], b[i])}
<1>7. 0 \in T
  <2>1. Counted(rs, 0, <<>>, 0)
    BY MemoryAssumption DEF Counted
  <2> QED
    BY <1>2, <1>5, <1>6, <2>1
<1>8. ASSUME NEW i \in 0..n - 1, i \in T PROVE i + 1 \in T
  <2>1. i + 1 \in 1..Len(rs) /\ i + 1 \in 1..n /\ i + 1 \in 0..n /\ i + 1 - 1 = i
    BY <1>2 DEF n
  <2>2. Counted(rs, i + 1, Joined(v[i], rs[i + 1]), b[i] + Size(rs[i + 1]))
    <3>1. Counted(rs, i + 1 - 1, v[i], b[i])
      BY <1>8, <2>1, Zenon
    <3> QED
      BY <2>1, <3>1, OneRegionMore
  <2>3. v[i + 1] = Joined(v[i], rs[i + 1]) /\ b[i + 1] = b[i] + Size(rs[i + 1])
    BY <1>5, <1>6, <2>1
  <2> QED
    BY <2>1, <2>2, <2>3, Zenon
<1>9. Counted(rs, n, v[n], b[n])
  <2>1. 0..n \subseteq T
    <3> HIDE DEF T
    <3> QED
      BY <1>2, <1>7, <1>8, UpTo, Zenon
  <2>2. n \in 0..n
    BY <1>2
  <2> QED
    BY <2>1, <2>2, Zenon
<1>10. Len(v[n]) <= b[n] \div PAGE_SIZE
  <2>1. PAGE_SIZE \in Nat \ {0} /\ b[n] \in Nat /\ Len(v[n]) \in Nat /\ Len(v[n]) * PAGE_SIZE <= b[n]
    BY <1>9, MemoryAssumption DEF Counted
  <2> QED
    BY <2>1, AtMost, Zenon
<1> QED
  BY <1>3, <1>4, <1>9, <1>10, Zenon DEF n

-----------------------------------------------------------------------------
(* The pages of the three areas. *)

\* The pages of each of the three calls.
LEMMA PageLists ==
  /\ DOMAIN Pages = Calls
  /\ Pages["demo"] = <<DEMO_PAGE_START>> /\ Pages["heap"] = HEAP_PAGE /\ Pages["user"] = USER_PAGE
  /\ Len(Pages["demo"]) = 1 /\ DOMAIN Pages["demo"] = 1..1
  /\ Len(Pages["heap"]) = HEAP_PAGES /\ DOMAIN Pages["heap"] = 1..HEAP_PAGES
  /\ Len(Pages["user"]) = 3 /\ DOMAIN Pages["user"] = 1..3
<1>1. DOMAIN Pages = Calls
  BY Zenon DEF Pages, Calls
<1>2. Pages["demo"] = <<DEMO_PAGE_START>> /\ Pages["heap"] = HEAP_PAGE /\ Pages["user"] = USER_PAGE
  BY Zenon DEF Pages
<1>3. HEAP_PAGES \in Nat
  BY MemoryAssumption, Zenon
<1>4. Len(HEAP_PAGE) = HEAP_PAGES /\ DOMAIN HEAP_PAGE = 1..HEAP_PAGES
  BY <1>3 DEF HEAP_PAGE
<1>5. Len(USER_PAGE) = 3 /\ DOMAIN USER_PAGE = 1..3
  BY DEF USER_PAGE
<1>6. Len(<<DEMO_PAGE_START>>) = 1 /\ DOMAIN <<DEMO_PAGE_START>> = 1..1
  OBVIOUS
<1> QED
  BY <1>1, <1>2, <1>4, <1>5, <1>6, Zenon

\* The pages are numbers of a call and of a place in its list.
LEMMA OnePlace ==
  /\ \A c \in Calls : DOMAIN Pages[c] = 1..Len(Pages[c]) /\ Len(Pages[c]) \in Nat \ {0}
  /\ \A c \in Calls : \A i \in DOMAIN Pages[c] :
       Pages[c][i] \in Areas /\ \A k \in 1..4 : Pages[c][i][k] \in Nat
  /\ \A c, d \in Calls : \A i \in DOMAIN Pages[c] : \A j \in DOMAIN Pages[d] :
       Agree(Pages[c][i], Pages[d][j], 4) => c = d /\ i = j
<1>1. HEAP_PAGES \in Nat \ {0}
  BY MemoryAssumption, Zenon
<1>2. \A c \in Calls : DOMAIN Pages[c] = 1..Len(Pages[c]) /\ Len(Pages[c]) \in Nat \ {0}
  BY <1>1, PageLists DEF Calls
<1>3. Pages["demo"][1] = <<1, 1, 1, 1>>
  BY PageLists DEF DEMO_PAGE_START, Page
<1>4. ASSUME NEW i \in DOMAIN Pages["heap"]
      PROVE  Pages["heap"][i] = <<0, 0, 0, i - 1>> /\ i - 1 \in Nat /\ i \in Nat
  BY <1>1, PageLists DEF HEAP_PAGE, Page
<1>5. ASSUME NEW i \in DOMAIN Pages["user"]
      PROVE  /\ i \in {1, 2, 3}
             /\ Pages["user"][i] = <<2, 0, 0, IF i = 1 THEN 0 ELSE i>>
  BY PageLists DEF USER_PAGE, USER_CODE_START, Page
<1>6. \A i \in DOMAIN Pages["demo"] : i = 1
  BY PageLists
<1>7. ASSUME NEW c \in Calls, NEW i \in DOMAIN Pages[c], NEW k \in 1..4
      PROVE  Pages[c][i][k] \in Nat
  <2>1. k \in {1, 2, 3, 4}
    OBVIOUS
  <2>2. CASE c = "demo"
    BY <1>3, <1>6, <2>1, <2>2
  <2>3. CASE c = "heap"
    BY <1>4, <2>1, <2>3
  <2>4. CASE c = "user"
    BY <1>5, <2>1, <2>4
  <2> QED
    BY <2>2, <2>3, <2>4, Zenon DEF Calls
<1>8. ASSUME NEW c \in Calls, NEW d \in Calls, NEW i \in DOMAIN Pages[c],
             NEW j \in DOMAIN Pages[d], Agree(Pages[c][i], Pages[d][j], 4)
      PROVE  c = d /\ i = j
  <2>1. Pages[c][i][1] = Pages[d][j][1] /\ Pages[c][i][4] = Pages[d][j][4]
    BY <1>8 DEF Agree
  <2>2. CASE c = "demo"
    <3>1. CASE d = "demo"
      BY <1>6, <2>2, <3>1, Zenon
    <3>2. CASE d = "heap"
      BY <1>3, <1>4, <1>6, <2>1, <2>2, <3>2
    <3>3. CASE d = "user"
      BY <1>3, <1>5, <1>6, <2>1, <2>2, <3>3
    <3> QED
      BY <3>1, <3>2, <3>3, Zenon DEF Calls
  <2>3. CASE c = "heap"
    <3>1. CASE d = "demo"
      BY <1>3, <1>4, <1>6, <2>1, <2>3, <3>1
    <3>2. CASE d = "heap"
      BY <1>4, <2>1, <2>3, <3>2
    <3>3. CASE d = "user"
      BY <1>4, <1>5, <2>1, <2>3, <3>3
    <3> QED
      BY <3>1, <3>2, <3>3, Zenon DEF Calls
  <2>4. CASE c = "user"
    <3>1. CASE d = "demo"
      BY <1>3, <1>5, <1>6, <2>1, <2>4, <3>1
    <3>2. CASE d = "heap"
      BY <1>4, <1>5, <2>1, <2>4, <3>2
    <3>3. CASE d = "user"
      BY <1>5, <2>1, <2>4, <3>3
    <3> QED
      BY <3>1, <3>2, <3>3, Zenon DEF Calls
  <2> QED
    BY <2>2, <2>3, <2>4, Zenon DEF Calls
<1>9. ASSUME NEW c \in Calls, NEW i \in DOMAIN Pages[c] PROVE Pages[c][i] \in Areas
  <2>1. c \in DOMAIN Pages
    BY PageLists, Zenon
  <2>2. Pages[c][i] \in {Pages[c][k] : k \in DOMAIN Pages[c]}
    BY Zenon
  <2> QED
    BY <2>1, <2>2, Zenon DEF Areas
<1> QED
  BY <1>2, <1>7, <1>8, <1>9, Zenon

\* A page of the areas is a page of one of the calls, and is known by its indices.
LEMMA AreaPages ==
  /\ \A p \in Areas : \E c \in Calls : \E i \in DOMAIN Pages[c] : p = Pages[c][i]
  /\ \A p \in Areas : \A k \in 1..4 : p[k] \in Nat
  /\ \A p, q \in Areas : Agree(p, q, 4) => p = q
<1>1. \A p \in Areas : \E c \in Calls : \E i \in DOMAIN Pages[c] : p = Pages[c][i]
  BY PageLists, Zenon DEF Areas
<1>2. \A p \in Areas : \A k \in 1..4 : p[k] \in Nat
  BY <1>1, OnePlace
<1>3. ASSUME NEW p \in Areas, NEW q \in Areas, Agree(p, q, 4) PROVE p = q
  <2>1. PICK c \in Calls : \E i \in DOMAIN Pages[c] : p = Pages[c][i]
    BY <1>1, Zenon
  <2>2. PICK i \in DOMAIN Pages[c] : p = Pages[c][i]
    BY <2>1, Zenon
  <2>3. PICK d \in Calls : \E j \in DOMAIN Pages[d] : q = Pages[d][j]
    BY <1>1, Zenon
  <2>4. PICK j \in DOMAIN Pages[d] : q = Pages[d][j]
    BY <2>3, Zenon
  <2>5. c = d /\ i = j
    BY <1>3, <2>2, <2>4, OnePlace, Zenon
  <2> QED
    BY <2>2, <2>4, <2>5, Zenon
<1> QED
  BY <1>1, <1>2, <1>3, Zenon

-----------------------------------------------------------------------------
(* Walks of the page tables. *)

\* A walk to a page of the areas finds the frame the page was given.
LEMMA WalkOfArea ==
  ASSUME NEW tab, NEW e, NEW g, NEW p \in Areas, NEW o,
         Linked(tab, e), Leaves(tab, e, g), CR3 # -1
  PROVE  walk_virtual_address(e, Address(p, o, TRUE)) =
           IF p \in DOMAIN g THEN [kind |-> "4KiB", phys |-> g[p] * PAGE_SIZE + o] ELSE Unmapped
<1> DEFINE a == Address(p, o, TRUE)
           t == tab[p]
<1>1. a.page = p /\ a.offset = o /\ a.canonical = TRUE
  BY Zenon DEF Address
<1> HIDE DEF a
<1>2. t[1] = CR3
  BY Zenon DEF Linked
<1>3. ASSUME NEW k \in 1..3, t[k] # -1, <<t[k], p[k]>> \in DOMAIN e
      PROVE  /\ t[k + 1] # -1
             /\ e[<<t[k], p[k]>>].frame = t[k + 1] /\ e[<<t[k], p[k]>>].kind = "table"
  <2>1. t[k + 1] # -1 /\ e[<<t[k], p[k]>>] = [kind |-> "table", frame |-> t[k + 1]]
    BY <1>3, Zenon DEF Linked
  <2> QED
    BY <2>1
<1>4. ASSUME NEW k \in 1..3, t[k] = -1 \/ <<t[k], p[k]>> \notin DOMAIN e
      PROVE  t[k + 1] = -1
  BY <1>4, Zenon DEF Linked
<1>5. t[4] = -1 \/ <<t[4], p[4]>> \notin DOMAIN e => p \notin DOMAIN g
  BY Zenon DEF Leaves
<1>6. t[4] # -1 /\ <<t[4], p[4]>> \in DOMAIN e =>
        p \in DOMAIN g /\ e[<<t[4], p[4]>>] = [kind |-> "page", frame |-> g[p]]
  BY Zenon DEF Leaves
<1> HIDE DEF t
<1>7. CASE <<t[1], p[1]>> \notin DOMAIN e
  <2>1. t[2] = -1 /\ t[3] = -1 /\ t[4] = -1
    BY <1>4, <1>7
  <2> QED
    BY <1>1, <1>2, <1>5, <1>7, <2>1, Zenon DEF walk_virtual_address, Present, a
<1>8. CASE <<t[1], p[1]>> \in DOMAIN e
  <2>1. t[2] # -1 /\ e[<<t[1], p[1]>>].frame = t[2]
    BY <1>2, <1>3, <1>8
  <2>2. CASE <<t[2], p[2]>> \notin DOMAIN e
    <3>1. t[3] = -1 /\ t[4] = -1
      BY <1>4, <2>2
    <3> QED
      BY <1>1, <1>2, <1>5, <1>8, <2>1, <2>2, <3>1, Zenon DEF walk_virtual_address, Present, a
  <2>3. CASE <<t[2], p[2]>> \in DOMAIN e
    <3>1. t[3] # -1 /\ e[<<t[2], p[2]>>].frame = t[3] /\ e[<<t[2], p[2]>>].kind # "huge"
      BY <1>3, <2>1, <2>3
    <3>2. CASE <<t[3], p[3]>> \notin DOMAIN e
      <4>1. t[4] = -1
        BY <1>4, <3>2
      <4> QED
        BY <1>1, <1>2, <1>5, <1>8, <2>1, <2>3, <3>1, <3>2, <4>1, ZenonT(60)
        DEF walk_virtual_address, Present, a
    <3>3. CASE <<t[3], p[3]>> \in DOMAIN e
      <4>1. t[4] # -1 /\ e[<<t[3], p[3]>>].frame = t[4] /\ e[<<t[3], p[3]>>].kind # "huge"
        BY <1>3, <3>1, <3>3
      <4> DEFINE e4 == e[<<CR3, p[1]>>]
                 e3 == e[<<e4.frame, p[2]>>]
                 e2 == e[<<e3.frame, p[3]>>]
                 e1 == e[<<e2.frame, p[4]>>]
      <4>a. e4.frame = t[2] /\ e3 = e[<<t[2], p[2]>>]
        BY <1>2, <2>1, Zenon
      <4>b. e3.frame = t[3] /\ e3.kind # "huge" /\ e2 = e[<<t[3], p[3]>>]
        BY <3>1, <4>a, Zenon
      <4>c. e2.frame = t[4] /\ e2.kind # "huge" /\ e1 = e[<<t[4], p[4]>>]
        BY <4>1, <4>b, Zenon
      <4>d. walk_virtual_address(e, a) =
              IF <<e2.frame, p[4]>> \notin DOMAIN e THEN Unmapped
              ELSE [kind |-> "4KiB", phys |-> e1.frame * PAGE_SIZE + o]
        <5>1. /\ a.canonical /\ <<CR3, p[1]>> \in DOMAIN e /\ <<e4.frame, p[2]>> \in DOMAIN e
              /\ <<e3.frame, p[3]>> \in DOMAIN e
          BY <1>1, <1>2, <1>8, <2>3, <3>3, <4>a, <4>b, Zenon
        <5> QED
          BY <1>1, <4>b, <4>c, <5>1, Zenon DEF walk_virtual_address, Present
      <4> HIDE DEF e4, e3, e2, e1
      <4>2. CASE <<t[4], p[4]>> \notin DOMAIN e
        BY <1>5, <4>2, <4>c, <4>d, Zenon DEF a
      <4>3. CASE <<t[4], p[4]>> \in DOMAIN e
        <5>1. p \in DOMAIN g /\ e1.frame = g[p]
          BY <1>6, <4>1, <4>3, <4>c
        <5> QED
          BY <4>3, <4>c, <4>d, <5>1, Zenon DEF a
      <4> QED
        BY <4>2, <4>3, Zenon
    <3> QED
      BY <3>2, <3>3, Zenon
  <2> QED
    BY <2>2, <2>3, Zenon
<1> QED
  BY <1>7, <1>8, Zenon

\* What translate_addr finds at a page of the areas is what was mapped there.
LEMMA MappedIsGiven ==
  ASSUME NEW tab, NEW e, NEW g, NEW p \in Areas, Linked(tab, e), Leaves(tab, e, g)
  PROVE  Mapped(e, p) <=> p \in DOMAIN g
<1>1. CR3 # -1
  BY MemoryAssumption
<1>2. walk_virtual_address(e, Address(p, 0, TRUE)) =
        IF p \in DOMAIN g THEN [kind |-> "4KiB", phys |-> g[p] * PAGE_SIZE + 0] ELSE Unmapped
  BY <1>1, WalkOfArea, Zenon
<1>3. [kind |-> "4KiB", phys |-> g[p] * PAGE_SIZE + 0].kind # Unmapped.kind
  BY Zenon DEF Unmapped
<1> QED
  BY <1>2, <1>3, Zenon DEF Mapped

\* The walk through the bootloader's mapping of physical memory ends where it should.
PhysicalWalk(e, i3, i2, i1, o) ==
  walk_virtual_address(e, Address(Page(3, i3, i2, i1), o, TRUE)) =
    [kind |-> IF i3 = 0 THEN "1GiB" ELSE "2MiB",
     phys |-> ((i3 * ENTRIES + i2) * ENTRIES + i1) * PAGE_SIZE + o]

\* It does as long as the bootloader's entries are kept.
LEMMA WalkOfPhysical ==
  ASSUME NEW e, Kept(e), NEW i3 \in {0, 1}, NEW i2 \in Index, NEW i1 \in Index,
         NEW o \in 0..PAGE_SIZE - 1
  PROVE  PhysicalWalk(e, i3, i2, i1, o)
<1> DEFINE Holds(t, i, kind, frame) ==
             <<t, i>> \in DOMAIN BootEntries /\ BootEntries[<<t, i>>] = [kind |-> kind, frame |-> frame]
           Has(t, i, kind, frame) ==
             <<t, i>> \in DOMAIN e /\ e[<<t, i>>].kind = kind /\ e[<<t, i>>].frame = frame
<1>1. PICK t3 \in BootTables, t2 \in BootTables :
        /\ Holds(CR3, 3, "table", t3) /\ Holds(t3, 0, "huge", 0) /\ Holds(t3, 1, "table", t2)
        /\ \A i \in Index : Holds(t2, i, "huge", (ENTRIES + i) * ENTRIES)
  BY PhysicalMemoryAssumption, Zenon
<1>2. ASSUME NEW t, NEW i, NEW kind, NEW frame, Holds(t, i, kind, frame) PROVE Has(t, i, kind, frame)
  <2>1. <<t, i>> \in DOMAIN e /\ e[<<t, i>>] = [kind |-> kind, frame |-> frame]
    BY <1>2, Zenon DEF Kept
  <2> QED
    BY <2>1
<1> HIDE DEF Holds, Has
<1>3. Has(CR3, 3, "table", t3) /\ Has(t3, 0, "huge", 0) /\ Has(t3, 1, "table", t2)
  BY <1>1, <1>2, Zenon
<1>4. Has(t2, i2, "huge", (ENTRIES + i2) * ENTRIES)
  BY <1>1, <1>2, Zenon
<1>5. PAGE_SIZE \in Nat /\ ENTRIES \in Nat /\ i1 \in Nat /\ i2 \in Nat /\ o \in Nat
  BY MemoryAssumption DEF Index
<1> DEFINE a == Address(Page(3, i3, i2, i1), o, TRUE)
<1>6. /\ a.canonical /\ a.offset = o
      /\ a.page[1] = 3 /\ a.page[2] = i3 /\ a.page[3] = i2 /\ a.page[4] = i1
  BY Zenon DEF Address, Page
<1> HIDE DEF a
<1> DEFINE e4 == e[<<CR3, a.page[1]>>]
           e3 == e[<<e4.frame, a.page[2]>>]
           e2 == e[<<e3.frame, a.page[3]>>]
<1>7. e4.frame = t3 /\ <<CR3, a.page[1]>> \in DOMAIN e /\ e3 = e[<<t3, i3>>]
  BY <1>3, <1>6, Zenon DEF Has
<1>8. CASE i3 = 0
  <2>1. e3.kind = "huge" /\ e3.frame = 0 /\ <<e4.frame, a.page[2]>> \in DOMAIN e
    BY <1>3, <1>6, <1>7, <1>8 DEF Has
  <2>2. walk_virtual_address(e, a) =
          [kind |-> "1GiB",
           phys |-> e3.frame * PAGE_SIZE
                    + (a.page[3] * ENTRIES * PAGE_SIZE + (a.page[4] * PAGE_SIZE + a.offset))]
    BY <1>6, <1>7, <2>1, Zenon DEF walk_virtual_address, Present
  <2>3. 0 * PAGE_SIZE + (i2 * ENTRIES * PAGE_SIZE + (i1 * PAGE_SIZE + o))
          = ((i3 * ENTRIES + i2) * ENTRIES + i1) * PAGE_SIZE + o
    BY <1>5, <1>8
  <2> HIDE DEF e3
  <2>4. e3.frame * PAGE_SIZE + (a.page[3] * ENTRIES * PAGE_SIZE + (a.page[4] * PAGE_SIZE + a.offset))
          = ((i3 * ENTRIES + i2) * ENTRIES + i1) * PAGE_SIZE + o
    BY <1>6, <2>1, <2>3, Zenon
  <2> QED
    BY <1>8, <2>2, <2>4, Zenon DEF a, PhysicalWalk
<1>9. CASE i3 = 1
  <2>1. e3.kind # "huge" /\ e3.frame = t2 /\ <<e4.frame, a.page[2]>> \in DOMAIN e
    BY <1>3, <1>6, <1>7, <1>9, Zenon DEF Has
  <2>2. /\ e2.kind = "huge" /\ e2.frame = (ENTRIES + i2) * ENTRIES
        /\ <<e3.frame, a.page[3]>> \in DOMAIN e
    BY <1>4, <1>6, <2>1, Zenon DEF Has
  <2>3. walk_virtual_address(e, a) =
          [kind |-> "2MiB", phys |-> e2.frame * PAGE_SIZE + (a.page[4] * PAGE_SIZE + a.offset)]
    BY <1>6, <1>7, <2>1, <2>2, Zenon DEF walk_virtual_address, Present
  <2>4. ((ENTRIES + i2) * ENTRIES) * PAGE_SIZE + (i1 * PAGE_SIZE + o)
          = ((i3 * ENTRIES + i2) * ENTRIES + i1) * PAGE_SIZE + o
    BY <1>5, <1>9
  <2> HIDE DEF e2
  <2>5. e2.frame * PAGE_SIZE + (a.page[4] * PAGE_SIZE + a.offset)
          = ((i3 * ENTRIES + i2) * ENTRIES + i1) * PAGE_SIZE + o
    BY <1>6, <2>2, <2>4, Zenon
  <2>6. i3 # 0
    BY <1>9
  <2> QED
    BY <2>3, <2>5, <2>6, Zenon DEF a, PhysicalWalk
<1> QED
  BY <1>8, <1>9, Zenon

-----------------------------------------------------------------------------
(* What mapping does to the tables. *)

Tables(tab, e, g) == tab \in Way /\ Linked(tab, e) /\ Leaves(tab, e, g) /\ Apart(tab) /\ Kept(e)

\* The way to page p, once the frame x is the table after level k.
Grown(tab, p, k, x) ==
  [q \in Areas |-> [i \in 1..4 |-> IF i = k + 1 /\ Agree(p, q, k) THEN x ELSE tab[q][i]]]

WithTable(e, tab, p, k, x) ==
  Put(Zeroed(e, x), <<tab[p][k], p[k]>>, [kind |-> "table", frame |-> x])

WithPage(e, tab, p, x) == Put(e, <<tab[p][4], p[4]>>, [kind |-> "page", frame |-> x])

Ascends(f) == \A i, j \in DOMAIN f : i < j => f[i] < f[j]

\* A frame handed out leaves the ones after it unused.
LEMMA StillUnused ==
  ASSUME NEW tab, NEW e, NEW f \in Seq(Nat), NEW n \in Nat, Unused(tab, e, f, n)
  PROVE  Unused(tab, e, f, n + 1)
<1>1. n + 1 + 1..Len(f) \subseteq n + 1..Len(f)
  OBVIOUS
<1> QED
  BY <1>1, Zenon DEF Unused

\* No two ways share an entry that is not the same entry of both.
LEMMA OwnEntry ==
  ASSUME NEW tab, Apart(tab), NEW p \in Areas, NEW q \in Areas, NEW k \in 1..4, NEW i \in 1..4,
         tab[p][k] # -1, <<tab[q][i], q[i]>> = <<tab[p][k], p[k]>>
  PROVE  i = k /\ Agree(p, q, k)
<1>1. tab[q][i] = tab[p][k] /\ q[i] = p[k]
  BY Zenon
<1>2. k = i /\ Agree(p, q, k - 1)
  BY <1>1, Zenon DEF Apart
<1>3. ASSUME NEW m \in 1..k PROVE p[m] = q[m]
  <2>1. CASE m = k
    BY <1>1, <1>2, <2>1, Zenon
  <2>2. CASE m # k
    <3>1. m \in 1..k - 1
      BY <2>2
    <3> QED
      BY <1>2, <3>1, Zenon DEF Agree
  <2> QED
    BY <2>1, <2>2, Zenon
<1> QED
  BY <1>2, <1>3, Zenon DEF Agree

\* The frame x is not a table.
NoTable(tab, e, x) ==
  (\A s \in DOMAIN e : s[1] # x) /\ (\A q \in Areas : \A i \in 1..4 : tab[q][i] # x)

\* T and E are tab and e with the table x.
HasTable(T, E, tab, e, g, p, k, x) ==
  /\ Tables(T, E, g) /\ DOMAIN E = DOMAIN e \cup {<<tab[p][k], p[k]>>}
  /\ \A q \in Areas : \A i \in 1..4 :
       T[q][i] = IF i = k + 1 /\ Agree(p, q, k) THEN x ELSE tab[q][i]

\* A new table, in a frame that was none, disturbs no mapping: create_next_table.
LEMMA TableAdded ==
  ASSUME NEW tab, NEW e, NEW g, Tables(tab, e, g), NEW p \in Areas, NEW k \in 1..3, NEW x \in Nat,
         tab[p][k] # -1, <<tab[p][k], p[k]>> \notin DOMAIN e,
         NoTable(tab, e, x)
  PROVE  HasTable(Grown(tab, p, k, x), WithTable(e, tab, p, k, x), tab, e, g, p, k, x)
<1> DEFINE s == <<tab[p][k], p[k]>>
           z == Zeroed(e, x)
           E == WithTable(e, tab, p, k, x)
           T == Grown(tab, p, k, x)
<1>0. (\A y \in DOMAIN e : y[1] # x) /\ (\A q \in Areas : \A i \in 1..4 : tab[q][i] # x)
  BY Zenon DEF NoTable
<1>1. DOMAIN z = DOMAIN e /\ \A y \in DOMAIN e : z[y] = e[y]
  BY <1>0, Zenon DEF Zeroed
<1>2. /\ DOMAIN E = DOMAIN e \cup {s} /\ E[s] = [kind |-> "table", frame |-> x]
      /\ \A y \in DOMAIN e : y # s /\ E[y] = e[y]
  <2> HIDE DEF z
  <2> DEFINE r == [kind |-> "table", frame |-> x]
  <2>1. E = Put(z, s, r)
    BY Zenon DEF WithTable, z
  <2> HIDE DEF E, s, r
  <2>2. DOMAIN E = DOMAIN z \cup {s} /\ E[s] = r /\ \A y \in DOMAIN z : y # s => E[y] = z[y]
    BY <2>1, Zenon DEF Put
  <2>4. s \notin DOMAIN e
    BY Zenon DEF s
  <2> QED
    BY <1>1, <2>2, <2>4, Zenon DEF r
<1>3. \A q \in Areas : \A i \in 1..4 : T[q][i] = IF i = k + 1 /\ Agree(p, q, k) THEN x ELSE tab[q][i]
  BY Zenon DEF Grown
<1>4. T \in Way
  <2>1. tab \in Way
    BY Zenon DEF Tables
  <2>2. ASSUME NEW q \in Areas, NEW i \in 1..4
        PROVE  (IF i = k + 1 /\ Agree(p, q, k) THEN x ELSE tab[q][i]) \in Nat \cup {-1}
    <3>1. tab[q] \in [1..4 -> Nat \cup {-1}]
      BY <2>1, Zenon DEF Way
    <3>2. tab[q][i] \in Nat \cup {-1} /\ x \in Nat \cup {-1}
      BY <3>1, Zenon
    <3> QED
      BY <3>2, Zenon
  <2> DEFINE row(q) == [i \in 1..4 |-> IF i = k + 1 /\ Agree(p, q, k) THEN x ELSE tab[q][i]]
  <2>3. ASSUME NEW q \in Areas PROVE row(q) \in [1..4 -> Nat \cup {-1}]
    BY <2>2, Zenon
  <2>4. T = [q \in Areas |-> row(q)]
    BY Zenon DEF Grown
  <2> HIDE DEF row
  <2> QED
    BY <2>3, <2>4, Zenon DEF Way
<1> HIDE DEF E, T, z
<1>5. ASSUME NEW q \in Areas, Agree(p, q, k)
      PROVE  /\ tab[q][k] = tab[p][k] /\ <<tab[q][k], q[k]>> = s
             /\ \A i \in k + 1..4 : tab[q][i] = -1
  <2>1. Agree(p, q, k - 1) /\ p[k] = q[k]
    BY <1>5 DEF Agree
  <2>2. tab[q][k] = tab[p][k]
    <3>1. Apart(tab) /\ k \in 1..4
      BY DEF Tables
    <3> QED
      BY <2>1, <3>1, Zenon DEF Apart
  <2>3. <<tab[q][k], q[k]>> = s
    BY <2>1, <2>2, Zenon
  <2>4. Linked(tab, e)
    BY Zenon DEF Tables
  <2>5. ASSUME NEW i \in 1..3, tab[q][i] = -1 \/ <<tab[q][i], q[i]>> \notin DOMAIN e
        PROVE  tab[q][i + 1] = -1
    BY <2>4, <2>5, Zenon DEF Linked
  <2> HIDE DEF s
  <2>6. tab[q][k + 1] = -1
    BY <2>3, <2>5, Zenon DEF s
  <2>7. k + 2 <= 4 => tab[q][k + 2] = -1
    <3>1. k + 2 <= 4 => k + 1 \in 1..3 /\ k + 1 + 1 = k + 2
      OBVIOUS
    <3> QED
      BY <2>5, <2>6, <3>1, Zenon
  <2>8. k + 3 <= 4 => tab[q][k + 3] = -1
    <3>1. k + 3 <= 4 => k + 2 \in 1..3 /\ k + 2 + 1 = k + 3 /\ k + 2 <= 4
      OBVIOUS
    <3> QED
      BY <2>5, <2>7, <3>1, Zenon
  <2>9. \A i \in k + 1..4 : i = k + 1 \/ (i = k + 2 /\ k + 2 <= 4) \/ (i = k + 3 /\ k + 3 <= 4)
    OBVIOUS
  <2> QED
    BY <2>2, <2>3, <2>6, <2>7, <2>8, <2>9, Zenon
<1>6. ASSUME NEW q \in Areas, NEW i \in 1..4, <<tab[q][i], q[i]>> = s
      PROVE  i = k /\ Agree(p, q, k)
  BY <1>6, OwnEntry DEF Tables
<1>7. \A c : <<x, c>> \notin DOMAIN E
  <2>1. tab[p][k] # x
    BY <1>0
  <2> QED
    BY <1>0, <1>2, <2>1, Zenon
<1>8. Linked(T, E)
  <2> SUFFICES ASSUME NEW q \in Areas
               PROVE  /\ T[q][1] = CR3
                      /\ \A i \in 1..3 :
                           LET y == <<T[q][i], q[i]>>
                           IN IF T[q][i] # -1 /\ y \in DOMAIN E
                                THEN T[q][i + 1] # -1 /\ E[y] = [kind |-> "table", frame |-> T[q][i + 1]]
                                ELSE T[q][i + 1] = -1
    BY Zenon DEF Linked
  <2>1. T[q][1] = CR3
    <3>1. tab[q][1] = CR3
      BY Zenon DEF Tables, Linked
    <3>2. 1 \in 1..4 /\ 1 # k + 1
      OBVIOUS
    <3> QED
      BY <1>3, <3>1, <3>2, Zenon
  <2>2. ASSUME NEW i \in 1..3
        PROVE  LET y == <<T[q][i], q[i]>>
               IN IF T[q][i] # -1 /\ y \in DOMAIN E
                    THEN T[q][i + 1] # -1 /\ E[y] = [kind |-> "table", frame |-> T[q][i + 1]]
                    ELSE T[q][i + 1] = -1
    <3>1. CASE Agree(p, q, k) /\ i = k
      <4>1. T[q][i] = tab[q][k] /\ T[q][i + 1] = x
        BY <1>3, <3>1
      <4>2. <<T[q][i], q[i]>> = s /\ x # -1 /\ tab[q][k] # -1
        BY <1>5, <3>1, <4>1
      <4> HIDE DEF s
      <4> QED
        BY <1>2, <4>1, <4>2, Zenon
    <3>2. CASE Agree(p, q, k) /\ i = k + 1
      <4>1. T[q][i] = x /\ T[q][i + 1] = tab[q][i + 1] /\ i + 1 \in k + 1..4
        BY <1>3, <3>2
      <4>2. T[q][i + 1] = -1
        BY <1>5, <3>2, <4>1, Zenon
      <4> QED
        BY <1>7, <4>1, <4>2, Zenon
    <3>3. CASE ~ (Agree(p, q, k) /\ i \in {k, k + 1})
      <4> DEFINE y == <<tab[q][i], q[i]>>
      <4>1. T[q][i] = tab[q][i] /\ T[q][i + 1] = tab[q][i + 1]
        BY <1>3, <3>3
      <4>2. y # s
        BY <1>6, <3>3
      <4>3. y \in DOMAIN E <=> y \in DOMAIN e
        BY <1>2, <4>2, Zenon
      <4>4. y \in DOMAIN e => E[y] = e[y]
        BY <1>2, Zenon
      <4>5. IF tab[q][i] # -1 /\ y \in DOMAIN e
              THEN tab[q][i + 1] # -1 /\ e[y] = [kind |-> "table", frame |-> tab[q][i + 1]]
              ELSE tab[q][i + 1] = -1
        BY Zenon DEF Tables, Linked
      <4> QED
        BY <4>1, <4>3, <4>4, <4>5, Zenon
    <3> QED
      BY <3>1, <3>2, <3>3, Zenon
  <2> QED
    BY <2>1, <2>2, Zenon
<1>9. Leaves(T, E, g)
  <2> SUFFICES ASSUME NEW q \in Areas
               PROVE  LET y == <<T[q][4], q[4]>>
                      IN IF T[q][4] # -1 /\ y \in DOMAIN E
                           THEN q \in DOMAIN g /\ E[y] = [kind |-> "page", frame |-> g[q]]
                           ELSE q \notin DOMAIN g
    BY Zenon DEF Leaves
  <2> DEFINE y == <<tab[q][4], q[4]>>
  <2>1. IF tab[q][4] # -1 /\ y \in DOMAIN e
          THEN q \in DOMAIN g /\ e[y] = [kind |-> "page", frame |-> g[q]]
          ELSE q \notin DOMAIN g
    BY Zenon DEF Tables, Leaves
  <2>2. CASE k = 3 /\ Agree(p, q, k)
    <3>1. T[q][4] = x /\ tab[q][4] = -1
      BY <1>3, <1>5, <2>2
    <3> QED
      BY <1>7, <2>1, <3>1, Zenon
  <2>3. CASE ~ (k = 3 /\ Agree(p, q, k))
    <3>1. T[q][4] = tab[q][4] /\ y # s
      BY <1>3, <1>6, <2>3
    <3>2. (y \in DOMAIN E <=> y \in DOMAIN e) /\ (y \in DOMAIN e => E[y] = e[y])
      BY <1>2, <3>1, Zenon
    <3> QED
      BY <2>1, <3>1, <3>2, Zenon
  <2> QED
    BY <2>2, <2>3, Zenon
<1>10. Apart(T)
  <2>1. ASSUME NEW q \in Areas, NEW r \in Areas, NEW i \in 1..4, NEW j \in 1..4,
               T[q][i] # -1, T[q][i] = T[r][j]
        PROVE  i = j /\ Agree(q, r, i - 1)
    <3>1. CASE T[q][i] = x
      <4>0. T[r][j] = x /\ tab[q][i] # x /\ tab[r][j] # x
        BY <1>0, <2>1, <3>1, Zenon
      <4>1. i = k + 1 /\ Agree(p, q, k) /\ j = k + 1 /\ Agree(p, r, k)
        BY <1>3, <3>1, <4>0, Zenon
      <4>2. i - 1 = k
        BY <4>1
      <4> QED
        BY <4>1, <4>2, Zenon DEF Agree
    <3>2. CASE T[q][i] # x
      <4>1. T[q][i] = tab[q][i] /\ T[r][j] = tab[r][j]
        BY <1>3, <2>1, <3>2, Zenon
      <4>2. Apart(tab) /\ tab[q][i] # -1 /\ tab[q][i] = tab[r][j]
        BY <2>1, <4>1, Zenon DEF Tables
      <4> QED
        BY <4>2, Zenon DEF Apart
    <3> QED
      BY <3>1, <3>2, Zenon
  <2>2. ASSUME NEW q \in Areas, NEW r \in Areas, NEW i \in 1..4, Agree(q, r, i - 1)
        PROVE  T[q][i] = T[r][i]
    <3>1. tab[q][i] = tab[r][i]
      BY <2>2 DEF Tables, Apart
    <3>2. i = k + 1 => (Agree(p, q, k) <=> Agree(p, r, k))
      <4>1. ASSUME i = k + 1 PROVE \A m \in 1..k : q[m] = r[m]
        BY <2>2, <4>1 DEF Agree
      <4> QED
        BY <4>1, Zenon DEF Agree
    <3> QED
      BY <1>3, <3>1, <3>2, Zenon
  <2> QED
    BY <2>1, <2>2 DEF Apart
<1>11. Kept(E)
  BY <1>2, Zenon DEF Tables, Kept
<1> QED
  BY <1>2, <1>3, <1>4, <1>8, <1>9, <1>10, <1>11, Zenon DEF Tables, HasTable, E, T

\* The entry at level k on the way to p is free, and so is the next frame.
CanGrow(tab, e, g, p, k, f, n) ==
  /\ Tables(tab, e, g) /\ tab[p][k] # -1 /\ <<tab[p][k], p[k]>> \notin DOMAIN e
  /\ f \in Seq(Nat) /\ n \in Nat /\ n < Len(f) /\ Unused(tab, e, f, n) /\ Ascends(f)

\* T and E are the tables with one more; the frames after it are still unused.
HasGrown(T, E, g, p, k, f, n) ==
  /\ Tables(T, E, g) /\ Unused(T, E, f, n + 1)
  /\ T[p][k + 1] = f[n + 1] /\ f[n + 1] # -1

\* create_next_table, with the allocator's next frame.
LEMMA TableUnused ==
  ASSUME NEW tab, NEW e, NEW g, NEW p \in Areas, NEW k \in 1..3, NEW f, NEW n,
         CanGrow(tab, e, g, p, k, f, n)
  PROVE  HasGrown(Grown(tab, p, k, f[n + 1]), WithTable(e, tab, p, k, f[n + 1]), g, p, k, f, n)
<1> DEFINE x == f[n + 1]
           E == WithTable(e, tab, p, k, x)
           T == Grown(tab, p, k, x)
<1>0. /\ Tables(tab, e, g) /\ tab[p][k] # -1 /\ <<tab[p][k], p[k]>> \notin DOMAIN e
      /\ f \in Seq(Nat) /\ n \in Nat /\ n < Len(f) /\ Unused(tab, e, f, n) /\ Ascends(f)
  BY Zenon DEF CanGrow
<1>1. n + 1 \in DOMAIN f /\ n + 1 \in n + 1..Len(f) /\ x \in Nat
  BY <1>0
<1>2. NoTable(tab, e, x)
  BY <1>0, <1>1, Zenon DEF Unused, NoTable
<1> HIDE DEF x
<1>3. /\ Tables(T, E, g) /\ DOMAIN E = DOMAIN e \cup {<<tab[p][k], p[k]>>}
      /\ \A q \in Areas : \A i \in 1..4 : T[q][i] = IF i = k + 1 /\ Agree(p, q, k) THEN x ELSE tab[q][i]
  <2>1. Tables(tab, e, g) /\ x \in Nat /\ tab[p][k] # -1 /\ <<tab[p][k], p[k]>> \notin DOMAIN e
    BY <1>0, <1>1, Zenon
  <2>2. HasTable(T, E, tab, e, g, p, k, x)
    BY <1>2, <2>1, TableAdded, Zenon
  <2> HIDE DEF T, E
  <2> QED
    BY <2>2, Zenon DEF HasTable
<1> HIDE DEF E, T
<1>4. ASSUME NEW i \in n + 2..Len(f)
      PROVE  /\ \A s \in DOMAIN E : s[1] # f[i]
             /\ \A q \in Areas : \A j \in 1..4 : T[q][j] # f[i]
  <2>1. i \in n + 1..Len(f) /\ i \in DOMAIN f /\ n + 1 < i /\ f[i] \in Nat
    BY <1>0
  <2>2. x < f[i]
    BY <1>0, <1>1, <2>1, Zenon DEF x, Ascends
  <2>3. (\A s \in DOMAIN e : s[1] # f[i]) /\ (\A q \in Areas : \A j \in 1..4 : tab[q][j] # f[i])
    BY <1>0, <2>1, Zenon DEF Unused
  <2>4. x # f[i] /\ k \in 1..4
    BY <1>1, <2>1, <2>2
  <2>5. tab[p][k] # f[i]
    BY <2>3, <2>4, Zenon
  <2>6. \A s \in DOMAIN E : s[1] # f[i]
    BY <1>3, <2>3, <2>5
  <2> QED
    BY <1>3, <2>3, <2>4, <2>6
<1>5. n + 1 + 1..Len(f) = n + 2..Len(f)
  BY <1>0
<1>6. Unused(T, E, f, n + 1)
  BY <1>4, <1>5, Zenon DEF Unused
<1>7. T[p][k + 1] = x
  <2>1. Agree(p, p, k) /\ k + 1 \in 1..4
    BY DEF Agree
  <2> QED
    BY <1>3, <2>1, Zenon
<1>8. x # -1
  BY <1>1
<1> QED
  BY <1>3, <1>6, <1>7, <1>8, Zenon DEF x, E, T, HasGrown

\* A page set, once the tables on its way are there.
LEMMA PageAdded ==
  ASSUME NEW tab, NEW e, NEW g, Tables(tab, e, g), NEW p \in Areas, NEW x,
         tab[p][4] # -1, p \notin DOMAIN g, NEW f, NEW n, Unused(tab, e, f, n)
  PROVE  /\ Tables(tab, WithPage(e, tab, p, x), Put(g, p, x))
         /\ Unused(tab, WithPage(e, tab, p, x), f, n)
<1> DEFINE s == <<tab[p][4], p[4]>>
           r == [kind |-> "page", frame |-> x]
           E == WithPage(e, tab, p, x)
           G == Put(g, p, x)
<1>1. s \notin DOMAIN e
  BY Zenon DEF Tables, Leaves
<1>2. E = Put(e, s, r)
  BY Zenon DEF WithPage
<1>3. DOMAIN G = DOMAIN g \cup {p} /\ G[p] = x /\ \A q \in DOMAIN g : q # p => G[q] = g[q]
  BY Zenon DEF Put
<1> HIDE DEF E, s, r, G
<1>4. /\ DOMAIN E = DOMAIN e \cup {s} /\ E[s] = r
      /\ \A y \in DOMAIN e : y # s => E[y] = e[y]
  BY <1>2, Zenon DEF Put
<1>5. ASSUME NEW q \in Areas, NEW i \in 1..4, <<tab[q][i], q[i]>> = s PROVE i = 4 /\ q = p
  <2>1. Apart(tab) /\ 4 \in 1..4 /\ <<tab[q][i], q[i]>> = <<tab[p][4], p[4]>>
    BY <1>5 DEF Tables, s
  <2>2. i = 4 /\ Agree(p, q, 4)
    BY <2>1, OwnEntry
  <2> QED
    BY <2>2, AreaPages, Zenon
<1>6. Linked(tab, E)
  <2> SUFFICES ASSUME NEW q \in Areas
               PROVE  /\ tab[q][1] = CR3
                      /\ \A i \in 1..3 :
                           LET y == <<tab[q][i], q[i]>>
                           IN IF tab[q][i] # -1 /\ y \in DOMAIN E
                                THEN tab[q][i + 1] # -1 /\ E[y] = [kind |-> "table", frame |-> tab[q][i + 1]]
                                ELSE tab[q][i + 1] = -1
    BY Zenon DEF Linked
  <2>1. tab[q][1] = CR3
    BY Zenon DEF Tables, Linked
  <2>2. ASSUME NEW i \in 1..3
        PROVE  LET y == <<tab[q][i], q[i]>>
               IN IF tab[q][i] # -1 /\ y \in DOMAIN E
                    THEN tab[q][i + 1] # -1 /\ E[y] = [kind |-> "table", frame |-> tab[q][i + 1]]
                    ELSE tab[q][i + 1] = -1
    <3> DEFINE y == <<tab[q][i], q[i]>>
    <3>1. i \in 1..4 /\ i # 4
      OBVIOUS
    <3>2. y # s
      BY <1>5, <3>1, Zenon
    <3>3. (y \in DOMAIN E <=> y \in DOMAIN e) /\ (y \in DOMAIN e => E[y] = e[y])
      BY <1>4, <3>2, Zenon
    <3>4. IF tab[q][i] # -1 /\ y \in DOMAIN e
            THEN tab[q][i + 1] # -1 /\ e[y] = [kind |-> "table", frame |-> tab[q][i + 1]]
            ELSE tab[q][i + 1] = -1
      BY Zenon DEF Tables, Linked
    <3> QED
      BY <3>3, <3>4, Zenon
  <2> QED
    BY <2>1, <2>2, Zenon
<1>7. Leaves(tab, E, G)
  <2> SUFFICES ASSUME NEW q \in Areas
               PROVE  LET y == <<tab[q][4], q[4]>>
                      IN IF tab[q][4] # -1 /\ y \in DOMAIN E
                           THEN q \in DOMAIN G /\ E[y] = [kind |-> "page", frame |-> G[q]]
                           ELSE q \notin DOMAIN G
    BY Zenon DEF Leaves
  <2> DEFINE y == <<tab[q][4], q[4]>>
  <2>1. CASE q = p
    BY <1>3, <1>4, <2>1, Zenon DEF s, r
  <2>2. CASE q # p
    <3>1. y # s
      BY <1>5, <2>2
    <3>2. (y \in DOMAIN E <=> y \in DOMAIN e) /\ (y \in DOMAIN e => E[y] = e[y])
      BY <1>4, <3>1, Zenon
    <3>3. (q \in DOMAIN G <=> q \in DOMAIN g) /\ (q \in DOMAIN g => G[q] = g[q])
      BY <1>3, <2>2, Zenon
    <3>4. IF tab[q][4] # -1 /\ y \in DOMAIN e
            THEN q \in DOMAIN g /\ e[y] = [kind |-> "page", frame |-> g[q]]
            ELSE q \notin DOMAIN g
      BY Zenon DEF Tables, Leaves
    <3> QED
      BY <3>2, <3>3, <3>4, Zenon
  <2> QED
    BY <2>1, <2>2, Zenon
<1>8. Kept(E)
  BY <1>1, <1>4, Zenon DEF Tables, Kept
<1>9. Unused(tab, E, f, n)
  <2> SUFFICES ASSUME NEW i \in n + 1..Len(f)
               PROVE  /\ \A y \in DOMAIN E : y[1] # f[i]
                      /\ \A q \in Areas : \A k \in 1..4 : tab[q][k] # f[i]
    BY Zenon DEF Unused
  <2>1. (\A y \in DOMAIN e : y[1] # f[i]) /\ (\A q \in Areas : \A k \in 1..4 : tab[q][k] # f[i])
    BY Zenon DEF Unused
  <2>2. s[1] # f[i]
    BY <2>1 DEF s
  <2> QED
    BY <1>4, <2>1, <2>2, Zenon
<1> QED
  <2>1. Tables(tab, E, G)
    BY <1>6, <1>7, <1>8, Zenon DEF Tables
  <2> QED
    BY <1>9, <2>1, Zenon DEF E, G
=============================================================================
