------------------------------- MODULE MCBoot -------------------------------
(* Memory maps for Boot: a ragged low region, then above MIN two usable      *)
(* regions with a reserved one between them, each possibly empty.            *)
EXTENDS Boot

Region(kind, start, end) == [kind |-> kind, start |-> start, end |-> end]

Map(low, a, gap, b) ==
  <<Region("Usable", 0, low), Region("Bootloader", 7, 8),
    Region("Usable", 8, 8 + 2 * a), Region("UnknownBios", 8 + 2 * a, 8 + 2 * (a + gap)),
    Region("Usable", 8 + 2 * (a + gap), 8 + 2 * (a + gap + b))>>

\* A usable region that begins below MIN and ends above it.
Straddling(a) == <<Region("Bootloader", 0, 5), Region("Usable", 5, 8 + 2 * a)>>

MCRegions == {Map(7, a, gap, b) : a \in 0 .. 10, gap \in {0, 2}, b \in {0, 3, 9}}
             \cup {Straddling(a) : a \in 0 .. 20}

\* The bootloader's tables: the level 4 table in frame 0, and the mapping of
\* all physical memory, first with a 1 GiB page, then with 2 MiB pages.
MCBootEntries ==
  LET link == {<<<<0, 3>>, "table", 1>>, <<<<1, 0>>, "huge", 0>>, <<<<1, 1>>, "table", 2>>}
              \cup {<<<<2, i>>, "huge", (ENTRIES + i) * ENTRIES>> : i \in Index}
  IN [s \in {l[1] : l \in link} |->
        LET l == CHOOSE l \in link : l[1] = s IN [kind |-> l[2], frame |-> l[3]]]
=============================================================================
