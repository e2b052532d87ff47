------------------------------- MODULE Memory -------------------------------
(***************************************************************************)
(* Physical frames and page tables: the pure part of kernel/src/memory.rs. *)
(*                                                                         *)
(* Frames are numbered by address \div PAGE_SIZE.  The page tables are one *)
(* function, entry, from <<frame of the table, index>> to what a used      *)
(* entry holds: a table, a page, or a huge page.                           *)
(***************************************************************************)
EXTENDS Integers, Sequences

CONSTANTS
  PAGE_SIZE,                  \* Size4KiB::SIZE
  ENTRIES,                    \* entries of a page table
  MIN_ALLOCATABLE_PHYS_ADDR,
  CR3,                        \* the frame of the active level 4 table
  Regions,                    \* the memory maps the bootloader may hand over
  BootEntries,                \* the page table entries it has set up
  HEAP_PAGES                  \* pages of the heap

ASSUME MemoryAssumption ==
  /\ PAGE_SIZE \in Nat \ {0} /\ ENTRIES \in Nat \ {0} /\ CR3 \in Nat
  /\ HEAP_PAGES \in Nat \ {0}
  /\ MIN_ALLOCATABLE_PHYS_ADDR \in Nat /\ MIN_ALLOCATABLE_PHYS_ADDR % PAGE_SIZE = 0

\* The memory map is cut at page boundaries above the first megabyte, its
\* regions are in order and disjoint.
ASSUME RegionsAssumption ==
  \A rs \in Regions :
    /\ rs \in Seq([kind : STRING, start : Nat, end : Nat])
    /\ \A i \in DOMAIN rs : \A x \in {rs[i].start, rs[i].end} :
         x >= MIN_ALLOCATABLE_PHYS_ADDR => x % PAGE_SIZE = 0
    /\ \A i, j \in DOMAIN rs : i < j => rs[i].end <= rs[j].start

Unmapped == [kind |-> "unmapped"]
Index    == 0 .. ENTRIES - 1

\* A virtual address: its table indices, the offset in the page, and whether the
\* bits above the indices are canonical.
Page(p4, p3, p2, p1)    == <<p4, p3, p2, p1>>
Address(page, off, can) == [page |-> page, offset |-> off, canonical |-> can]

-----------------------------------------------------------------------------
(* Frames. *)

usable(r) == r.kind = "Usable"

saturating_sub(a, b) == IF a > b THEN a - b ELSE 0

\* summarize_memory; the saturating sums never reach 2^64 bytes.
summarize_memory(regions) ==
  LET Size(r) == IF usable(r) THEN saturating_sub(r.end, r.start) ELSE 0
      bytes[n \in 0 .. Len(regions)] == IF n = 0 THEN 0 ELSE bytes[n - 1] + Size(regions[n])
      usable_bytes == bytes[Len(regions)]
  IN [usable_bytes |-> usable_bytes, usable_frames_4k |-> usable_bytes \div PAGE_SIZE]

\* region.start.max(MIN_ALLOCATABLE_PHYS_ADDR).
Start(r) == IF r.start > MIN_ALLOCATABLE_PHYS_ADDR THEN r.start ELSE MIN_ALLOCATABLE_PHYS_ADDR

\* The range of a usable region, if any is left, stepped by a page.
Span(r, steps) ==
  IF usable(r) /\ Start(r) < r.end
    THEN [k \in 1 .. steps |-> (Start(r) + (k - 1) * PAGE_SIZE) \div PAGE_SIZE]
    ELSE <<>>

\* Mutants (here and below, named after what they get wrong).
usable_frames_OnePast(regions) ==
  LET Steps(r) == (r.end - Start(r)) \div PAGE_SIZE + 1
      flat[n \in 0 .. Len(regions)] ==
        IF n = 0 THEN <<>> ELSE flat[n - 1] \o Span(regions[n], Steps(regions[n]))
  IN flat[Len(regions)]

usable_frames(regions) ==
  LET Steps(r) == (r.end - Start(r) + PAGE_SIZE - 1) \div PAGE_SIZE
      flat[n \in 0 .. Len(regions)] ==
        IF n = 0 THEN <<>> ELSE flat[n - 1] \o Span(regions[n], Steps(regions[n]))
  IN flat[Len(regions)]

remaining_usable_frames_estimate(next, frames) == saturating_sub(Len(frames), next)

-----------------------------------------------------------------------------
(* Page tables. *)

Present(entry, table, index) == <<table, index>> \in DOMAIN entry

\* f with v at x.
Put(f, x, v) == [y \in DOMAIN f \cup {x} |-> IF y = x THEN v ELSE f[y]]

\* The frame is cleared, to be a table with no used entry.
Zeroed(entry, frame) == [s \in {t \in DOMAIN entry : t[1] # frame} |-> entry[s]]

\* walk_virtual_address: the physical address and the size of the page.
walk_virtual_address_Offset4k(entry, a) ==
  LET e4 == entry[<<CR3, a.page[1]>>]
      e3 == entry[<<e4.frame, a.page[2]>>]
      e2 == entry[<<e3.frame, a.page[3]>>]
      e1 == entry[<<e2.frame, a.page[4]>>]
      To(e, inside, size) == [kind |-> size, phys |-> e.frame * PAGE_SIZE + inside]
  IN IF ~ a.canonical \/ ~ Present(entry, CR3, a.page[1]) THEN Unmapped
     ELSE IF ~ Present(entry, e4.frame, a.page[2]) THEN Unmapped
     ELSE IF e3.kind = "huge" THEN To(e3, a.offset, "1GiB")
     ELSE IF ~ Present(entry, e3.frame, a.page[3]) THEN Unmapped
     ELSE IF e2.kind = "huge" THEN To(e2, a.offset, "2MiB")
     ELSE IF ~ Present(entry, e2.frame, a.page[4]) THEN Unmapped
     ELSE To(e1, a.offset, "4KiB")

walk_virtual_address(entry, a) ==
  LET e4 == entry[<<CR3, a.page[1]>>]
      e3 == entry[<<e4.frame, a.page[2]>>]
      e2 == entry[<<e3.frame, a.page[3]>>]
      e1 == entry[<<e2.frame, a.page[4]>>]
      page_offset_2m == a.page[4] * PAGE_SIZE + a.offset
      page_offset_1g == a.page[3] * ENTRIES * PAGE_SIZE + page_offset_2m
      To(e, inside, size) == [kind |-> size, phys |-> e.frame * PAGE_SIZE + inside]
  IN IF ~ a.canonical \/ ~ Present(entry, CR3, a.page[1]) THEN Unmapped
     ELSE IF ~ Present(entry, e4.frame, a.page[2]) THEN Unmapped
     ELSE IF e3.kind = "huge" THEN To(e3, page_offset_1g, "1GiB")
     ELSE IF ~ Present(entry, e3.frame, a.page[3]) THEN Unmapped
     ELSE IF e2.kind = "huge" THEN To(e2, page_offset_2m, "2MiB")
     ELSE IF ~ Present(entry, e2.frame, a.page[4]) THEN Unmapped
     ELSE To(e1, a.offset, "4KiB")

\* mapper.translate_addr(page start).is_some().
Mapped(entry, page) == walk_virtual_address(entry, Address(page, 0, TRUE)) # Unmapped

-----------------------------------------------------------------------------
(* The pages the kernel maps. *)

DEMO_PAGE_START == Page(1, 1, 1, 1)
HEAP_PAGE       == [i \in 1 .. HEAP_PAGES |-> Page(0, 0, 0, i - 1)]
USER_CODE_START == Page(2, 0, 0, 0)
USER_PAGE       == <<USER_CODE_START, Page(2, 0, 0, 2), Page(2, 0, 0, 3)>>

\* The pages map_demo_page, init_heap and init_memory map, in order.
Pages == [demo |-> <<DEMO_PAGE_START>>, heap |-> HEAP_PAGE, user |-> USER_PAGE]
Areas == UNION {{Pages[c][i] : i \in DOMAIN Pages[c]} : c \in DOMAIN Pages}

\* The bootloader leaves the level 4 entries of the three areas alone, and keeps
\* its own tables out of the memory it reports as usable.
BootTables == {CR3} \cup {s[1] : s \in DOMAIN BootEntries}

ASSUME BootEntriesAssumption ==
  /\ \A p \in Areas : <<CR3, p[1]>> \notin DOMAIN BootEntries
  /\ \A rs \in Regions : \A i \in DOMAIN usable_frames(rs) :
       usable_frames(rs)[i] \notin BootTables

\* It has mapped all physical memory: here one 1 GiB page, then 2 MiB pages.
ASSUME PhysicalMemoryAssumption ==
  \E t3, t2 \in BootTables :
    LET Holds(t, i, kind, frame) ==
          <<t, i>> \in DOMAIN BootEntries /\ BootEntries[<<t, i>>] = [kind |-> kind, frame |-> frame]
    IN /\ Holds(CR3, 3, "table", t3)
       /\ Holds(t3, 0, "huge", 0)
       /\ Holds(t3, 1, "table", t2)
       /\ \A i \in Index : Holds(t2, i, "huge", (ENTRIES + i) * ENTRIES)
=============================================================================
