------------------------------ MODULE PageTables ------------------------------
(***************************************************************************)
(* Page tables as hypervisor/paging.c builds them, in pages taken from the *)
(* page pool.  Addresses count pages.  A paging structure is a root table  *)
(* and the level it is for; level 1 is the top, Sizes[l] is the page_size  *)
(* of level l (0: no terminal entries) and every table has Fan entries.    *)
(*                                                                         *)
(* The functions of the code work on memory.  Here they take and return a  *)
(* record m of the pool, of the contents of the pool's pages as tables     *)
(* (tab) and of the error (0 or -12, ENOMEM).  A write goes to the page it *)
(* goes to in the code, whether or not that page is still allocated.       *)
(***************************************************************************)
EXTENDS PagePool, Sequences

CONSTANTS Sizes,   \* page_size of each level of struct paging[], top first
          Fan      \* entries of a table

ENOMEM == 12
Levels == Len(Sizes)

\* Address range covered by one entry of level l.
Span(l) == Fan ^ (Levels - l)
Space == Fan * Span(1)

\* A terminal entry maps what the entry covers, and below a level with terminal
\* entries there are only such levels; the last one has pages of size 1.
ASSUME SizesAssumption ==
    /\ \A l \in 1 .. Levels : Sizes[l] \in {0, Span(l)}
    /\ \A l \in 1 .. Levels - 1 : Sizes[l] > 0 => Sizes[l + 1] > 0
    /\ Sizes[Levels] = 1

\* An entry: access flags, hugepage (terminal) bit, physical address.  Flags
\* "np" are PAGE_NONPRESENT_FLAGS; a cleared entry is all zero.
ZeroEntry == [fl |-> "np", leaf |-> FALSE, addr |-> 0]
ZeroPage == [i \in 0 .. Fan - 1 |-> ZeroEntry]

get_entry(l, virt) == (virt \div Span(l)) % Fan
entry_valid(e) == e.fl # "np"
INVALID_PHYS_ADDR == -1

\* get_phys: the address if the entry is terminal; levels without page size
\* have page_map_get_phys_invalid.
get_phys(l, e, virt) ==
    IF Sizes[l] = 0 \/ ~e.leaf THEN INVALID_PHYS_ADDR ELSE e.addr + (virt % Sizes[l])

set_terminal(phys, flags) == [fl |-> flags, leaf |-> TRUE, addr |-> phys]
set_next_pt(page) == [fl |-> "rw", leaf |-> FALSE, addr |-> page]
page_table_empty(m, t) == \A i \in 0 .. Fan - 1 : ~entry_valid(m.tab[t][i])

SetEntry(m, l, t, virt, e) == [m EXCEPT !.tab[t][get_entry(l, virt)] = e]
EntryAt(m, l, t, virt) == m.tab[t][get_entry(l, virt)]

\* Take one page for a table; pages of the pool were scrubbed when freed.
AllocTable(m) ==
    LET result(a) == [page |-> a.page,
                      m |-> [m EXCEPT !.pool = a.pool,
                                      !.err = IF a.page = INVALID_PAGE_NR
                                              THEN -ENOMEM ELSE 0]]
    IN  result(page_alloc(m.pool, 1))

\* Take a page and link it as a table.
LinkTable(m, l, t, virt) ==
    LET link(a) == IF a.page = INVALID_PAGE_NR THEN a.m
                   ELSE SetEntry(a.m, l, t, virt, set_next_pt(a.page))
    IN  link(AllocTable(m))

\* Mutant: pages go back to the pool with their contents.
FreeNoScrub(m, page, num) == [m EXCEPT !.pool = page_free(m.pool, page, num)]

\* page_free of mem_pool, which has PAGE_SCRUB_ON_FREE.
FreePages(m, page, num) ==
    [m EXCEPT !.pool = page_free(m.pool, page, num),
              !.tab = [p \in DOMAIN m.tab |-> IF p \in page .. page + num - 1
                                              THEN ZeroPage ELSE m.tab[p]]]
FreeTable(m, t) == FreePages(m, t, 1)

\* page_map_virt2phys: walk down to a terminal entry.  The result also has the
\* flags of that entry, for the properties.
RECURSIVE Walk(_, _, _, _)
Walk(m, t, l, virt) ==
    LET e == EntryAt(m, l, t, virt)
        phys == get_phys(l, e, virt)
    IN  IF ~entry_valid(e) THEN [phys |-> INVALID_PHYS_ADDR, fl |-> "np"]
        ELSE IF phys # INVALID_PHYS_ADDR THEN [phys |-> phys, fl |-> e.fl]
        ELSE Walk(m, e.addr, l + 1, virt)

page_map_virt2phys(m, root, virt) == Walk(m, root, 1, virt)

\* split_hugepage, given the access flags of the hugepage: link a new table
\* first, then fill it with the translations of the hugepage.  An entry that
\* is no hugepage is left alone.  The page_map_create that fills the table
\* works on an empty one and along the boundaries of its entries: it sets each
\* of them, has nothing to release and takes no page.
SplitInto(m, l, t, virt, flags) ==
    LET e == EntryAt(m, l, t, virt)
        sub == [i \in 0 .. Fan - 1 |-> set_terminal(e.addr + i * Sizes[l + 1], flags)]
        fill(mm) == IF mm.err # 0 THEN mm
                    ELSE [mm EXCEPT !.tab[EntryAt(mm, l, t, virt).addr] = sub]
    IN  IF get_phys(l, e, virt) = INVALID_PHYS_ADDR THEN [m EXCEPT !.err = 0]
        ELSE fill(LinkTable(m, l, t, virt))

\* Mutant: the pages of the hugepage get the default flags.
SplitDropFlags(m, l, t, virt) == SplitInto(m, l, t, virt, "rw")

split_hugepage(m, l, t, virt) == SplitInto(m, l, t, virt, EntryAt(m, l, t, virt).fl)

-------------------------------------------------------------------------------
(* page_map_destroy *)

RECURSIVE DestroyDown(_, _, _, _, _), DestroyUp(_, _, _, _), page_map_destroy(_, _, _, _, _)

\* Mutant: a hugepage is split even if it is to be cleared as a whole.
SplitAny(m, l, t, virt, size) ==
    IF l < Levels /\ entry_valid(EntryAt(m, l, t, virt))
    THEN split_hugepage(m, l, t, virt) ELSE [m EXCEPT !.err = 0]

\* A terminal entry that is larger than what is left is split.
SplitLarger(m, l, t, virt, size) ==
    IF Sizes[l] > size /\ entry_valid(EntryAt(m, l, t, virt))
    THEN split_hugepage(m, l, t, virt) ELSE [m EXCEPT !.err = 0]

\* Walking down in page_map_destroy: stop at an invalid or terminal entry, or
\* with the error of splitting one.  pts are the tables on the way.
DestroyDown(m, pts, l, virt, size) ==
    LET t == pts[Len(pts)]
        go(mm, e) ==
            IF mm.err # 0 \/ ~entry_valid(e) \/ get_phys(l, e, virt) # INVALID_PHYS_ADDR
            THEN [m |-> mm, pts |-> pts, level |-> l]
            ELSE DestroyDown(mm, Append(pts, e.addr), l + 1, virt, size)
        visit(mm) == go(mm, EntryAt(mm, l, t, virt))
    IN  visit(SplitLarger(m, l, t, virt, size))

\* Mutant: empty tables stay linked and allocated.
DestroyUpKeep(m, pts, l, virt) == SetEntry(m, l, pts[Len(pts)], virt, ZeroEntry)

\* Walking up again: clear the entry; a table that became empty is released
\* and its own entry is cleared in turn, but never the root table.
DestroyUp(m, pts, l, virt) ==
    LET t == pts[Len(pts)]
        up(cleared) ==
            IF Len(pts) = 1 \/ ~page_table_empty(cleared, t) THEN cleared
            ELSE DestroyUp(FreeTable(cleared, t), SubSeq(pts, 1, Len(pts) - 1), l - 1, virt)
    IN  up(SetEntry(m, l, t, virt, ZeroEntry))

\* What one round advances by.
RoundSize(l) == IF Sizes[l] > 0 THEN Sizes[l] ELSE 1

page_map_destroy(m, root, top, virt, size) ==
    LET next(done, step) ==
            IF step > size THEN done
            ELSE page_map_destroy(done, root, top, virt + step, size - step)
        round(d) == IF d.m.err # 0 THEN d.m
                    ELSE next(DestroyUp(d.m, d.pts, d.level, virt), RoundSize(d.level))
    IN  IF size = 0 THEN [m EXCEPT !.err = 0]
        ELSE round(DestroyDown(m, <<root>>, top, virt, size))

-------------------------------------------------------------------------------
(* page_map_create *)

RECURSIVE CreatePage(_, _, _, _, _, _, _, _, _), page_map_create(_, _, _, _, _, _, _)

Fits(l, phys, size, virt) ==
    Sizes[l] > 0 /\ Sizes[l] <= size /\ phys % Sizes[l] = 0 /\ virt % Sizes[l] = 0

\* Setting a terminal entry, after releasing what was mapped there finer - from
\* the root of the structure.
SetPage(m, root, top, t, l, phys, virt, flags) ==
    [SetEntry(IF Sizes[l] > 1 THEN page_map_destroy(m, root, top, virt, Sizes[l]) ELSE m,
              l, t, virt, set_terminal(phys, flags)) EXCEPT !.err = 0]

\* The inner loop of page_map_create, at table t of level l: set a terminal
\* entry of the largest size that fits or go down, splitting a hugepage or
\* adding a table.  size in the result is the size of the entry.
CreatePage(m, root, top, t, l, phys, size, virt, flags) ==
    LET below(mm) ==
            IF mm.err # 0 THEN [m |-> mm, size |-> 0]
            ELSE CreatePage(mm, root, top, EntryAt(mm, l, t, virt).addr, l + 1,
                            phys, size, virt, flags)
    IN  IF Fits(l, phys, size, virt)
        THEN [m |-> SetPage(m, root, top, t, l, phys, virt, flags), size |-> Sizes[l]]
        ELSE below(IF entry_valid(EntryAt(m, l, t, virt))
                   THEN split_hugepage(m, l, t, virt) ELSE LinkTable(m, l, t, virt))

page_map_create(m, root, top, phys, size, virt, flags) ==
    LET next(c) == IF c.m.err # 0 THEN c.m
                   ELSE page_map_create(c.m, root, top, phys + c.size, size - c.size,
                                        virt + c.size, flags)
    IN  IF size = 0 THEN [m EXCEPT !.err = 0]
        ELSE next(CreatePage(m, root, top, root, top, phys, size, virt, flags))

-------------------------------------------------------------------------------
\* The pages of the tables below table t of level l, t included.
RECURSIVE TablePages(_, _, _)
TablePages(m, t, l) ==
    {t} \cup UNION {TablePages(m, m.tab[t][i].addr, l + 1) :
                      i \in {i \in 0 .. Fan - 1 : /\ l < Levels
                                                  /\ entry_valid(m.tab[t][i])
                                                  /\ ~m.tab[t][i].leaf}}
===============================================================================
