------------------------------- MODULE PagePool -------------------------------
(***************************************************************************)
(* The page allocator of hypervisor/paging.c.  A pool is a run of pages    *)
(* with a bitmap; the bitmap is kept in words of BITS_PER_LONG bits and is *)
(* searched word by word.                                                  *)
(*                                                                         *)
(* A pool is a record: its number of pages, the pages whose bit is set and *)
(* the counter used_pages, which the code maintains separately.            *)
(***************************************************************************)
EXTENDS Integers, FiniteSets, FiniteSetsExt

CONSTANT BITS_PER_LONG   \* bits of a bitmap word

ASSUME BitsAssumption == BITS_PER_LONG \in Nat \ {0}

\* "No page": INVALID_PAGE_NR of the search, NULL of page_alloc.
INVALID_PAGE_NR == -1

\* Mutant: the last, partial word of the bitmap is searched too, and its bits
\* behind the end of the pool are taken for pages.
FindBeyondEnd(pool, start) ==
    LET free == {p \in start .. (((pool.pages \div BITS_PER_LONG) + 1)
                                     * BITS_PER_LONG) - 1 : p \notin pool.used}
    IN  IF start >= pool.pages \/ free = {} THEN INVALID_PAGE_NR ELSE Min(free)

\* The first free page at or behind start.  The loop visits whole words only:
\* the pages of a partial last word are never found.
find_next_free_page(pool, start) ==
    LET free == {p \in start .. ((pool.pages \div BITS_PER_LONG)
                                     * BITS_PER_LONG) - 1 : p \notin pool.used}
    IN  IF start >= pool.pages \/ free = {} THEN INVALID_PAGE_NR ELSE Min(free)

\* The search of page_alloc for num pages in a row, given the first free page:
\* grow the run that begins at start as long as the next free page is adjacent,
\* else begin a new run there.  No pages at all are found at the first free page,
\* or not found if there is none.
FindRun(pool, num, first) ==
    LET grow[start \in 0 .. pool.pages, last \in 0 .. pool.pages] ==
            LET next == find_next_free_page(pool, last + 1)
            IN  IF last - start + 1 >= num THEN start
                ELSE IF next = INVALID_PAGE_NR THEN INVALID_PAGE_NR
                ELSE grow[IF next = last + 1 THEN start ELSE next, next]
    IN  IF first = INVALID_PAGE_NR THEN INVALID_PAGE_NR ELSE grow[first, first]

\* Marking the pages of the run that was found.
TakeRun(pool, num, start) ==
    IF start = INVALID_PAGE_NR THEN [page |-> INVALID_PAGE_NR, pool |-> pool]
    ELSE [page |-> start,
          pool |-> [pool EXCEPT !.used = @ \cup (start .. start + num - 1),
                                !.used_pages = @ + num]]

\* page_alloc: the first page of the run (or INVALID_PAGE_NR) and the pool after it.
page_alloc(pool, num) ==
    TakeRun(pool, num, FindRun(pool, num, find_next_free_page(pool, 0)))

\* page_free: clear the bits one by one; freeing NULL does nothing.
page_free(pool, page, num) ==
    IF page = INVALID_PAGE_NR THEN pool
    ELSE [pool EXCEPT !.used = @ \ (page .. page + num - 1),
                      !.used_pages = @ - num]

(***************************************************************************)
(* What the allocator promises: the lowest run of free pages in the words  *)
(* that lie completely inside the pool, and failure only if there is none. *)
(***************************************************************************)
FreeRuns(pool, num) ==
    {s \in 0 .. ((pool.pages \div BITS_PER_LONG) * BITS_PER_LONG) - num :
        (s .. s + num - 1) \cap pool.used = {}}

FirstFit(pool, num) ==
    page_alloc(pool, num).page =
        IF FreeRuns(pool, num) = {} THEN INVALID_PAGE_NR ELSE Min(FreeRuns(pool, num))
===============================================================================
