------------------------------ MODULE PagePool ------------------------------
(***************************************************************************)
(* The page allocator (kernel/core/mm/page_pool.c) and the calls around it *)
(* (page.c, region.c): an array of blocks of free pages, sorted by address *)
(* and coalesced.  Every call holds SPIN_PAGE from its first to its last   *)
(* access, so a call is an operator from a pool to a pool.                 *)
(*                                                                         *)
(* A pool is [blocks, total]: free_blocks[] and free_page_total.  An       *)
(* allocation is [page, pool], with NoPage when there is none.             *)
(***************************************************************************)
EXTENDS Integers, Sequences, SequencesExt, FiniteSetsExt

CONSTANTS PageCount,   \* page_count: the pages are 1..PageCount
          BlocksMax    \* FREE_BLOCKS_MAX

ASSUME PoolAssumption == /\ PageCount \in Nat \ {0}
                         /\ BlocksMax \in Nat \ {0}

\* FREE_BLOCKS_MAX is PAGE_COUNT_MAX, and mm_init keeps page_count below that.
ASSUME RoomAssumption == PageCount <= BlocksMax

Page == 1..PageCount
NoPage == 0

Block(base, n) == [base |-> base, pages |-> n]
After(b) == b.base + b.pages
PagesOf(b) == b.base..(After(b) - 1)
FreePages(pool) == UNION {PagesOf(pool.blocks[i]) : i \in DOMAIN pool.blocks}

----------------------------------------------------------------------------
\* The array

\* block_find_containing and block_find_first_fit: the lowest of these.
Containing(blocks, id) == {i \in DOMAIN blocks : id \in PagesOf(blocks[i])}
Fitting(blocks, n) == {i \in DOMAIN blocks : blocks[i].pages >= n}

\* block_take_front
TakeFront(blocks, i, n) ==
  IF n >= blocks[i].pages THEN RemoveAt(blocks, i)
  ELSE [blocks EXCEPT ![i] = Block(@.base + n, @.pages - n)]

\* block_take_back_one
TakeBackOne(blocks, i) ==
  IF blocks[i].pages = 1 THEN RemoveAt(blocks, i)
  ELSE [blocks EXCEPT ![i].pages = @ - 1]

\* As block_insert_or_merge, looking to the left only.
InsertOrMerge_Left(blocks, base, n) ==
  LET i == Min({j \in DOMAIN blocks : blocks[j].base >= base} \cup {Len(blocks) + 1})
  IN  IF i > 1 /\ After(blocks[i - 1]) = base
      THEN [blocks EXCEPT ![i - 1].pages = @ + n]
      ELSE InsertAt(blocks, i, Block(base, n))

\* block_insert_or_merge; a full array stays as it is and the pages are lost.
InsertOrMerge(blocks, base, n) ==
  LET i == Min({j \in DOMAIN blocks : blocks[j].base >= base} \cup {Len(blocks) + 1})
      left == i > 1 /\ After(blocks[i - 1]) = base
      right == i <= Len(blocks) /\ base + n = blocks[i].base
  IN  CASE left /\ right ->
             RemoveAt([blocks EXCEPT ![i - 1].pages = @ + n + blocks[i].pages], i)
        [] left /\ ~right -> [blocks EXCEPT ![i - 1].pages = @ + n]
        [] ~left /\ right -> [blocks EXCEPT ![i] = Block(base, @.pages + n)]
        [] OTHER -> IF Len(blocks) >= BlocksMax THEN blocks
                    ELSE InsertAt(blocks, i, Block(base, n))

----------------------------------------------------------------------------
\* The calls

Taken(pool, page, blocks, n) ==
  [page |-> page, pool |-> [blocks |-> blocks, total |-> pool.total - n]]
Refused(pool) == [page |-> NoPage, pool |-> pool]

\* pool_take_n: one page from the end of the last block, several from the
\* start of the first block that has them (region_alloc, page_alloc).
TakeN(pool, n) ==
  LET last == Len(pool.blocks)
      fit == Min(Fitting(pool.blocks, n))
  IN  CASE n = 1 /\ last > 0 ->
             Taken(pool, After(pool.blocks[last]) - 1, TakeBackOne(pool.blocks, last), 1)
        [] n > 1 /\ Fitting(pool.blocks, n) # {} ->
             Taken(pool, pool.blocks[fit].base, TakeFront(pool.blocks, fit, n), n)
        [] OTHER -> Refused(pool)

\* pool_take_at: the block is taken out and what is left of it put back.
TakeAt(pool, id) ==
  IF Containing(pool.blocks, id) = {} THEN Refused(pool)
  ELSE LET i == Min(Containing(pool.blocks, id))
           b == pool.blocks[i]
           out == RemoveAt(pool.blocks, i)
           low == IF id > b.base THEN InsertOrMerge(out, b.base, id - b.base) ELSE out
       IN  Taken(pool, id,
                 IF id + 1 < After(b) THEN InsertOrMerge(low, id + 1, After(b) - id - 1)
                 ELSE low, 1)

\* pool_release of one page, as page_free calls it: a page outside the pool or
\* already free is left alone.
PageFree(pool, id) ==
  LET blocks == InsertOrMerge(pool.blocks, id, 1)
  IN  IF id \notin Page \/ Containing(pool.blocks, id) # {} \/ blocks = pool.blocks
      THEN pool
      ELSE [blocks |-> blocks, total |-> pool.total + 1]

----------------------------------------------------------------------------
\* The free list is sorted and coalesced, no block is empty or leaves the pool,
\* and the total is the number of pages in it ("invariants" of page_pool.h): so
\* the last block has the highest page, and a run of free pages is one block.
Canonical(pool) ==
  LET b == pool.blocks
  IN  /\ \A i \in DOMAIN b : b[i].pages > 0 /\ PagesOf(b[i]) \subseteq Page
      /\ \A i \in DOMAIN b : i > 1 => After(b[i - 1]) < b[i].base
      /\ pool.total = Cardinality(FreePages(pool))
=============================================================================
