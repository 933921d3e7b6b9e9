--------------------------- MODULE PagePoolProofs ---------------------------
(***************************************************************************)
(* What the calls of the page allocator do to the set of free pages, and   *)
(* that they keep the free list canonical, for pools of any size.          *)
(***************************************************************************)
EXTENDS PagePool, FiniteSetTheorems, SequenceTheorems, WellFoundedInduction, TLAPS

-----------------------------------------------------------------------------
(* Numbers and sequences *)

\* A set of numbers that is not empty has a least one.
LEMMA MinFact ==
  ASSUME NEW S \in SUBSET Nat, S # {}
  PROVE  Min(S) \in S /\ \A y \in S : Min(S) <= y
<1>1. PICK x \in S : \A y \in S : ~(<<y, x>> \in OpToRel(<, Nat))
  BY NatLessThanWellFounded, WFMin
<1>2. ASSUME NEW y \in S PROVE ~(y < x)
  <2>1. SUFFICES ASSUME y < x PROVE FALSE
    OBVIOUS
  <2>2. <<y, x>> \in Nat \X Nat
    OBVIOUS
  <2>3. <<y, x>>[1] = y /\ <<y, x>>[2] = x
    OBVIOUS
  <2>4. <<y, x>> \in OpToRel(<, Nat)
    BY <2>1, <2>2, <2>3, Zenon DEF OpToRel
  <2>5. QED
    BY <1>1, <2>4, Zenon
<1>3. \A y \in S : x <= y
  BY <1>2
<1>4. QED
  BY <1>3 DEF Min

\* block_remove
LEMMA RemoveFact ==
  ASSUME NEW T, NEW s \in Seq(T), NEW i \in DOMAIN s
  PROVE  /\ RemoveAt(s, i) \in Seq(T)
         /\ Len(RemoveAt(s, i)) = Len(s) - 1
         /\ \A j \in 1..(Len(s) - 1) :
              RemoveAt(s, i)[j] = IF j < i THEN s[j] ELSE s[j + 1]
<1> DEFINE a == SubSeq(s, 1, i - 1)
           b == SubSeq(s, i + 1, Len(s))
<1>0. i \in 1..Len(s) /\ Len(s) \in Nat
  OBVIOUS
<1>1. a \in Seq(T) /\ Len(a) = i - 1 /\ \A j \in 1..(i - 1) : a[j] = s[j]
  BY <1>0
<1>2. b \in Seq(T) /\ Len(b) = Len(s) - i /\ \A j \in 1..(Len(s) - i) : b[j] = s[i + j]
  BY <1>0
<1>3. RemoveAt(s, i) = a \o b
  BY DEF RemoveAt
<1> HIDE DEF a, b
<1>4. /\ a \o b \in Seq(T)
      /\ Len(a \o b) = Len(a) + Len(b)
      /\ \A j \in 1..(Len(a) + Len(b)) :
           (a \o b)[j] = IF j <= Len(a) THEN a[j] ELSE b[j - Len(a)]
  BY <1>1, <1>2, ConcatProperties
<1>5. ASSUME NEW j \in 1..(Len(s) - 1)
      PROVE  (a \o b)[j] = IF j < i THEN s[j] ELSE s[j + 1]
  <2>0. j \in Int /\ i \in Int /\ 1 <= j /\ j <= Len(s) - 1 /\ j \in 1..(Len(a) + Len(b))
    BY <1>0, <1>1, <1>2
  <2>1. CASE j < i
    <3>1. j <= Len(a) /\ j \in 1..(i - 1)
      BY <1>0, <1>1, <2>0, <2>1
    <3>2. QED
      BY <1>1, <1>4, <2>0, <2>1, <3>1
  <2>2. CASE j >= i
    <3>1. j - Len(a) \in 1..(Len(s) - i) /\ i + (j - Len(a)) = j + 1
      BY <1>0, <1>1, <2>2
    <3>2. QED
      <4>1. j \in 1..(Len(a) + Len(b)) /\ ~(j <= Len(a)) /\ ~(j < i)
        BY <1>1, <2>0, <2>2
      <4>2. (a \o b)[j] = b[j - Len(a)]
        BY <1>4, <4>1
      <4>3. b[j - Len(a)] = s[i + (j - Len(a))]
        BY <1>2, <3>1
      <4>4. QED
        BY <3>1, <4>1, <4>2, <4>3
  <2>3. j < i \/ j >= i
    BY <1>0
  <2>4. QED
    BY <2>1, <2>2, <2>3, Zenon
<1>6. Len(a) + Len(b) = Len(s) - 1
  BY <1>0, <1>1, <1>2
<1>7. QED
  BY <1>3, <1>4, <1>5, <1>6

\* A sequence with one element replaced.
LEMMA ReplaceFact ==
  ASSUME NEW T, NEW s \in Seq(T), NEW i \in DOMAIN s, NEW e \in T
  PROVE  /\ [s EXCEPT ![i] = e] \in Seq(T)
         /\ Len([s EXCEPT ![i] = e]) = Len(s)
         /\ \A j \in 1..Len(s) : [s EXCEPT ![i] = e][j] = IF j = i THEN e ELSE s[j]
  OBVIOUS

\* block_insert_at
LEMMA InsertFact ==
  ASSUME NEW T, NEW s \in Seq(T), NEW i \in 1..(Len(s) + 1), NEW e \in T
  PROVE  /\ InsertAt(s, i, e) \in Seq(T)
         /\ Len(InsertAt(s, i, e)) = Len(s) + 1
         /\ \A j \in 1..(Len(s) + 1) :
              InsertAt(s, i, e)[j] = IF j < i THEN s[j] ELSE IF j = i THEN e ELSE s[j - 1]
<1> DEFINE a == SubSeq(s, 1, i - 1)
           b == SubSeq(s, i, Len(s))
           m == a \o <<e>>
<1>0. i \in Nat /\ Len(s) \in Nat
  OBVIOUS
<1>1. a \in Seq(T) /\ Len(a) = i - 1 /\ \A j \in 1..(i - 1) : a[j] = s[j]
  BY <1>0
<1>2. /\ b \in Seq(T) /\ Len(b) = Len(s) - i + 1
      /\ \A j \in 1..(Len(s) - i + 1) : b[j] = s[i + j - 1]
  BY <1>0
<1>3. InsertAt(s, i, e) = m \o b
  BY DEF InsertAt
<1> HIDE DEF a, b
<1>4. <<e>> \in Seq(T) /\ Len(<<e>>) = 1 /\ <<e>>[1] = e
  OBVIOUS
<1>5. /\ m \in Seq(T) /\ Len(m) = Len(a) + Len(<<e>>)
      /\ \A j \in 1..(Len(a) + Len(<<e>>)) :
           m[j] = IF j <= Len(a) THEN a[j] ELSE <<e>>[j - Len(a)]
  BY <1>1, <1>4, ConcatProperties
<1>6. m \in Seq(T) /\ Len(m) = i /\ \A j \in 1..i : m[j] = IF j < i THEN s[j] ELSE e
  BY <1>0, <1>1, <1>4, <1>5
<1> HIDE DEF m
<1>7. /\ m \o b \in Seq(T) /\ Len(m \o b) = Len(m) + Len(b)
      /\ \A j \in 1..(Len(m) + Len(b)) :
           (m \o b)[j] = IF j <= Len(m) THEN m[j] ELSE b[j - Len(m)]
  BY <1>2, <1>6, ConcatProperties
<1>8. ASSUME NEW j \in 1..(Len(s) + 1)
      PROVE  (m \o b)[j] = IF j < i THEN s[j] ELSE IF j = i THEN e ELSE s[j - 1]
  <2>1. CASE j <= i
    BY <1>0, <1>2, <1>6, <1>7, <2>1
  <2>2. CASE j > i
    <3>1. j - Len(m) \in 1..(Len(s) - i + 1) /\ i + (j - Len(m)) - 1 = j - 1
      BY <1>0, <1>6, <2>2
    <3>2. QED
      BY <1>0, <1>2, <1>6, <1>7, <2>2, <3>1
  <2>3. j <= i \/ j > i
    BY <1>0
  <2>4. QED
    BY <2>1, <2>2, <2>3, Zenon
<1>9. QED
  BY <1>0, <1>2, <1>3, <1>6, <1>7, <1>8

-----------------------------------------------------------------------------
(* The free list *)

BlockType == [base : Page, pages : Nat \ {0}]

\* A block ends before any later one starts, with a page in between.
Sorted(b) ==
  /\ b \in Seq(BlockType)
  /\ \A i \in 1..Len(b) : b[i].base + b[i].pages <= PageCount + 1
  /\ \A i, j \in 1..Len(b) : i < j => b[i].base + b[i].pages < b[j].base

In(g, blk) == blk.base <= g /\ g < blk.base + blk.pages
Pages(b) == {g \in Page : \E i \in 1..Len(b) : In(g, b[i])}

\* The pages from base on, n of them.
Span(base, n) == {g \in Page : base <= g /\ g < base + n}

\* The numbers in a list of blocks.
LEMMA BlockFact ==
  ASSUME NEW b \in Seq(BlockType)
  PROVE  /\ Len(b) \in Nat /\ DOMAIN b = 1..Len(b) /\ PageCount \in Nat
         /\ \A i \in 1..Len(b) : /\ b[i] \in BlockType
                                /\ b[i].base \in Nat /\ 1 <= b[i].base
                                /\ b[i].base <= PageCount
                                /\ b[i].pages \in Nat /\ 1 <= b[i].pages
<1>1. /\ Len(b) \in Nat /\ DOMAIN b = 1..Len(b) /\ PageCount \in Nat
      /\ \A i \in 1..Len(b) : b[i] \in BlockType
  BY PoolAssumption
<1>2. \A k \in BlockType : /\ k.base \in Nat /\ 1 <= k.base /\ k.base <= PageCount
                           /\ k.pages \in Nat /\ 1 <= k.pages
  BY <1>1 DEF BlockType, Page
<1>3. QED
  BY <1>1, <1>2

\* There is never more than one block for a page.
LEMMA SortedLen ==
  ASSUME NEW b, Sorted(b)
  PROVE  Len(b) \in Nat /\ Len(b) <= PageCount
<1> DEFINE f == [i \in 1..Len(b) |-> b[i].base]
<1>1. /\ Len(b) \in Nat /\ PageCount \in Nat
      /\ \A i \in 1..Len(b) : b[i].base \in Page /\ b[i].pages \in Nat \ {0}
  BY BlockFact DEF Sorted, Page
<1>2. f \in [1..Len(b) -> Page]
  BY <1>1
<1>3. ASSUME NEW i \in 1..Len(b), NEW j \in 1..Len(b), f[i] = f[j] PROVE i = j
  <2>0. /\ b[i].base \in Nat /\ b[i].pages \in Nat /\ b[j].base \in Nat /\ b[j].pages \in Nat
        /\ i < j => b[i].base + b[i].pages < b[j].base
        /\ j < i => b[j].base + b[j].pages < b[i].base
    BY <1>1 DEF Sorted, Page
  <2>1. i < j => b[i].base < b[j].base
    BY <2>0
  <2>2. j < i => b[j].base < b[i].base
    BY <2>0
  <2>3. b[i].base \in Int /\ b[j].base \in Int /\ b[i].base = b[j].base
    BY <1>1, <1>3 DEF Page
  <2>4. QED
    BY <1>1, <2>1, <2>2, <2>3
<1>4. f \in Injection(1..Len(b), Page)
  BY <1>2, <1>3 DEF Injection, IsInjective
<1>5. IsFiniteSet(Page) /\ Cardinality(Page) = PageCount
  BY FS_Interval, PoolAssumption DEF Page
<1>6. Cardinality(1..Len(b)) = Len(b)
  <2>1. 1 \in Int /\ Len(b) \in Int
    BY <1>1
  <2>2. Cardinality(1..Len(b)) = IF 1 > Len(b) THEN 0 ELSE Len(b) - 1 + 1
    BY <2>1, FS_Interval
  <2>3. QED
    BY <1>1, <2>2
<1>7. QED
  BY <1>1, <1>4, <1>5, <1>6, FS_Injection

\* The pages of the list, as the model counts them.
LEMMA PagesFree ==
  ASSUME NEW pl, Sorted(pl.blocks)
  PROVE  FreePages(pl) = Pages(pl.blocks) /\ IsFiniteSet(FreePages(pl))
<1> DEFINE b == pl.blocks
<1>1. /\ Len(b) \in Nat /\ PageCount \in Nat /\ DOMAIN b = 1..Len(b)
      /\ \A i \in 1..Len(b) : b[i].base \in Page /\ b[i].pages \in Nat \ {0}
  BY BlockFact DEF Sorted, Page
<1>2. \A i \in 1..Len(b) : b[i].base + b[i].pages <= PageCount + 1
  BY DEF Sorted
<1>3. ASSUME NEW i \in 1..Len(b) PROVE PagesOf(b[i]) = {g \in Page : In(g, b[i])}
  <2>1. /\ b[i].base \in Nat /\ b[i].pages \in Nat /\ 1 <= b[i].base
        /\ b[i].base + b[i].pages <= PageCount + 1
    BY <1>1, <1>2 DEF Page
  <2>2. ASSUME NEW lo \in Nat, NEW n \in Nat, 1 <= lo, lo + n <= PageCount + 1
        PROVE  lo..((lo + n) - 1) = {g \in 1..PageCount : lo <= g /\ g < lo + n}
    <3>1. ASSUME NEW g \in lo..((lo + n) - 1)
          PROVE  g \in 1..PageCount /\ lo <= g /\ g < lo + n
      BY <1>1, <2>2
    <3>2. ASSUME NEW g \in 1..PageCount, lo <= g, g < lo + n
          PROVE  g \in lo..((lo + n) - 1)
      BY <1>1, <2>2, <3>2
    <3>3. QED
      BY <3>1, <3>2
  <2>3. b[i].base..((b[i].base + b[i].pages) - 1)
        = {g \in 1..PageCount : b[i].base <= g /\ g < b[i].base + b[i].pages}
    BY <2>1, <2>2
  <2>4. QED
    BY <2>3, Zenon DEF PagesOf, After, In, Page
<1> HIDE DEF b
<1>4. FreePages(pl) = Pages(b)
  BY <1>1, <1>3 DEF FreePages, Pages, b
<1>5. Pages(b) \subseteq Page /\ IsFiniteSet(Page)
  BY FS_Interval, PoolAssumption DEF Pages, Page
<1>6. QED
  BY <1>4, <1>5, FS_Subset DEF b

-----------------------------------------------------------------------------
(* The list with a block taken out, changed, or put in *)

PagesIn(blk) == {g \in Page : In(g, blk)}

\* The block stays inside the pool.
Fits(blk) == blk \in BlockType /\ blk.base + blk.pages <= PageCount + 1

\* block_remove takes the pages of one block out of the list.
LEMMA RemoveSorted ==
  ASSUME NEW b, Sorted(b), NEW i \in 1..Len(b)
  PROVE  /\ Sorted(RemoveAt(b, i))
         /\ Pages(RemoveAt(b, i)) = Pages(b) \ PagesIn(b[i])
         /\ Len(RemoveAt(b, i)) = Len(b) - 1
<1> DEFINE r == RemoveAt(b, i)
<1>0. b \in Seq(BlockType)
  BY DEF Sorted
<1>1. /\ Len(b) \in Nat /\ DOMAIN b = 1..Len(b) /\ PageCount \in Nat
      /\ \A j \in 1..Len(b) : /\ b[j].base \in Nat /\ 1 <= b[j].base
                              /\ b[j].pages \in Nat /\ 1 <= b[j].pages
  BY <1>0, BlockFact
<1>2. /\ r \in Seq(BlockType) /\ Len(r) = Len(b) - 1
      /\ \A j \in 1..(Len(b) - 1) : r[j] = IF j < i THEN b[j] ELSE b[j + 1]
  BY <1>0, <1>1, RemoveFact, Zenon
<1> HIDE DEF r
<1>3. /\ \A j \in 1..Len(b) : b[j].base + b[j].pages <= PageCount + 1
      /\ \A j, k \in 1..Len(b) : j < k => b[j].base + b[j].pages < b[k].base
  BY DEF Sorted
<1>4. Sorted(r)
  <2>1. \A j \in 1..Len(r) : r[j].base + r[j].pages <= PageCount + 1
    BY <1>1, <1>2, <1>3
  <2>2. ASSUME NEW j \in 1..Len(r), NEW k \in 1..Len(r), j < k
        PROVE  r[j].base + r[j].pages < r[k].base
    <3>1. CASE k < i
      BY <1>1, <1>2, <1>3, <2>2, <3>1
    <3>2. CASE ~(k < i) /\ j < i
      <4>1. /\ j \in 1..Len(b) /\ k + 1 \in 1..Len(b) /\ j < k + 1
            /\ r[j] = b[j] /\ r[k] = b[k + 1]
        BY <1>1, <1>2, <2>2, <3>2
      <4>2. QED
        BY <1>3, <4>1
    <3>3. CASE ~(j < i) /\ ~(k < i)
      BY <1>1, <1>2, <1>3, <2>2, <3>3
    <3>4. QED
      BY <1>1, <2>2, <3>1, <3>2, <3>3
  <2>3. QED
    BY <1>2, <2>1, <2>2 DEF Sorted
<1>5. ASSUME NEW g \in Page, NEW j \in 1..Len(r), In(g, r[j])
      PROVE  g \in Pages(b) /\ ~In(g, b[i])
  <2>1. g \in Nat
    BY DEF Page
  <2>2. CASE j < i
    <3>1. j \in 1..Len(b) /\ r[j] = b[j] /\ b[j].base + b[j].pages < b[i].base
      BY <1>1, <1>2, <1>3, <2>2
    <3>2. QED
      BY <1>1, <1>5, <2>1, <3>1 DEF Pages, In
  <2>3. CASE ~(j < i)
    <3>1. j + 1 \in 1..Len(b) /\ r[j] = b[j + 1] /\ b[i].base + b[i].pages < b[j + 1].base
      BY <1>1, <1>2, <1>3, <2>3
    <3>2. QED
      <4>1. g \in Pages(b)
        BY <1>5, <3>1 DEF Pages
      <4>2. b[j + 1].base <= g
        BY <1>5, <3>1 DEF In
      <4>3. QED
        BY <1>1, <2>1, <3>1, <4>1, <4>2 DEF In
  <2>4. QED
    BY <2>2, <2>3
<1>6. ASSUME NEW g \in Page, NEW j \in 1..Len(b), In(g, b[j]), ~In(g, b[i])
      PROVE  \E k \in 1..Len(r) : In(g, r[k])
  <2>1. j < i \/ j > i
    BY <1>1, <1>6
  <2>2. CASE j < i
    <3>1. j \in 1..Len(r) /\ r[j] = b[j]
      BY <1>1, <1>2, <2>2
    <3>2. QED
      BY <1>6, <3>1
  <2>3. CASE j > i
    <3>1. j - 1 \in 1..Len(r) /\ r[j - 1] = b[j]
      BY <1>1, <1>2, <2>3
    <3>2. QED
      BY <1>6, <3>1
  <2>4. QED
    BY <2>1, <2>2, <2>3
<1>7. Pages(r) = Pages(b) \ PagesIn(b[i])
  BY <1>5, <1>6 DEF Pages, PagesIn
<1>8. QED
  BY <1>2, <1>4, <1>7 DEF r

\* blk fits between the blocks before and after the i-th.
Between(b, i, blk) ==
  \A j \in 1..Len(b) : /\ j < i => b[j].base + b[j].pages < blk.base
                       /\ i < j => blk.base + blk.pages < b[j].base

\* A block that grows or shrinks between its neighbours.
LEMMA ReplaceSorted ==
  ASSUME NEW b, Sorted(b), NEW i \in 1..Len(b), NEW blk, Fits(blk), Between(b, i, blk)
  PROVE  /\ Sorted([b EXCEPT ![i] = blk])
         /\ Pages([b EXCEPT ![i] = blk]) = (Pages(b) \ PagesIn(b[i])) \cup PagesIn(blk)
         /\ Len([b EXCEPT ![i] = blk]) = Len(b)
<1> USE DEF Between
<1> DEFINE r == [b EXCEPT ![i] = blk]
<1>0. b \in Seq(BlockType)
  BY DEF Sorted
<1>1. /\ Len(b) \in Nat /\ DOMAIN b = 1..Len(b) /\ PageCount \in Nat
      /\ \A j \in 1..Len(b) : /\ b[j].base \in Nat /\ 1 <= b[j].base
                              /\ b[j].pages \in Nat /\ 1 <= b[j].pages
  BY <1>0, BlockFact
<1>2. /\ r \in Seq(BlockType) /\ Len(r) = Len(b)
      /\ \A j \in 1..Len(b) : r[j] = IF j = i THEN blk ELSE b[j]
  BY <1>0, <1>1 DEF Fits
<1> HIDE DEF r
<1>3. /\ \A j \in 1..Len(b) : b[j].base + b[j].pages <= PageCount + 1
      /\ \A j, k \in 1..Len(b) : j < k => b[j].base + b[j].pages < b[k].base
      /\ blk.base + blk.pages <= PageCount + 1
  BY DEF Sorted, Fits
<1>4. Sorted(r)
  <2>1. \A j \in 1..Len(r) : r[j].base + r[j].pages <= PageCount + 1
    BY <1>2, <1>3
  <2>2. ASSUME NEW j \in 1..Len(r), NEW k \in 1..Len(r), j < k
        PROVE  r[j].base + r[j].pages < r[k].base
    <3>1. CASE j = i
      BY <1>1, <1>2, <2>2, <3>1
    <3>2. CASE k = i
      BY <1>1, <1>2, <2>2, <3>2
    <3>3. CASE j # i /\ k # i
      BY <1>2, <1>3, <2>2, <3>3
    <3>4. QED
      BY <3>1, <3>2, <3>3
  <2>3. QED
    BY <1>2, <2>1, <2>2 DEF Sorted
<1>5. \A g \in Page : \A j \in 1..Len(b) : j # i /\ In(g, b[j]) => ~In(g, b[i])
  <2>1. ASSUME NEW g \in Page, NEW j \in 1..Len(b), j # i, In(g, b[j]) PROVE ~In(g, b[i])
    <3>1. g \in Nat /\ (j < i \/ i < j)
      BY <1>1, <2>1 DEF Page
    <3>2. (j < i => b[j].base + b[j].pages < b[i].base)
          /\ (i < j => b[i].base + b[i].pages < b[j].base)
      BY <1>3
    <3>3. QED
      BY <1>1, <2>1, <3>1, <3>2 DEF In
  <2>2. QED
    BY <2>1
<1>6. Pages(r) = (Pages(b) \ PagesIn(b[i])) \cup PagesIn(blk)
  BY <1>2, <1>5 DEF Pages, PagesIn
<1>7. QED
  BY <1>2, <1>4, <1>6 DEF r

\* A block put in where there is a gap on both sides.
LEMMA InsertSorted ==
  ASSUME NEW b, Sorted(b), NEW i \in 1..(Len(b) + 1), NEW blk, Fits(blk),
         \A j \in 1..Len(b) : /\ j < i => b[j].base + b[j].pages < blk.base
                              /\ i <= j => blk.base + blk.pages < b[j].base
  PROVE  /\ Sorted(InsertAt(b, i, blk))
         /\ Pages(InsertAt(b, i, blk)) = Pages(b) \cup PagesIn(blk)
         /\ Len(InsertAt(b, i, blk)) = Len(b) + 1
<1> DEFINE r == InsertAt(b, i, blk)
<1>0. b \in Seq(BlockType) /\ blk \in BlockType
  BY DEF Sorted, Fits
<1>1. /\ Len(b) \in Nat /\ DOMAIN b = 1..Len(b) /\ PageCount \in Nat
      /\ \A j \in 1..Len(b) : /\ b[j].base \in Nat /\ 1 <= b[j].base
                              /\ b[j].pages \in Nat /\ 1 <= b[j].pages
  BY <1>0, BlockFact
<1>2. /\ r \in Seq(BlockType) /\ Len(r) = Len(b) + 1
      /\ \A j \in 1..(Len(b) + 1) :
           r[j] = IF j < i THEN b[j] ELSE IF j = i THEN blk ELSE b[j - 1]
  BY <1>0, InsertFact
<1> HIDE DEF r
<1>3. /\ \A j \in 1..Len(b) : b[j].base + b[j].pages <= PageCount + 1
      /\ \A j, k \in 1..Len(b) : j < k => b[j].base + b[j].pages < b[k].base
      /\ blk.base + blk.pages <= PageCount + 1
      /\ blk.base \in Nat /\ blk.pages \in Nat
  BY <1>0 DEF Sorted, Fits, BlockType, Page
<1>4. Sorted(r)
  <2>1. ASSUME NEW j \in 1..Len(r) PROVE r[j].base + r[j].pages <= PageCount + 1
    <3>1. \/ j \in 1..Len(b) /\ r[j] = b[j]
          \/ r[j] = blk
          \/ j - 1 \in 1..Len(b) /\ r[j] = b[j - 1]
      BY <1>1, <1>2
    <3>2. QED
      BY <1>3, <3>1
  <2>2. ASSUME NEW j \in 1..Len(r), NEW k \in 1..Len(r), j < k
        PROVE  r[j].base + r[j].pages < r[k].base
    <3>0. j \in Int /\ k \in Int /\ i \in Int /\ 1 <= j /\ k <= Len(b) + 1 /\ Len(b) \in Nat
      BY <1>1, <1>2
    <3>1. CASE k < i
      <4>1. j \in 1..Len(b) /\ k \in 1..Len(b) /\ r[j] = b[j] /\ r[k] = b[k]
        BY <1>2, <2>2, <3>0, <3>1
      <4>2. QED
        BY <1>3, <2>2, <4>1
    <3>2. CASE k = i
      <4>1. j \in 1..Len(b) /\ j < i /\ r[j] = b[j] /\ r[k] = blk
        BY <1>2, <2>2, <3>0, <3>2
      <4>2. QED
        BY <4>1
    <3>3. CASE k > i /\ j < i
      <4>1. /\ j \in 1..Len(b) /\ k - 1 \in 1..Len(b) /\ j < k - 1
            /\ r[j] = b[j] /\ r[k] = b[k - 1]
        BY <1>2, <3>0, <3>3
      <4>2. QED
        BY <1>3, <4>1
    <3>4. CASE k > i /\ j = i
      <4>1. k - 1 \in 1..Len(b) /\ i <= k - 1 /\ r[j] = blk /\ r[k] = b[k - 1]
        BY <1>2, <3>0, <3>4
      <4>2. QED
        BY <4>1
    <3>5. CASE k > i /\ j > i
      <4>1. /\ j - 1 \in 1..Len(b) /\ k - 1 \in 1..Len(b) /\ j - 1 < k - 1
            /\ r[j] = b[j - 1] /\ r[k] = b[k - 1]
        BY <1>2, <2>2, <3>0, <3>5
      <4>2. QED
        BY <1>3, <4>1
    <3>6. QED
      BY <2>2, <3>0, <3>1, <3>2, <3>3, <3>4, <3>5
  <2>3. QED
    BY <1>2, <2>1, <2>2 DEF Sorted
<1>5. ASSUME NEW g \in Page, NEW j \in 1..Len(r), In(g, r[j])
      PROVE  g \in Pages(b) \cup PagesIn(blk)
  <2>1. \/ j \in 1..Len(b) /\ r[j] = b[j]
        \/ r[j] = blk
        \/ j - 1 \in 1..Len(b) /\ r[j] = b[j - 1]
    BY <1>1, <1>2
  <2>2. QED
    BY <1>5, <2>1 DEF Pages, PagesIn
<1>6. ASSUME NEW g \in Page, NEW j \in 1..Len(b), In(g, b[j])
      PROVE  \E k \in 1..Len(r) : In(g, r[k])
  <2>1. \/ j \in 1..Len(r) /\ r[j] = b[j]
        \/ j + 1 \in 1..Len(r) /\ r[j + 1] = b[j]
    BY <1>1, <1>2
  <2>2. QED
    BY <1>6, <2>1
<1>7. i \in 1..Len(r) /\ r[i] = blk
  BY <1>1, <1>2
<1>8. Pages(r) = Pages(b) \cup PagesIn(blk)
  BY <1>5, <1>6, <1>7 DEF Pages, PagesIn
<1>9. QED
  BY <1>2, <1>4, <1>8 DEF r

-----------------------------------------------------------------------------
(* The operations on the list *)

\* block_take_front takes the first pages of a block.
LEMMA TakeFrontFact ==
  ASSUME NEW b, Sorted(b), NEW i \in 1..Len(b), NEW n \in Nat \ {0}, n <= b[i].pages
  PROVE  /\ Sorted(TakeFront(b, i, n))
         /\ Pages(TakeFront(b, i, n)) = Pages(b) \ Span(b[i].base, n)
         /\ Span(b[i].base, n) \subseteq Pages(b)
<1>0. b \in Seq(BlockType)
  BY DEF Sorted
<1>1. /\ Len(b) \in Nat /\ DOMAIN b = 1..Len(b) /\ PageCount \in Nat
      /\ \A j \in 1..Len(b) : /\ b[j].base \in Nat /\ 1 <= b[j].base
                              /\ b[j].pages \in Nat /\ 1 <= b[j].pages
  BY <1>0, BlockFact
<1>2. /\ \A j \in 1..Len(b) : b[j].base + b[j].pages <= PageCount + 1
      /\ \A j, k \in 1..Len(b) : j < k => b[j].base + b[j].pages < b[k].base
  BY DEF Sorted
<1>3. Span(b[i].base, n) \subseteq PagesIn(b[i]) /\ PagesIn(b[i]) \subseteq Pages(b)
  BY <1>1 DEF Span, PagesIn, In, Pages, Page
<1>4. CASE n >= b[i].pages
  <2>1. n = b[i].pages /\ TakeFront(b, i, n) = RemoveAt(b, i)
    BY <1>1, <1>4 DEF TakeFront
  <2>2. Span(b[i].base, n) = PagesIn(b[i])
    BY <2>1 DEF Span, PagesIn, In
  <2>3. QED
    BY <1>3, <2>1, <2>2, RemoveSorted
<1>5. CASE n < b[i].pages
  <2> DEFINE k == Block(b[i].base + n, b[i].pages - n)
  <2>1. TakeFront(b, i, n) = [b EXCEPT ![i] = k]
    BY <1>1, <1>5 DEF TakeFront
  <2>2. /\ k.base = b[i].base + n /\ k.pages = b[i].pages - n
        /\ k.base \in Nat /\ k.base >= b[i].base
        /\ k.base + k.pages = b[i].base + b[i].pages
    <3>1. k.base = b[i].base + n /\ k.pages = b[i].pages - n
      BY DEF Block
    <3>2. b[i].base \in Nat /\ b[i].pages \in Nat
      BY <1>1
    <3> HIDE DEF k
    <3>3. QED
      BY <3>1, <3>2
  <2>3. Fits(k)
    <3>1. /\ b[i].base \in Nat /\ b[i].pages \in Nat /\ 1 <= b[i].base
          /\ b[i].base + b[i].pages <= PageCount + 1
      BY <1>1, <1>2
    <3>2. b[i].base + n \in Page /\ b[i].pages - n \in Nat \ {0}
      BY <1>1, <1>5, <3>1 DEF Page
    <3>3. k \in BlockType
      BY <3>2 DEF Block, BlockType
    <3> HIDE DEF k
    <3>4. QED
      BY <2>2, <3>1, <3>3 DEF Fits
  <2> HIDE DEF k
  <2>4. ASSUME NEW j \in 1..Len(b)
        PROVE  /\ j < i => b[j].base + b[j].pages < k.base
               /\ i < j => k.base + k.pages < b[j].base
    <3>1. /\ j < i => b[j].base + b[j].pages < b[i].base
          /\ i < j => b[i].base + b[i].pages < b[j].base
      BY <1>2
    <3>2. b[j].base \in Nat /\ b[j].pages \in Nat /\ b[i].base \in Nat
      BY <1>1
    <3>3. QED
      BY <2>2, <3>1, <3>2
  <2>5. /\ Sorted([b EXCEPT ![i] = k])
        /\ Pages([b EXCEPT ![i] = k]) = (Pages(b) \ PagesIn(b[i])) \cup PagesIn(k)
    <3>1. Between(b, i, k)
      BY <2>4 DEF Between
    <3>2. QED
      BY <2>3, <3>1, ReplaceSorted
  <2>6. PagesIn(k) = PagesIn(b[i]) \ Span(b[i].base, n)
    BY <1>1, <1>5, <2>2 DEF PagesIn, In, Span, Page
  <2>7. (Pages(b) \ PagesIn(b[i])) \cup PagesIn(k) = Pages(b) \ Span(b[i].base, n)
    BY <1>3, <2>6
  <2>8. QED
    BY <1>3, <2>1, <2>5, <2>7
<1>6. QED
  BY <1>1, <1>4, <1>5

\* block_take_back_one takes the last page of a block.
LEMMA TakeBackFact ==
  ASSUME NEW b, Sorted(b), NEW i \in 1..Len(b)
  PROVE  /\ Sorted(TakeBackOne(b, i))
         /\ Pages(TakeBackOne(b, i)) = Pages(b) \ {After(b[i]) - 1}
         /\ After(b[i]) - 1 \in Pages(b)
<1>0. b \in Seq(BlockType)
  BY DEF Sorted
<1>1. /\ Len(b) \in Nat /\ DOMAIN b = 1..Len(b) /\ PageCount \in Nat
      /\ \A j \in 1..Len(b) : /\ b[j].base \in Nat /\ 1 <= b[j].base
                              /\ b[j].pages \in Nat /\ 1 <= b[j].pages
                              /\ b[j] \in BlockType
  BY <1>0, BlockFact
<1>2. /\ \A j \in 1..Len(b) : b[j].base + b[j].pages <= PageCount + 1
      /\ \A j, k \in 1..Len(b) : j < k => b[j].base + b[j].pages < b[k].base
  BY DEF Sorted
<1>3. After(b[i]) - 1 \in PagesIn(b[i]) /\ PagesIn(b[i]) \subseteq Pages(b)
  BY <1>1, <1>2 DEF After, PagesIn, In, Pages, Page
<1>4. CASE b[i].pages = 1
  <2>1. TakeBackOne(b, i) = RemoveAt(b, i)
    BY <1>4 DEF TakeBackOne
  <2>2. PagesIn(b[i]) = {After(b[i]) - 1}
    BY <1>1, <1>2, <1>4 DEF PagesIn, In, After, Page
  <2>3. QED
    BY <1>3, <2>1, <2>2, RemoveSorted
<1>5. CASE b[i].pages # 1
  <2> DEFINE k == Block(b[i].base, b[i].pages - 1)
  <2>1. TakeBackOne(b, i) = [b EXCEPT ![i] = k]
    <3>1. [b[i] EXCEPT !.pages = @ - 1] = k
      BY <1>1 DEF Block, BlockType
    <3>2. QED
      BY <1>1, <1>5, <3>1 DEF TakeBackOne
  <2>2. k.base = b[i].base /\ k.pages = b[i].pages - 1
    BY DEF Block
  <2>3. Fits(k)
    BY <1>1, <1>2, <1>5 DEF Fits, BlockType, Block, Page
  <2> HIDE DEF k
  <2>4. ASSUME NEW j \in 1..Len(b)
        PROVE  /\ j < i => b[j].base + b[j].pages < k.base
               /\ i < j => k.base + k.pages < b[j].base
    <3>1. /\ j < i => b[j].base + b[j].pages < b[i].base
          /\ i < j => b[i].base + b[i].pages < b[j].base
      BY <1>2
    <3>2. b[j].base \in Nat /\ b[i].base \in Nat /\ b[i].pages \in Nat
      BY <1>1
    <3>3. QED
      BY <2>2, <3>1, <3>2
  <2>5. /\ Sorted([b EXCEPT ![i] = k])
        /\ Pages([b EXCEPT ![i] = k]) = (Pages(b) \ PagesIn(b[i])) \cup PagesIn(k)
    <3>1. Between(b, i, k)
      BY <2>4 DEF Between
    <3>2. QED
      BY <2>3, <3>1, ReplaceSorted
  <2>6. PagesIn(k) = PagesIn(b[i]) \ {After(b[i]) - 1}
    <3>1. ASSUME NEW g \in Page
          PROVE  In(g, k) <=> In(g, b[i]) /\ g # After(b[i]) - 1
      <4>1. g \in Nat /\ b[i].base \in Nat /\ b[i].pages \in Nat
        BY <1>1 DEF Page
      <4>2. k.base = b[i].base /\ k.base + k.pages = b[i].base + b[i].pages - 1
        BY <2>2, <4>1
      <4>3. ASSUME In(g, k) PROVE In(g, b[i]) /\ g # After(b[i]) - 1
        BY <4>1, <4>2, <4>3 DEF In, After
      <4>4. ASSUME In(g, b[i]), g # After(b[i]) - 1 PROVE In(g, k)
        BY <4>1, <4>2, <4>4 DEF In, After
      <4>5. QED
        BY <4>3, <4>4
    <3>2. QED
      BY <3>1 DEF PagesIn
  <2>7. (Pages(b) \ PagesIn(b[i])) \cup PagesIn(k) = Pages(b) \ {After(b[i]) - 1}
    BY <1>3, <2>6
  <2>8. QED
    BY <1>3, <2>1, <2>5, <2>7
<1>6. QED
  BY <1>4, <1>5

\* A run of pages of which none is free lies between the blocks.
LEMMA ClearFact ==
  ASSUME NEW b, Sorted(b), NEW base \in Page, NEW n \in Nat \ {0},
         base + n <= PageCount + 1, Span(base, n) \cap Pages(b) = {},
         NEW j \in 1..Len(b)
  PROVE  b[j].base + b[j].pages <= base \/ base + n <= b[j].base
<1>0. b \in Seq(BlockType)
  BY DEF Sorted
<1>1. /\ PageCount \in Nat /\ b[j].base \in Nat /\ 1 <= b[j].base /\ b[j].base <= PageCount
      /\ b[j].pages \in Nat /\ 1 <= b[j].pages /\ base \in Nat /\ 1 <= base
  BY <1>0, BlockFact DEF Page
<1>2. SUFFICES ASSUME b[j].base + b[j].pages > base, base + n > b[j].base PROVE FALSE
  BY <1>1
<1>3. CASE b[j].base <= base
  <2>1. base \in Span(base, n) /\ base \in Pages(b)
    BY <1>1, <1>2, <1>3 DEF Span, Pages, In
  <2>2. QED
    BY <2>1
<1>4. CASE b[j].base > base
  <2>1. b[j].base \in Span(base, n) /\ b[j].base \in Pages(b)
    BY <1>1, <1>2, <1>4 DEF Span, Pages, In, Page
  <2>2. QED
    BY <2>1
<1>5. QED
  BY <1>1, <1>3, <1>4

\* block_insert_or_merge finds room for every run of pages that is not free,
\* and joins it with its neighbours.
LEMMA InsertOrMergeFact ==
  ASSUME NEW b, Sorted(b), NEW base \in Page, NEW n \in Nat \ {0},
         base + n <= PageCount + 1, Span(base, n) \cap Pages(b) = {}
  PROVE  /\ Sorted(InsertOrMerge(b, base, n))
         /\ Pages(InsertOrMerge(b, base, n)) = Pages(b) \cup Span(base, n)
<1> DEFINE S == {j \in DOMAIN b : b[j].base >= base} \cup {Len(b) + 1}
           i == Min(S)
           left == i > 1 /\ After(b[i - 1]) = base
           right == i <= Len(b) /\ base + n = b[i].base
           res == InsertOrMerge(b, base, n)
<1>0. b \in Seq(BlockType)
  BY DEF Sorted
<1>1. /\ Len(b) \in Nat /\ DOMAIN b = 1..Len(b) /\ PageCount \in Nat
      /\ \A j \in 1..Len(b) : /\ b[j].base \in Nat /\ 1 <= b[j].base
                              /\ b[j].pages \in Nat /\ 1 <= b[j].pages
                              /\ b[j] \in BlockType
  BY <1>0, BlockFact
<1>2. /\ \A j \in 1..Len(b) : b[j].base + b[j].pages <= PageCount + 1
      /\ \A j, k \in 1..Len(b) : j < k => b[j].base + b[j].pages < b[k].base
  BY DEF Sorted
<1>3. base \in Nat /\ 1 <= base /\ base <= PageCount /\ n \in Nat /\ 1 <= n
  BY <1>1 DEF Page
<1>4. i \in S /\ \A y \in S : i <= y
  <2>1. S \in SUBSET Nat /\ S # {}
    BY <1>1
  <2> HIDE DEF S
  <2>2. QED
    BY <2>1, MinFact
<1>5. i \in 1..(Len(b) + 1)
  BY <1>1, <1>4
<1>6. res = CASE left /\ right ->
                   RemoveAt([b EXCEPT ![i - 1].pages = @ + n + b[i].pages], i)
              [] left /\ ~right -> [b EXCEPT ![i - 1].pages = @ + n]
              [] ~left /\ right -> [b EXCEPT ![i] = Block(base, @.pages + n)]
              [] OTHER -> IF Len(b) >= BlocksMax THEN b
                          ELSE InsertAt(b, i, Block(base, n))
  BY DEF InsertOrMerge
<1> HIDE DEF res
<1>7. /\ \A j \in 1..Len(b) : b[j].base >= base => i <= j
      /\ i \in 1..Len(b) => b[i].base >= base
  <2> HIDE DEF i
  <2>1. \A j \in 1..Len(b) : b[j].base >= base => j \in S
    BY <1>1
  <2>2. i \in 1..Len(b) => i # Len(b) + 1
    BY <1>1
  <2>3. QED
    BY <1>1, <1>4, <2>1, <2>2
<1> HIDE DEF S, i
<1>8. ASSUME NEW j \in 1..Len(b), j < i PROVE b[j].base + b[j].pages <= base
  <2>1. ~(b[j].base >= base)
    BY <1>1, <1>5, <1>7, <1>8
  <2>2. b[j].base + b[j].pages <= base \/ base + n <= b[j].base
    BY ClearFact
  <2>3. QED
    BY <1>1, <1>3, <2>1, <2>2
<1>9. ASSUME NEW j \in 1..Len(b), i <= j PROVE base + n <= b[j].base
  <2>1. b[j].base >= base
    <3>0. i \in 1..Len(b)
      BY <1>1, <1>5, <1>9
    <3>1. i \in 1..Len(b) /\ b[i].base >= base
      BY <1>7, <3>0
    <3>2. i = j \/ b[i].base + b[i].pages < b[j].base
      BY <1>2, <1>5, <1>9, <3>1
    <3>3. QED
      BY <1>1, <1>3, <3>1, <3>2
  <2>2. b[j].base + b[j].pages <= base \/ base + n <= b[j].base
    BY ClearFact
  <2>3. QED
    BY <1>1, <1>3, <2>1, <2>2
<1>10. CASE left /\ right
  <2> DEFINE m == Block(b[i - 1].base, b[i - 1].pages + n + b[i].pages)
             rem == RemoveAt(b, i)
  <2>1. /\ i \in 1..Len(b) /\ i - 1 \in 1..Len(b) /\ i - 1 \in Nat /\ i - 1 < i
        /\ b[i - 1].base + b[i - 1].pages = base /\ base + n = b[i].base
    BY <1>1, <1>5, <1>10 DEF After
  <2>2. [b EXCEPT ![i - 1].pages = @ + n + b[i].pages] = [b EXCEPT ![i - 1] = m]
    <3>1. [b[i - 1] EXCEPT !.pages = @ + n + b[i].pages] = m
      BY <1>1, <2>1 DEF Block, BlockType
    <3>2. QED
      BY <1>1, <2>1, <3>1
  <2>3. /\ m.base = b[i - 1].base /\ m.pages = b[i - 1].pages + n + b[i].pages
        /\ m \in BlockType
    BY <1>1, <1>3, <2>1, BlockFact DEF Block, BlockType
  <2> HIDE DEF m
  <2>4. m.base + m.pages = b[i].base + b[i].pages
    <3>1. /\ b[i - 1].base \in Nat /\ b[i - 1].pages \in Nat /\ b[i].base \in Nat
          /\ b[i].pages \in Nat
      BY <1>1, <2>1
    <3>2. b[i - 1].base + (b[i - 1].pages + n + b[i].pages)
          = (b[i - 1].base + b[i - 1].pages) + n + b[i].pages
      BY <1>3, <3>1
    <3>3. QED
      BY <2>1, <2>3, <3>2
  <2>5. Fits(m)
    BY <1>2, <2>1, <2>3, <2>4 DEF Fits
  <2>6. /\ Sorted(rem) /\ Pages(rem) = Pages(b) \ PagesIn(b[i]) /\ Len(rem) = Len(b) - 1
    BY <2>1, RemoveSorted
  <2>7. \A j \in 1..(Len(b) - 1) : rem[j] = IF j < i THEN b[j] ELSE b[j + 1]
    <3>1. i \in DOMAIN b
      BY <1>1, <2>1
    <3>2. QED
      BY <1>0, <3>1, RemoveFact, Zenon
  <2>8. rem \in Seq(BlockType)
    BY <2>6 DEF Sorted
  <2>9. RemoveAt([b EXCEPT ![i - 1] = m], i) = [rem EXCEPT ![i - 1] = m]
    <3> DEFINE x == [b EXCEPT ![i - 1] = m]
    <3>1. x \in Seq(BlockType) /\ Len(x) = Len(b) /\ DOMAIN x = 1..Len(b)
          /\ \A j \in 1..Len(b) : x[j] = IF j = i - 1 THEN m ELSE b[j]
      <4>1. i - 1 \in DOMAIN b
        BY <1>1, <2>1
      <4>2. x \in Seq(BlockType) /\ Len(x) = Len(b)
            /\ \A j \in 1..Len(b) : x[j] = IF j = i - 1 THEN m ELSE b[j]
        <5>1. m \in BlockType
          BY <2>3
        <5>2. QED
          BY <1>0, <4>1, <5>1, ReplaceFact
      <4> HIDE DEF x
      <4>3. QED
        BY <4>2
    <3> HIDE DEF x
    <3>2. /\ RemoveAt(x, i) \in Seq(BlockType) /\ Len(RemoveAt(x, i)) = Len(b) - 1
          /\ \A j \in 1..(Len(b) - 1) : RemoveAt(x, i)[j] = IF j < i THEN x[j] ELSE x[j + 1]
      <4>1. x \in Seq(BlockType) /\ Len(x) = Len(b) /\ i \in DOMAIN x
        BY <2>1, <3>1
      <4>2. /\ RemoveAt(x, i) \in Seq(BlockType) /\ Len(RemoveAt(x, i)) = Len(x) - 1
            /\ \A j \in 1..(Len(x) - 1) : RemoveAt(x, i)[j] = IF j < i THEN x[j] ELSE x[j + 1]
        BY <4>1, RemoveFact, Zenon
      <4>3. QED
        BY <4>1, <4>2
    <3> DEFINE y == [rem EXCEPT ![i - 1] = m]
    <3>3. /\ y \in Seq(BlockType) /\ Len(y) = Len(b) - 1
          /\ \A j \in 1..(Len(b) - 1) : y[j] = IF j = i - 1 THEN m ELSE rem[j]
      <4>1. DOMAIN rem = 1..(Len(b) - 1) /\ Len(rem) = Len(b) - 1 /\ i - 1 \in DOMAIN rem
        BY <1>1, <1>5, <2>1, <2>6, <2>8
      <4> HIDE DEF rem
      <4>2. QED
        <5>1. m \in BlockType /\ i - 1 \in DOMAIN rem
          BY <2>3, <4>1
        <5>2. /\ y \in Seq(BlockType) /\ Len(y) = Len(rem)
              /\ \A j \in 1..Len(rem) : y[j] = IF j = i - 1 THEN m ELSE rem[j]
          BY <2>8, <5>1, ReplaceFact
        <5> HIDE DEF y
        <5>3. QED
          BY <4>1, <5>2
    <3> HIDE DEF y
    <3>4. ASSUME NEW j \in 1..(Len(b) - 1) PROVE RemoveAt(x, i)[j] = y[j]
      <4>1. j \in 1..Len(b) /\ j + 1 \in 1..Len(b) /\ (~(j < i) => j + 1 # i - 1 /\ j # i - 1)
        BY <1>1, <1>5
      <4>2. QED
        BY <2>7, <3>1, <3>2, <3>3, <4>1
    <3>5. RemoveAt(x, i) = y
      BY <3>2, <3>3, <3>4, SeqEqual
    <3>6. QED
      BY <3>5 DEF x, y
  <2>10. res = [rem EXCEPT ![i - 1] = m]
    BY <1>6, <1>10, <2>2, <2>9
  <2>11. i - 1 \in 1..Len(rem) /\ rem[i - 1] = b[i - 1]
    BY <1>1, <1>5, <2>1, <2>6, <2>7
  <2> HIDE DEF rem
  <2>12. \A j \in 1..Len(rem) : /\ j < i - 1 => rem[j].base + rem[j].pages < m.base
                                /\ i - 1 < j => m.base + m.pages < rem[j].base
    <3>1. ASSUME NEW j \in 1..Len(rem), j < i - 1
          PROVE  rem[j].base + rem[j].pages < m.base
      <4>1. j \in 1..Len(b) /\ rem[j] = b[j]
        BY <1>1, <2>1, <2>6, <2>7, <3>1
      <4>2. QED
        BY <1>2, <2>1, <2>3, <3>1, <4>1
    <3>2. ASSUME NEW j \in 1..Len(rem), i - 1 < j
          PROVE  m.base + m.pages < rem[j].base
      <4>1. j + 1 \in 1..Len(b) /\ rem[j] = b[j + 1] /\ i < j + 1
        BY <1>1, <2>1, <2>6, <2>7, <3>2
      <4>2. QED
        BY <1>2, <2>1, <2>4, <4>1
    <3>3. QED
      BY <3>1, <3>2
  <2>13. /\ Sorted(res)
         /\ Pages(res) = (Pages(rem) \ PagesIn(b[i - 1])) \cup PagesIn(m)
    <3>1. /\ Sorted([rem EXCEPT ![i - 1] = m])
          /\ Pages([rem EXCEPT ![i - 1] = m]) = (Pages(rem) \ PagesIn(rem[i - 1])) \cup PagesIn(m)
      <4> DEFINE q == i - 1
      <4>1. q \in 1..Len(rem)
        BY <2>11
      <4>2. \A j \in 1..Len(rem) : /\ j < q => rem[j].base + rem[j].pages < m.base
                                   /\ q < j => m.base + m.pages < rem[j].base
        BY <2>12
      <4> HIDE DEF q
      <4>3. /\ Sorted([rem EXCEPT ![q] = m])
            /\ Pages([rem EXCEPT ![q] = m]) = (Pages(rem) \ PagesIn(rem[q])) \cup PagesIn(m)
        <5>1. Between(rem, q, m)
          BY <4>2 DEF Between
        <5>2. Sorted(rem) /\ Fits(m)
          BY <2>5, <2>6
        <5>3. QED
          BY <4>1, <5>1, <5>2, ReplaceSorted, Zenon
      <4>4. QED
        BY <4>3 DEF q
    <3>2. QED
      BY <2>10, <2>11, <3>1
  <2>14. PagesIn(m) = PagesIn(b[i - 1]) \cup Span(base, n) \cup PagesIn(b[i])
    <3>1. ASSUME NEW g \in Page
          PROVE  In(g, m) <=> In(g, b[i - 1]) \/ (base <= g /\ g < base + n) \/ In(g, b[i])
      <4>1. /\ b[i - 1].base \in Nat /\ b[i - 1].pages \in Nat /\ b[i].base \in Nat
            /\ b[i].pages \in Nat /\ g \in Nat
        BY <1>1, <2>1 DEF Page
      <4>2. /\ m.base = b[i - 1].base /\ m.base + m.pages = b[i].base + b[i].pages
            /\ b[i - 1].base + b[i - 1].pages = base /\ base + n = b[i].base
        BY <2>1, <2>3, <2>4
      <4>3. QED
        BY <1>3, <4>1, <4>2 DEF In
    <3>2. QED
      BY <3>1 DEF PagesIn, Span
  <2>15. PagesIn(b[i]) \subseteq Pages(b) /\ PagesIn(b[i - 1]) \subseteq Pages(b)
    BY <2>1 DEF PagesIn, Pages
  <2>16. QED
    BY <2>6, <2>13, <2>14, <2>15 DEF res
<1>11. CASE left /\ ~right
  <2> DEFINE m == Block(b[i - 1].base, b[i - 1].pages + n)
  <2>1. /\ i - 1 \in 1..Len(b) /\ i - 1 \in Nat /\ i - 1 < i
        /\ b[i - 1].base + b[i - 1].pages = base
    BY <1>1, <1>5, <1>11 DEF After
  <2>2. [b EXCEPT ![i - 1].pages = @ + n] = [b EXCEPT ![i - 1] = m]
    <3>1. [b[i - 1] EXCEPT !.pages = @ + n] = m
      BY <1>1, <2>1 DEF Block, BlockType
    <3>2. QED
      BY <1>1, <2>1, <3>1
  <2>3. /\ m.base = b[i - 1].base /\ m.pages = b[i - 1].pages + n
        /\ m \in BlockType
    BY <1>1, <1>3, <2>1, BlockFact DEF Block, BlockType
  <2> HIDE DEF m
  <2>4. m.base + m.pages = base + n
    BY <1>1, <1>3, <2>1, <2>3
  <2>5. Fits(m)
    BY <2>3, <2>4 DEF Fits
  <2>6. \A j \in 1..Len(b) : /\ j < i - 1 => b[j].base + b[j].pages < m.base
                             /\ i - 1 < j => m.base + m.pages < b[j].base
    <3>1. ASSUME NEW j \in 1..Len(b), i - 1 < j PROVE base + n < b[j].base
      <4>1. i <= j /\ i \in 1..Len(b)
        BY <1>1, <1>5, <3>1
      <4>2. base + n <= b[i].base /\ base + n # b[i].base
        BY <1>1, <1>5, <1>9, <1>11, <4>1
      <4>3. i = j \/ b[i].base + b[i].pages < b[j].base
        BY <1>2, <1>5, <4>1
      <4>4. b[i].base \in Nat /\ b[i].pages \in Nat /\ b[j].base \in Nat
        BY <1>1, <4>1
      <4> DEFINE y == b[i].base
                 z == b[i].pages
                 w == b[j].base
                 e == base + n
      <4>5. y \in Nat /\ z \in Nat /\ w \in Nat /\ e <= y /\ e # y /\ e \in Nat
        BY <1>3, <4>2, <4>4
      <4>6. y = w \/ y + z < w
        BY <4>3
      <4> HIDE DEF y, z, w, e
      <4>7. e < w
        BY <4>5, <4>6
      <4>8. QED
        BY <4>7 DEF e, w
    <3>2. QED
      BY <1>2, <2>1, <2>3, <2>4, <3>1
  <2>7. /\ Sorted([b EXCEPT ![i - 1] = m])
        /\ Pages([b EXCEPT ![i - 1] = m]) = (Pages(b) \ PagesIn(b[i - 1])) \cup PagesIn(m)
    <3> DEFINE q == i - 1
    <3>1. Between(b, q, m)
      BY <2>6 DEF Between
    <3>2. q \in 1..Len(b)
      BY <2>1
    <3> HIDE DEF q
    <3>3. /\ Sorted([b EXCEPT ![q] = m])
          /\ Pages([b EXCEPT ![q] = m]) = (Pages(b) \ PagesIn(b[q])) \cup PagesIn(m)
      BY <2>5, <3>1, <3>2, ReplaceSorted, Zenon
    <3>4. QED
      BY <3>3 DEF q
  <2>8. PagesIn(m) = PagesIn(b[i - 1]) \cup Span(base, n)
    <3>1. ASSUME NEW g \in Page
          PROVE  In(g, m) <=> In(g, b[i - 1]) \/ (base <= g /\ g < base + n)
      BY <1>1, <1>3, <2>1, <2>3, <2>4 DEF In, Page
    <3>2. QED
      BY <3>1 DEF PagesIn, Span
  <2>9. PagesIn(b[i - 1]) \subseteq Pages(b)
    BY <2>1 DEF PagesIn, Pages
  <2>10. res = [b EXCEPT ![i - 1] = m]
    BY <1>6, <1>11, <2>2
  <2>11. QED
    BY <2>7, <2>8, <2>9, <2>10 DEF res
<1>12. CASE ~left /\ right
  <2> DEFINE m == Block(base, b[i].pages + n)
  <2>1. i \in 1..Len(b) /\ base + n = b[i].base
    BY <1>1, <1>5, <1>12
  <2>2. /\ m.base = base /\ m.pages = b[i].pages + n /\ m \in BlockType
    BY <1>1, <1>3, <2>1 DEF Block, BlockType
  <2> HIDE DEF m
  <2>3. m.base + m.pages = b[i].base + b[i].pages
    BY <1>1, <1>3, <2>1, <2>2
  <2>4. Fits(m)
    BY <1>2, <2>1, <2>2, <2>3 DEF Fits
  <2>5. \A j \in 1..Len(b) : /\ j < i => b[j].base + b[j].pages < m.base
                             /\ i < j => m.base + m.pages < b[j].base
    <3>1. ASSUME NEW j \in 1..Len(b), j < i PROVE b[j].base + b[j].pages < base
      <4>1. i - 1 \in 1..Len(b) /\ i - 1 < i /\ i > 1 /\ i - 1 \in Nat /\ j <= i - 1
        BY <1>1, <1>5, <3>1
      <4>2. b[i - 1].base + b[i - 1].pages <= base /\ b[i - 1].base + b[i - 1].pages # base
        BY <1>8, <1>12, <4>1 DEF After
      <4>3. j = i - 1 \/ b[j].base + b[j].pages < b[i - 1].base
        BY <1>2, <4>1
      <4>4. /\ b[i - 1].base \in Nat /\ b[i - 1].pages \in Nat /\ b[j].base \in Nat
            /\ b[j].pages \in Nat
        BY <1>1, <4>1
      <4>5. CASE j = i - 1
        BY <1>3, <4>2, <4>4, <4>5
      <4>6. CASE b[j].base + b[j].pages < b[i - 1].base
        <5> DEFINE x == b[j].base + b[j].pages
                   y == b[i - 1].base
                   z == b[i - 1].pages
        <5>1. y \in Nat /\ z \in Nat /\ y + z <= base /\ x < y
          BY <4>2, <4>4, <4>6
        <5>2. x \in Nat /\ base \in Nat
          BY <1>3, <4>4
        <5> HIDE DEF x, y, z
        <5>3. x < base
          BY <5>1, <5>2
        <5>4. QED
          BY <5>3 DEF x
      <4>7. QED
        BY <4>3, <4>5, <4>6
    <3>2. QED
      BY <1>2, <2>1, <2>2, <2>3, <3>1
  <2>6. /\ Sorted([b EXCEPT ![i] = m])
        /\ Pages([b EXCEPT ![i] = m]) = (Pages(b) \ PagesIn(b[i])) \cup PagesIn(m)
    <3>1. Between(b, i, m)
      BY <2>5 DEF Between
    <3>2. i \in 1..Len(b)
      BY <2>1
    <3>3. QED
      BY <2>4, <3>1, <3>2, ReplaceSorted, Zenon
  <2>7. PagesIn(m) = PagesIn(b[i]) \cup Span(base, n)
    <3>1. ASSUME NEW g \in Page
          PROVE  In(g, m) <=> In(g, b[i]) \/ (base <= g /\ g < base + n)
      BY <1>1, <1>3, <2>1, <2>2, <2>3 DEF In, Page
    <3>2. QED
      BY <3>1 DEF PagesIn, Span
  <2>8. PagesIn(b[i]) \subseteq Pages(b)
    BY <2>1 DEF PagesIn, Pages
  <2>9. res = [b EXCEPT ![i] = m]
    BY <1>6, <1>12 DEF m
  <2>10. QED
    BY <2>6, <2>7, <2>8, <2>9 DEF res
<1>13. CASE ~left /\ ~right
  <2> DEFINE m == Block(base, n)
             ins == InsertAt(b, i, m)
  <2>1. m.base = base /\ m.pages = n /\ m \in BlockType
    BY <1>3 DEF Block, BlockType
  <2>2. Fits(m) /\ PagesIn(m) = Span(base, n)
    BY <2>1 DEF Fits, PagesIn, In, Span
  <2> HIDE DEF m
  <2>3. \A j \in 1..Len(b) : /\ j < i => b[j].base + b[j].pages < m.base
                             /\ i <= j => m.base + m.pages < b[j].base
    <3>1. ASSUME NEW j \in 1..Len(b), j < i PROVE b[j].base + b[j].pages < base
      <4>1. i - 1 \in 1..Len(b) /\ i - 1 < i /\ i > 1 /\ i - 1 \in Nat /\ j <= i - 1
        BY <1>1, <1>5, <3>1
      <4>2. b[i - 1].base + b[i - 1].pages <= base /\ b[i - 1].base + b[i - 1].pages # base
        BY <1>8, <1>13, <4>1 DEF After
      <4>3. j = i - 1 \/ b[j].base + b[j].pages < b[i - 1].base
        BY <1>2, <4>1
      <4>4. /\ b[i - 1].base \in Nat /\ b[i - 1].pages \in Nat /\ b[j].base \in Nat
            /\ b[j].pages \in Nat
        BY <1>1, <4>1
      <4>5. CASE j = i - 1
        BY <1>3, <4>2, <4>4, <4>5
      <4>6. CASE b[j].base + b[j].pages < b[i - 1].base
        <5> DEFINE x == b[j].base + b[j].pages
                   y == b[i - 1].base
                   z == b[i - 1].pages
        <5>1. y \in Nat /\ z \in Nat /\ y + z <= base /\ x < y
          BY <4>2, <4>4, <4>6
        <5>2. x \in Nat /\ base \in Nat
          BY <1>3, <4>4
        <5> HIDE DEF x, y, z
        <5>3. x < base
          BY <5>1, <5>2
        <5>4. QED
          BY <5>3 DEF x
      <4>7. QED
        BY <4>3, <4>5, <4>6
    <3>2. ASSUME NEW j \in 1..Len(b), i <= j PROVE base + n < b[j].base
      <4>1. i \in 1..Len(b)
        BY <1>1, <1>5, <3>2
      <4>2. base + n <= b[i].base /\ base + n # b[i].base
        BY <1>1, <1>5, <1>9, <1>13, <4>1
      <4>3. i = j \/ b[i].base + b[i].pages < b[j].base
        BY <1>2, <1>5, <3>2, <4>1
      <4>4. b[i].base \in Nat /\ b[i].pages \in Nat /\ b[j].base \in Nat
        BY <1>1, <4>1
      <4> DEFINE y == b[i].base
                 z == b[i].pages
                 w == b[j].base
                 e == base + n
      <4>5. y \in Nat /\ z \in Nat /\ w \in Nat /\ e <= y /\ e # y /\ e \in Nat
        BY <1>3, <4>2, <4>4
      <4>6. y = w \/ y + z < w
        BY <4>3
      <4> HIDE DEF y, z, w, e
      <4>7. e < w
        BY <4>5, <4>6
      <4>8. QED
        BY <4>7 DEF e, w
    <3>3. QED
      BY <2>1, <3>1, <3>2
  <2>4. Sorted(ins) /\ Pages(ins) = Pages(b) \cup PagesIn(m) /\ Len(ins) = Len(b) + 1
    BY <1>5, <2>2, <2>3, InsertSorted
  <2> HIDE DEF ins
  <2>5. Len(b) + 1 <= PageCount
    BY <2>4, SortedLen
  <2>6. ~(Len(b) >= BlocksMax)
    BY <1>1, <2>5, RoomAssumption, PoolAssumption
  <2>7. res = ins
    BY <1>6, <1>13, <2>6 DEF ins, m
  <2>8. QED
    BY <2>2, <2>4, <2>7 DEF res
<1>14. QED
  BY <1>10, <1>11, <1>12, <1>13

-----------------------------------------------------------------------------
(* The calls *)

PoolType == [blocks : Seq(BlockType), total : Nat]

\* A pool whose list is sorted and whose total counts the pages in it.
Well(pl) == /\ pl \in PoolType
            /\ Sorted(pl.blocks)
            /\ pl.total = Cardinality(FreePages(pl))

\* The invariants of page_pool.h follow: no block is empty or leaves the pool,
\* neighbours are apart, the total is exact.
THEOREM WellIsCanonical ==
  ASSUME NEW pl, Well(pl)
  PROVE  Canonical(pl)
<1> DEFINE b == pl.blocks
<1>0. Sorted(b) /\ b \in Seq(BlockType)
  BY DEF Well, Sorted
<1>1. /\ Len(b) \in Nat /\ DOMAIN b = 1..Len(b) /\ PageCount \in Nat
      /\ \A i \in 1..Len(b) : /\ b[i].base \in Nat /\ 1 <= b[i].base
                              /\ b[i].pages \in Nat /\ 1 <= b[i].pages
  BY <1>0, BlockFact
<1>2. /\ \A i \in 1..Len(b) : b[i].base + b[i].pages <= PageCount + 1
      /\ \A i, j \in 1..Len(b) : i < j => b[i].base + b[i].pages < b[j].base
  BY <1>0 DEF Sorted
<1> HIDE DEF b
<1>3. ASSUME NEW i \in DOMAIN b PROVE b[i].pages > 0 /\ PagesOf(b[i]) \subseteq Page
  BY <1>1, <1>2 DEF PagesOf, After, Page
<1>4. ASSUME NEW i \in DOMAIN b, i > 1 PROVE After(b[i - 1]) < b[i].base
  <2>1. i - 1 \in 1..Len(b) /\ i \in 1..Len(b) /\ i - 1 < i
    BY <1>1, <1>4
  <2>2. QED
    BY <1>2, <2>1 DEF After
<1>5. pl.total = Cardinality(FreePages(pl))
  BY DEF Well
<1>6. QED
  BY <1>3, <1>4, <1>5 DEF Canonical, b

\* How many pages a run has.
LEMMA SpanFact ==
  ASSUME NEW base \in Page, NEW n \in Nat, base + n <= PageCount + 1
  PROVE  IsFiniteSet(Span(base, n)) /\ Cardinality(Span(base, n)) = n
<1>1. base \in Int /\ n \in Int /\ PageCount \in Int /\ base + n - 1 \in Int /\ 1 <= base
  BY PoolAssumption DEF Page
<1>2. Span(base, n) = base..(base + n - 1)
  BY <1>1 DEF Span, Page
<1>3. /\ IsFiniteSet(base..(base + n - 1))
      /\ Cardinality(base..(base + n - 1)) =
           IF base > base + n - 1 THEN 0 ELSE base + n - 1 - base + 1
  BY <1>1, FS_Interval
<1>4. (IF base > base + n - 1 THEN 0 ELSE base + n - 1 - base + 1) = n
  BY <1>1
<1>5. QED
  BY <1>2, <1>3, <1>4

\* A pool from which pages that were free are taken.
LEMMA TakenWell ==
  ASSUME NEW pl, Well(pl), NEW blocks, Sorted(blocks), NEW base \in Page, NEW n \in Nat,
         base + n <= PageCount + 1, Span(base, n) \subseteq FreePages(pl),
         Pages(blocks) = FreePages(pl) \ Span(base, n)
  PROVE  LET new == [blocks |-> blocks, total |-> pl.total - n]
         IN  Well(new) /\ FreePages(new) = FreePages(pl) \ Span(base, n)
<1> DEFINE new == [blocks |-> blocks, total |-> pl.total - n]
<1>1. new.blocks = blocks /\ new.total = pl.total - n
  OBVIOUS
<1>2. FreePages(new) = FreePages(pl) \ Span(base, n) /\ IsFiniteSet(FreePages(pl))
  BY <1>1, PagesFree DEF Well
<1>3. FreePages(pl) \cap Span(base, n) = Span(base, n)
  OBVIOUS
<1>4. Cardinality(FreePages(new)) = Cardinality(FreePages(pl)) - n
  <2>1. Cardinality(FreePages(pl) \ Span(base, n))
          = Cardinality(FreePages(pl)) - Cardinality(FreePages(pl) \cap Span(base, n))
    BY <1>2, FS_Difference
  <2>2. Cardinality(Span(base, n)) = n
    BY SpanFact
  <2>3. QED
    BY <1>2, <1>3, <2>1, <2>2
<1>5. Cardinality(FreePages(new)) \in Nat
  <2>1. IsFiniteSet(FreePages(new))
    BY <1>1, PagesFree
  <2> HIDE DEF new
  <2>2. QED
    BY <2>1, FS_CardinalityType
<1>6. pl.total = Cardinality(FreePages(pl)) /\ blocks \in Seq(BlockType)
  BY DEF Well, Sorted
<1>7. new.total = Cardinality(FreePages(new)) /\ new.total \in Nat
  BY <1>1, <1>4, <1>5, <1>6
<1>8. Well(new)
  BY <1>1, <1>6, <1>7 DEF Well, PoolType
<1>9. QED
  BY <1>2, <1>8

\* pool_take_n keeps the list canonical, hands out pages that were free, and
\* refuses only when no n pages in a row are free.
THEOREM TakeNCorrect ==
  ASSUME NEW pl, Well(pl), NEW n \in Nat \ {0}
  PROVE  LET a == TakeN(pl, n)
         IN  /\ Well(a.pool)
             /\ \/ /\ a.page = NoPage /\ a.pool = pl
                   /\ \A g \in Page : g + n <= PageCount + 1 => ~(Span(g, n) \subseteq FreePages(pl))
                \/ /\ a.page \in Page /\ a.page + n <= PageCount + 1
                   /\ Span(a.page, n) \subseteq FreePages(pl)
                   /\ FreePages(a.pool) = FreePages(pl) \ Span(a.page, n)
<1> DEFINE b == pl.blocks
           a == TakeN(pl, n)
<1>0. Sorted(b) /\ b \in Seq(BlockType) /\ FreePages(pl) = Pages(b)
  BY PagesFree DEF Well, Sorted
<1>1. /\ Len(b) \in Nat /\ DOMAIN b = 1..Len(b) /\ PageCount \in Nat
      /\ \A i \in 1..Len(b) : /\ b[i].base \in Nat /\ 1 <= b[i].base /\ b[i].base <= PageCount
                              /\ b[i].pages \in Nat /\ 1 <= b[i].pages
  BY <1>0, BlockFact
<1>2. /\ \A i \in 1..Len(b) : b[i].base + b[i].pages <= PageCount + 1
      /\ \A i, j \in 1..Len(b) : i < j => b[i].base + b[i].pages < b[j].base
  BY <1>0 DEF Sorted
<1>3. n \in Nat /\ 1 <= n /\ (n = 1 \/ n > 1)
  OBVIOUS
<1>4. CASE n = 1 /\ Len(b) > 0
  <2> DEFINE l == Len(b)
             g == After(b[l]) - 1
             k == TakeBackOne(b, l)
  <2>1. a.page = g /\ a.pool = [blocks |-> k, total |-> pl.total - n]
    BY <1>4 DEF TakeN, Taken
  <2>2. l \in 1..Len(b)
    BY <1>1, <1>4
  <2>3. Sorted(k) /\ Pages(k) = Pages(b) \ {g} /\ g \in Pages(b)
    BY <1>0, <2>2, TakeBackFact
  <2>4. g \in Page /\ g \in Int
    BY <2>3 DEF Pages, Page
  <2> HIDE DEF a, b, k, g
  <2>5. Span(g, n) = {g} /\ g + n <= PageCount + 1
    BY <1>1, <1>4, <2>4 DEF Span, Page
  <2>6. Well(a.pool) /\ FreePages(a.pool) = FreePages(pl) \ Span(g, n)
    BY <1>0, <1>3, <2>1, <2>3, <2>4, <2>5, TakenWell
  <2>7. QED
    BY <1>0, <2>1, <2>3, <2>4, <2>5, <2>6 DEF a
<1>5. CASE n > 1 /\ Fitting(b, n) # {}
  <2> DEFINE i == Min(Fitting(b, n))
             k == TakeFront(b, i, n)
  <2>1. n # 1 /\ a.page = b[i].base /\ a.pool = [blocks |-> k, total |-> pl.total - n]
    BY <1>3, <1>5 DEF TakeN, Taken
  <2>2. i \in Fitting(b, n)
    <3>1. Fitting(b, n) \in SUBSET Nat
      BY <1>1 DEF Fitting
    <3>2. QED
      BY <1>5, <3>1, MinFact
  <2>3. i \in 1..Len(b) /\ n <= b[i].pages
    <3> HIDE DEF i
    <3>1. QED
      BY <1>1, <1>3, <2>2 DEF Fitting
  <2> HIDE DEF a, b, i
  <2>4. /\ Sorted(k) /\ Pages(k) = Pages(b) \ Span(b[i].base, n)
        /\ Span(b[i].base, n) \subseteq Pages(b)
    BY <1>0, <2>3, TakeFrontFact
  <2>5. b[i].base \in Page /\ b[i].base + n <= PageCount + 1
    BY <1>1, <1>2, <1>3, <2>3 DEF Page
  <2> HIDE DEF k
  <2>6. Well(a.pool) /\ FreePages(a.pool) = FreePages(pl) \ Span(b[i].base, n)
    BY <1>0, <1>3, <2>1, <2>4, <2>5, TakenWell
  <2>7. QED
    BY <1>0, <2>1, <2>4, <2>5, <2>6 DEF a
<1>6. CASE ~(n = 1 /\ Len(b) > 0) /\ ~(n > 1 /\ Fitting(b, n) # {})
  <2>1. a = Refused(pl)
    BY <1>6 DEF TakeN
  <2>2. a.page = NoPage /\ a.pool = pl
    BY <2>1 DEF Refused
  <2>3. ASSUME NEW i \in 1..Len(b) PROVE b[i].pages < n
    <3>1. n > 1 /\ Fitting(b, n) = {}
      BY <1>1, <1>3, <1>6
    <3>2. QED
      BY <1>1, <1>3, <3>1 DEF Fitting
  <2> HIDE DEF a, b
  <2>4. ASSUME NEW g \in Page, g + n <= PageCount + 1, Span(g, n) \subseteq Pages(b)
        PROVE  FALSE
    <3>1. g \in Nat /\ g \in Span(g, n)
      BY <1>3 DEF Span, Page
    <3>2. PICK i \in 1..Len(b) : In(g, b[i])
      BY <2>4, <3>1 DEF Pages
    <3> DEFINE e == b[i].base + b[i].pages
    <3>3. e \in Nat /\ g < e /\ e < g + n
      BY <1>1, <1>3, <2>3, <3>1, <3>2 DEF In
    <3>4. e \in Page /\ e \in Span(g, n)
      BY <1>1, <1>3, <2>4, <3>1, <3>3 DEF Span, Page
    <3>5. PICK j \in 1..Len(b) : In(e, b[j])
      BY <2>4, <3>4 DEF Pages
    <3>6. j = i \/ j < i \/ i < j
      BY <1>1
    <3>7. b[j].base <= e /\ e < b[j].base + b[j].pages
      BY <3>5 DEF In
    <3>8. QED
      BY <1>1, <1>2, <3>6, <3>7
  <2>5. QED
    BY <1>0, <2>2, <2>4 DEF a
<1>7. QED
  BY <1>4, <1>5, <1>6

\* pool_take_at takes the page it is asked for when that page is free, and
\* nothing else, and refuses otherwise; what it splits off a block is not lost.
THEOREM TakeAtCorrect ==
  ASSUME NEW pl, Well(pl), NEW id
  PROVE  LET a == TakeAt(pl, id)
         IN  /\ Well(a.pool)
             /\ \/ id \notin FreePages(pl) /\ a.page = NoPage /\ a.pool = pl
                \/ /\ id \in FreePages(pl) /\ a.page = id /\ id \in Page
                   /\ FreePages(a.pool) = FreePages(pl) \ {id}
<1> DEFINE b == pl.blocks
           a == TakeAt(pl, id)
<1>0. Sorted(b) /\ b \in Seq(BlockType) /\ FreePages(pl) = Pages(b)
  BY PagesFree DEF Well, Sorted
<1>1. /\ Len(b) \in Nat /\ DOMAIN b = 1..Len(b) /\ PageCount \in Nat
      /\ \A i \in 1..Len(b) : /\ b[i].base \in Nat /\ 1 <= b[i].base /\ b[i].base <= PageCount
                              /\ b[i].pages \in Nat /\ 1 <= b[i].pages
  BY <1>0, BlockFact
<1>2. \A i \in 1..Len(b) : b[i].base + b[i].pages <= PageCount + 1
  BY <1>0 DEF Sorted
<1>3. CASE Containing(b, id) = {}
  <2>1. a.page = NoPage /\ a.pool = pl
    BY <1>3 DEF TakeAt, Refused
  <2>2. id \notin FreePages(pl)
    BY <1>3 DEF FreePages, Containing
  <2>3. QED
    BY <2>1, <2>2
<1>4. CASE Containing(b, id) # {}
  <2> DEFINE i == Min(Containing(b, id))
             k == b[i]
             out == RemoveAt(b, i)
             low == IF id > k.base THEN InsertOrMerge(out, k.base, id - k.base) ELSE out
             high == IF id + 1 < After(k)
                     THEN InsertOrMerge(low, id + 1, After(k) - id - 1) ELSE low
  <2>1. a.page = id /\ a.pool = [blocks |-> high, total |-> pl.total - 1]
    BY <1>4 DEF TakeAt, Taken
  <2>2. i \in Containing(b, id)
    <3>1. Containing(b, id) \in SUBSET Nat
      BY <1>1 DEF Containing
    <3>2. QED
      BY <1>4, <3>1, MinFact
  <2> HIDE DEF i
  <2>3. /\ i \in 1..Len(b) /\ k.base \in Nat /\ 1 <= k.base /\ k.base <= PageCount
        /\ k.pages \in Nat /\ 1 <= k.pages /\ k.base + k.pages <= PageCount + 1
        /\ After(k) = k.base + k.pages
    BY <1>1, <1>2, <2>2 DEF Containing, After
  <2>4. id \in Nat /\ k.base <= id /\ id < k.base + k.pages /\ id \in Page
    <3>1. id \in k.base..(k.base + k.pages - 1)
      BY <2>2, <2>3 DEF Containing, PagesOf
    <3> HIDE DEF k
    <3>2. id \in Int /\ k.base <= id /\ id <= k.base + k.pages - 1
      BY <2>3, <3>1
    <3>3. QED
      BY <1>1, <2>3, <3>2 DEF Page
  <2> HIDE DEF a, b
  <2>5. Sorted(out) /\ Pages(out) = Pages(b) \ PagesIn(k)
    BY <1>0, <2>3, RemoveSorted
  <2> HIDE DEF out, k
  <2>6. PagesIn(k) = Span(k.base, id - k.base) \cup {id} \cup Span(id + 1, After(k) - id - 1)
    BY <2>3, <2>4 DEF PagesIn, In, Span, Page
  <2>7. PagesIn(k) \subseteq Pages(b)
    BY <2>3 DEF PagesIn, Pages, k
  <2>8. Sorted(low) /\ Pages(low) = Pages(out) \cup Span(k.base, id - k.base)
    <3>1. CASE id > k.base
      <4>1. /\ k.base \in Page /\ id - k.base \in Nat \ {0}
            /\ k.base + (id - k.base) <= PageCount + 1
        <5>1. k.base \in Page
          BY <2>3 DEF Page
        <5>2. id - k.base \in Nat /\ id - k.base # 0
          BY <2>3, <2>4, <3>1
        <5>3. k.base + (id - k.base) = id /\ id <= PageCount + 1
          BY <1>1, <2>3, <2>4
        <5>4. QED
          BY <5>1, <5>2, <5>3
      <4>2. Span(k.base, id - k.base) \cap Pages(out) = {}
        BY <2>5, <2>6
      <4>3. QED
        BY <2>5, <3>1, <4>1, <4>2, InsertOrMergeFact
    <3>2. CASE ~(id > k.base)
      <4>1. id = k.base
        BY <2>3, <2>4, <3>2
      <4>2. Span(k.base, id - k.base) = {}
        BY <2>3, <4>1 DEF Span, Page
      <4>3. QED
        BY <2>5, <3>2, <4>2
    <3>3. QED
      BY <3>1, <3>2
  <2>9. /\ id \notin Span(k.base, id - k.base) /\ id \notin Span(id + 1, After(k) - id - 1)
        /\ Span(k.base, id - k.base) \cap Span(id + 1, After(k) - id - 1) = {}
    BY <2>3, <2>4 DEF Span, Page
  <2> HIDE DEF low
  <2>10. Sorted(high) /\ Pages(high) = Pages(low) \cup Span(id + 1, After(k) - id - 1)
    <3>1. CASE id + 1 < After(k)
      <4>1. /\ id + 1 \in Page /\ After(k) - id - 1 \in Nat \ {0}
            /\ (id + 1) + (After(k) - id - 1) <= PageCount + 1
        <5>1. id + 1 \in Page
          BY <1>1, <2>3, <2>4, <3>1 DEF Page
        <5>2. After(k) \in Nat /\ After(k) <= PageCount + 1
          BY <2>3
        <5>3. After(k) - id - 1 \in Nat /\ After(k) - id - 1 # 0
          BY <2>4, <3>1, <5>2
        <5>4. (id + 1) + (After(k) - id - 1) = After(k)
          BY <2>4, <5>2
        <5>5. QED
          BY <5>1, <5>2, <5>3, <5>4
      <4>2. Span(id + 1, After(k) - id - 1) \cap Pages(low) = {}
        BY <2>5, <2>6, <2>8, <2>9
      <4>3. high = InsertOrMerge(low, id + 1, After(k) - id - 1)
        BY <3>1
      <4> DEFINE x == id + 1
                 y == After(k) - id - 1
      <4>4. /\ x \in Page /\ y \in Nat \ {0} /\ x + y <= PageCount + 1
            /\ Span(x, y) \cap Pages(low) = {}
        BY <4>1, <4>2
      <4>5. high = InsertOrMerge(low, x, y)
        BY <4>3
      <4> HIDE DEF x, y
      <4>6. Sorted(InsertOrMerge(low, x, y)) /\ Pages(InsertOrMerge(low, x, y)) = Pages(low) \cup Span(x, y)
        BY <2>8, <4>4, InsertOrMergeFact
      <4>7. QED
        BY <4>5, <4>6 DEF x, y
    <3>2. CASE ~(id + 1 < After(k))
      <4>1. id + 1 = After(k)
        BY <2>3, <2>4, <3>2
      <4>2. Span(id + 1, After(k) - id - 1) = {}
        BY <2>3, <2>4, <4>1 DEF Span, Page
      <4>3. QED
        BY <2>8, <3>2, <4>2
    <3>3. QED
      BY <3>1, <3>2
  <2> HIDE DEF high
  <2>11. Pages(high) = Pages(b) \ {id} /\ id \in Pages(b)
    BY <2>5, <2>6, <2>7, <2>8, <2>9, <2>10
  <2>12. Span(id, 1) = {id} /\ id + 1 <= PageCount + 1
    BY <1>1, <2>4 DEF Span, Page
  <2>13. Well(a.pool) /\ FreePages(a.pool) = FreePages(pl) \ {id}
    <3>1. /\ Span(id, 1) \subseteq FreePages(pl)
          /\ Pages(high) = FreePages(pl) \ Span(id, 1)
      BY <1>0, <2>11, <2>12
    <3>2. LET new == [blocks |-> high, total |-> pl.total - 1]
          IN  Well(new) /\ FreePages(new) = FreePages(pl) \ Span(id, 1)
      BY <2>4, <2>10, <2>12, <3>1, TakenWell
    <3>3. QED
      BY <2>1, <2>12, <3>2
  <2>14. QED
    BY <1>0, <2>1, <2>4, <2>11, <2>13 DEF a
<1>5. QED
  BY <1>3, <1>4

\* page_free never loses a page: freeing a page of the pool makes it free,
\* however the pool is fragmented ("we are guaranteed to never drop a free",
\* page_pool.c), and freeing anything else changes nothing.
THEOREM PageFreeCorrect ==
  ASSUME NEW pl, Well(pl), NEW id
  PROVE  /\ Well(PageFree(pl, id))
         /\ FreePages(PageFree(pl, id)) = FreePages(pl) \cup ({id} \cap Page)
<1> DEFINE b == pl.blocks
           ins == InsertOrMerge(b, id, 1)
           new == [blocks |-> ins, total |-> pl.total + 1]
<1>0. /\ Sorted(b) /\ FreePages(pl) = Pages(b) /\ IsFiniteSet(FreePages(pl))
      /\ pl.total \in Nat /\ pl.total = Cardinality(FreePages(pl))
  BY PagesFree DEF Well, PoolType
<1>1. Containing(b, id) # {} <=> id \in FreePages(pl)
  BY DEF Containing, FreePages
<1>2. CASE id \notin Page \/ id \in FreePages(pl)
  <2>1. PageFree(pl, id) = pl
    BY <1>1, <1>2 DEF PageFree
  <2>2. FreePages(pl) = FreePages(pl) \cup ({id} \cap Page)
    BY <1>2
  <2>3. QED
    BY <2>1, <2>2
<1>3. CASE id \in Page /\ id \notin FreePages(pl)
  <2>1. id \in Nat /\ PageCount \in Nat /\ id + 1 <= PageCount + 1 /\ Span(id, 1) = {id}
    BY <1>3, PoolAssumption DEF Span, Page
  <2>2. Span(id, 1) \cap Pages(b) = {}
    BY <1>0, <1>3, <2>1
  <2>3. Sorted(ins) /\ Pages(ins) = Pages(b) \cup Span(id, 1)
    BY <1>0, <1>3, <2>1, <2>2, InsertOrMergeFact
  <2> HIDE DEF ins
  <2>4. ins # b
    BY <2>1, <2>2, <2>3
  <2>5. PageFree(pl, id) = new
    BY <1>1, <1>3, <2>4 DEF PageFree, ins
  <2>6. new.blocks = ins /\ new.total = pl.total + 1
    OBVIOUS
  <2>7. FreePages(new) = FreePages(pl) \cup {id}
    BY <1>0, <2>1, <2>3, <2>6, PagesFree
  <2>8. Cardinality(FreePages(pl) \cup {id}) = Cardinality(FreePages(pl)) + 1
    BY <1>0, <1>3, FS_AddElement
  <2>9. new.total = Cardinality(FreePages(new))
    BY <1>0, <2>6, <2>7, <2>8
  <2>10. ins \in Seq(BlockType)
    BY <2>3 DEF Sorted
  <2>11. Well(new)
    BY <1>0, <2>3, <2>6, <2>9, <2>10 DEF Well, PoolType
  <2>12. QED
    BY <1>3, <2>5, <2>7, <2>11
<1>4. QED
  BY <1>2, <1>3
=============================================================================
