---------------------------- MODULE MemoryProofs ----------------------------
(***************************************************************************)
(* The page allocator under the calls of its users, for any number of      *)
(* pages, processes and calls: its free list, who owns which page, and     *)
(* what a program keeps of the memory it was given.                        *)
(***************************************************************************)
EXTENDS Memory, PagePoolProofs

\* The points of an execve at which the program it loads is known.
Loading == {"snap", "stage", "stack", "text", "data", "reloc"}

IInv == /\ Well(pool)
        /\ img \in [Proc -> Images \cup {NULL}]
        /\ pc \in [Proc -> Loading \cup {"user", "grow", "claim", "commit", "exit"}]
        /\ \A p \in Proc : pc[p] \in Loading => img[p] \in Images

\* What region_alloc leaves is a well-formed pool; nothing is taken for no pages.
LEMMA TakeNWell ==
  ASSUME NEW n \in Nat, Well(pool)
  PROVE  Well(TakeN(pool, n).pool)
<1>1. CASE n = 0
  <2>1. TakeN(pool, n) = Refused(pool)
    BY <1>1 DEF TakeN
  <2>2. QED
    BY <2>1 DEF Refused
<1>2. CASE n # 0
  BY <1>2, TakeNCorrect
<1>3. QED
  BY <1>1, <1>2

\* The pool after boot.
LEMMA InitWell ==
  ASSUME Init
  PROVE  Well(pool) /\ FreePages(pool) = Span(3, PageCount - 4) \cup Span(PageCount, 1)
<1> DEFINE b == <<Block(3, PageCount - 4), Block(PageCount, 1)>>
<1>0. PageCount \in Nat /\ PageCount > 4
  BY PoolAssumption, MemoryAssumption
<1>1. pool = [blocks |-> b, total |-> PageCount - 3]
  BY DEF Init
<1>2. /\ Len(b) = 2 /\ b[1] = Block(3, PageCount - 4) /\ b[2] = Block(PageCount, 1)
  OBVIOUS
<1>3. /\ Block(3, PageCount - 4) \in BlockType /\ Block(PageCount, 1) \in BlockType
      /\ Block(3, PageCount - 4).base = 3 /\ Block(3, PageCount - 4).pages = PageCount - 4
      /\ Block(PageCount, 1).base = PageCount /\ Block(PageCount, 1).pages = 1
  BY <1>0 DEF Block, BlockType, Page
<1>4. b \in Seq(BlockType)
  BY <1>3
<1> HIDE DEF b
<1>5. Sorted(b)
  <2>1. \A i \in 1..Len(b) : b[i].base + b[i].pages <= PageCount + 1
    <3>1. ASSUME NEW i \in 1..2 PROVE i = 1 \/ i = 2
      OBVIOUS
    <3>2. QED
      BY <1>0, <1>2, <1>3, <3>1
  <2>2. ASSUME NEW i \in 1..Len(b), NEW j \in 1..Len(b), i < j
        PROVE  b[i].base + b[i].pages < b[j].base
    <3>1. i = 1 /\ j = 2
      BY <1>2, <2>2
    <3>2. QED
      BY <1>0, <1>2, <1>3, <3>1
  <2>3. QED
    BY <1>4, <2>1, <2>2 DEF Sorted
<1>6. pool.blocks = b /\ pool.total = PageCount - 3
  BY <1>1
<1>7. FreePages(pool) = Pages(b)
  BY <1>5, <1>6, PagesFree
<1>8. Pages(b) = Span(3, PageCount - 4) \cup Span(PageCount, 1)
  <2>1. ASSUME NEW g \in Page
        PROVE  (\E i \in 1..Len(b) : In(g, b[i])) <=> In(g, b[1]) \/ In(g, b[2])
    <3>1. 1 \in 1..Len(b) /\ 2 \in 1..Len(b) /\ \A i \in 1..Len(b) : i = 1 \/ i = 2
      BY <1>2
    <3>2. QED
      BY <3>1
  <2>2. ASSUME NEW g \in Page
        PROVE  /\ In(g, b[1]) <=> 3 <= g /\ g < 3 + (PageCount - 4)
               /\ In(g, b[2]) <=> PageCount <= g /\ g < PageCount + 1
    BY <1>2, <1>3 DEF In
  <2>3. QED
    BY <2>1, <2>2 DEF Pages, Span
<1>9. /\ Span(3, PageCount - 4) \cap Span(PageCount, 1) = {}
      /\ 3 \in Page /\ PageCount \in Page /\ PageCount - 4 \in Nat
      /\ 3 + (PageCount - 4) <= PageCount + 1
  BY <1>0 DEF Span, Page
<1>10. Cardinality(FreePages(pool)) = (PageCount - 4) + 1
  <2>1. /\ IsFiniteSet(Span(3, PageCount - 4)) /\ Cardinality(Span(3, PageCount - 4)) = PageCount - 4
        /\ IsFiniteSet(Span(PageCount, 1)) /\ Cardinality(Span(PageCount, 1)) = 1
    BY <1>0, <1>9, SpanFact
  <2>2. Cardinality(Span(3, PageCount - 4) \cup Span(PageCount, 1)) = (PageCount - 4) + 1 - Cardinality({})
    BY <1>9, <2>1, FS_Union
  <2>3. QED
    BY <1>0, <1>7, <1>8, <2>2, FS_EmptySet
<1>11. QED
  BY <1>0, <1>1, <1>4, <1>5, <1>6, <1>7, <1>8, <1>10 DEF Well, PoolType

\* The invariant holds at first.
LEMMA IInvInit ==
  Init => IInv
<1> SUFFICES ASSUME Init PROVE IInv
  OBVIOUS
<1>1. Well(pool)
  BY InitWell
<1>2. QED
  BY <1>1 DEF Init, IInv, Loading

\* An execve that takes pages or gives up.
LEMMA GetStep ==
  ASSUME IInv, NEW p \in Proc, NEW part, NEW n \in Nat,
         NEW next \in Loading, Get(p, part, n, next), img[p] \in Images
  PROVE  IInv'
<1>1. Well(pool')
  BY TakeNWell DEF Get, IInv
<1>2. CASE TakeN(pool, n).page = NoPage
  BY <1>1, <1>2 DEF Get, Fail, FreeThen, Goto, IInv, Loading
<1>3. CASE TakeN(pool, n).page # NoPage
  BY <1>1, <1>3 DEF Get, Goto, IInv, Loading
<1>4. QED
  BY <1>2, <1>3

\* Every step of a process keeps the invariant.
LEMMA IInvNext ==
  IInv /\ [Next]_vars => IInv'
<1> SUFFICES ASSUME IInv, [Next]_vars PROVE IInv'
  OBVIOUS
<1> USE DEF IInv
<1>1. CASE UNCHANGED vars
  BY <1>1 DEF vars
<1>2. ASSUME NEW p \in Proc, NEW i \in Images, ExecCall(p, i) PROVE IInv'
  BY <1>2, TakeNWell DEF ExecCall, Goto, Loading
<1>3. ASSUME NEW p \in Proc, NEW c \in Proc, Vfork(p, c) PROVE IInv'
  BY <1>3 DEF Vfork
<1>4. ASSUME NEW p \in Proc, ExecStep(p) PROVE IInv'
  <2>1. CASE At(p, "snap") /\ Get(p, "snap", 1, "stage")
    BY <2>1, GetStep DEF At, Loading
  <2>2. CASE At(p, "stage") /\ img[p].stage = 0 /\ Skip(p, "stack")
    BY <2>2 DEF At, Loading, Skip, Goto
  <2>3. CASE At(p, "stage") /\ Get(p, "stage", img[p].stage, "stack")
    BY <2>3, GetStep, MemoryAssumption DEF At, Loading
  <2>4. CASE At(p, "stack") /\ Get(p, "stack", 1, "text")
    BY <2>4, GetStep DEF At, Loading
  <2>5. CASE At(p, "text") /\ Skip(p, "data")
    BY <2>5 DEF At, Loading, Skip, Goto
  <2>6. CASE At(p, "text") /\ Get(p, "text", img[p].text, "data")
    BY <2>6, GetStep, MemoryAssumption DEF At, Loading
  <2>7. CASE At(p, "data") /\ Fail(p) /\ UNCHANGED pool
    BY <2>7 DEF Fail, FreeThen, Goto, Loading
  <2>8. CASE At(p, "data") /\ Get(p, "data", img[p].data, "reloc")
    BY <2>8, GetStep, MemoryAssumption DEF At, Loading
  <2>9. QED
    BY <1>4, <2>1, <2>2, <2>3, <2>4, <2>5, <2>6, <2>7, <2>8 DEF ExecStep
<1>5. ASSUME NEW p \in Proc, ExecReject(p) PROVE IInv'
  BY <1>5 DEF ExecReject, Fail, FreeThen, Goto, Loading
<1>6. ASSUME NEW p \in Proc, ExecCommit(p) PROVE IInv'
  BY <1>6 DEF ExecCommit, FreeThen, Goto, Loading
<1>7. ASSUME NEW p \in Proc, ExecDone(p) \/ ExitDone(p) PROVE IInv'
  BY <1>7 DEF ExecDone, ExitDone, Leave, Goto, Loading
<1>8. ASSUME NEW p \in Proc, Exit(p) PROVE IInv'
  BY <1>8 DEF Exit, FreeThen, Goto, Loading
<1>9. ASSUME NEW p \in Proc, NEW e, Brk(p, e) \/ BrkChild(p, e) PROVE IInv'
  BY <1>9 DEF Brk, BrkChild, FreeThen, Goto, Loading
<1>17. ASSUME NEW p \in Proc, WokenEarly(p) PROVE IInv'
  BY <1>17 DEF WokenEarly
<1>18. ASSUME NEW p \in Proc, BrkPage(p) PROVE IInv'
  <2>1. Well(pool')
    BY <1>18, TakeAtCorrect DEF BrkPage
  <2>2. QED
    BY <1>18, <2>1 DEF BrkPage, FreeThen, Goto, Loading
<1>19. ASSUME NEW p \in Proc, BrkDone(p) PROVE IInv'
  BY <1>19 DEF BrkDone, Goto, Loading
<1>10. ASSUME NEW p \in Proc, ClaimPage(p) PROVE IInv'
  <2>1. Well(pool')
    BY <1>10, TakeAtCorrect DEF ClaimPage
  <2>2. QED
    BY <1>10, <2>1 DEF ClaimPage, FreeThen, Goto, Loading
<1>11. ASSUME NEW p \in Proc, ClaimDone(p) PROVE IInv'
  BY <1>11 DEF ClaimDone, Goto, Loading
<1>12. ASSUME NEW p \in Proc, NEW n \in MapSizes, Mmap(p, n) PROVE IInv'
  BY <1>12, TakeNWell, MemoryAssumption DEF Mmap
<1>13. ASSUME NEW p \in Proc, NEW n, NEW at, MmapFixed(p, n, at) PROVE IInv'
  BY <1>13 DEF MmapFixed, Goto, Loading
<1>14. ASSUME NEW p \in Proc, NEW m, NEW b, NEW n, Munmap(p, m, b, n) PROVE IInv'
  BY <1>14 DEF Munmap, FreeThen, Goto, Loading
<1>15. ASSUME NEW p \in Proc, Drop(p) PROVE IInv'
  BY <1>15, PageFreeCorrect DEF Drop
<1>16. QED
  BY <1>1, <1>2, <1>3, <1>4, <1>5, <1>6, <1>7, <1>8, <1>9, <1>10, <1>11, <1>12,
     <1>13, <1>14, <1>15, <1>17, <1>18, <1>19 DEF Next, ExecPath, BrkCall, MapCall

\* Whatever the processes call, in whatever order and however their calls fail,
\* the free list stays sorted and coalesced and its total exact (page_pool.h).
THEOREM FreeListCanonical == Spec => []PoolCanonical
<1>1. IInv => PoolCanonical
  BY WellIsCanonical DEF IInv, PoolCanonical
<1>2. QED
  BY <1>1, IInvInit, IInvNext, PTL DEF Spec

-----------------------------------------------------------------------------
(* Pages in sequences and tables *)

Val == Page \cup {NoPage}

\* The pages a sequence or a table has, empty places aside; that it has none of
\* them twice.
Vals(s) == {s[i] : i \in DOMAIN s} \ {NoPage}
Once(s) == \A i, j \in DOMAIN s : s[i] = s[j] /\ s[i] # NoPage => i = j

\* The n slots from lo on are empty.
Vacant(t, lo, n) == \A i \in Slot : lo <= i /\ i < lo + n => t[i] = NoPage

LEMMA Numbers == PageCount \in Nat /\ SlotMax \in Nat /\ Slot \subseteq Nat /\ NoPage \notin Page
  BY PoolAssumption, MemoryAssumption DEF Slot, NoPage, Page

\* Nothing in an empty sequence; one page in one of length 1.
LEMMA EmptyFact == Vals(<< >>) = {} /\ Once(<< >>)
  BY DEF Vals, Once

LEMMA OneFact ==
  ASSUME NEW g
  PROVE  Vals(<<g>>) = {g} \ {NoPage} /\ Once(<<g>>)
<1>1. DOMAIN <<g>> = {1} /\ <<g>>[1] = g
  OBVIOUS
<1>2. QED
  BY <1>1 DEF Vals, Once

\* Two sequences after each other.
LEMMA CatFact ==
  ASSUME NEW V, NEW s \in Seq(V), NEW t \in Seq(V)
  PROVE  /\ s \o t \in Seq(V)
         /\ Vals(s \o t) = Vals(s) \cup Vals(t)
         /\ Once(s \o t) <=> Once(s) /\ Once(t) /\ Vals(s) \cap Vals(t) = {}
<1> DEFINE c == s \o t
           n == Len(s)
           m == Len(t)
<1>1. /\ c \in Seq(V) /\ n \in Nat /\ m \in Nat /\ DOMAIN s = 1..n /\ DOMAIN t = 1..m
      /\ DOMAIN c = 1..(n + m)
      /\ \A i \in 1..n : c[i] = s[i]
      /\ \A i \in 1..m : c[n + i] = t[i]
  <2>1. /\ c \in Seq(V) /\ n \in Nat /\ m \in Nat /\ DOMAIN s = 1..n /\ DOMAIN t = 1..m
        /\ Len(c) = n + m
    BY ConcatProperties
  <2>2. \A i \in 1..(n + m) : c[i] = IF i <= n THEN s[i] ELSE t[i - n]
    BY <2>1, ConcatProperties
  <2>3. DOMAIN c = 1..(n + m)
    BY <2>1
  <2> HIDE DEF c, n, m
  <2>4. ASSUME NEW i \in 1..n PROVE c[i] = s[i]
    BY <2>1, <2>2
  <2>5. ASSUME NEW i \in 1..m PROVE c[n + i] = t[i]
    <3>1. n + i \in 1..(n + m) /\ ~(n + i <= n) /\ (n + i) - n = i
      BY <2>1
    <3>2. QED
      BY <2>2, <3>1
  <2>6. QED
    BY <2>1, <2>3, <2>4, <2>5
<1> HIDE DEF c, n, m
<1>2. ASSUME NEW i \in 1..(n + m) PROVE i \in 1..n \/ \E j \in 1..m : i = n + j
  <2>1. CASE i <= n
    BY <1>1, <2>1
  <2>2. CASE i > n
    <3>1. i - n \in 1..m /\ i = n + (i - n)
      BY <1>1, <2>2
    <3>2. QED
      BY <3>1
  <2>3. QED
    BY <1>1, <2>1, <2>2
<1>3. \A i \in 1..n : i \in 1..(n + m)
  BY <1>1
<1>4. \A i \in 1..m : n + i \in 1..(n + m) /\ n + i \notin 1..n
  BY <1>1
<1>5. Vals(c) = Vals(s) \cup Vals(t)
  <2>1. ASSUME NEW g \in Vals(c) PROVE g \in Vals(s) \cup Vals(t)
    <3>1. PICK i \in 1..(n + m) : c[i] = g
      BY <1>1 DEF Vals
    <3>2. g # NoPage
      BY DEF Vals
    <3>3. QED
      <4>1. CASE i \in 1..n
        BY <1>1, <3>1, <3>2, <4>1 DEF Vals
      <4>2. CASE \E j \in 1..m : i = n + j
        BY <1>1, <3>1, <3>2, <4>2 DEF Vals
      <4>3. QED
        BY <1>2, <4>1, <4>2
  <2>2. ASSUME NEW g \in Vals(s) \cup Vals(t) PROVE g \in Vals(c)
    BY <1>1, <1>3, <1>4 DEF Vals
  <2>3. QED
    BY <2>1, <2>2
<1>6. ASSUME Once(c) PROVE Once(s) /\ Once(t) /\ Vals(s) \cap Vals(t) = {}
  <2>1. Once(s)
    BY <1>1, <1>3, <1>6 DEF Once
  <2>2. Once(t)
    <3>1. ASSUME NEW i \in 1..m, NEW j \in 1..m, t[i] = t[j], t[i] # NoPage PROVE i = j
      <4>1. n + i = n + j
        BY <1>1, <1>4, <1>6, <3>1 DEF Once
      <4>2. QED
        BY <1>1, <4>1
    <3>2. QED
      BY <1>1, <3>1 DEF Once
  <2>3. ASSUME NEW i \in 1..n, NEW j \in 1..m, s[i] = t[j], s[i] # NoPage PROVE FALSE
    <3>1. i = n + j
      BY <1>1, <1>3, <1>4, <1>6, <2>3 DEF Once
    <3>2. QED
      BY <1>4, <3>1
  <2>4. QED
    BY <1>1, <2>1, <2>2, <2>3 DEF Vals
<1>7. ASSUME Once(s), Once(t), Vals(s) \cap Vals(t) = {} PROVE Once(c)
  <2>1. SUFFICES ASSUME NEW i \in 1..(n + m), NEW j \in 1..(n + m), c[i] = c[j], c[i] # NoPage
                 PROVE  i = j
    BY <1>1 DEF Once
  <2>2. CASE i \in 1..n /\ j \in 1..n
    BY <1>1, <1>7, <2>1, <2>2 DEF Once
  <2>3. ASSUME NEW k \in 1..m, NEW l \in 1..m, i = n + k, j = n + l PROVE i = j
    <3>1. c[i] = t[k] /\ c[j] = t[l] /\ k \in DOMAIN t /\ l \in DOMAIN t
      BY <1>1, <2>3
    <3>2. k = l
      BY <1>7, <2>1, <3>1 DEF Once
    <3>3. QED
      BY <2>3, <3>2
  <2>4. ASSUME NEW k \in 1..m, NEW l \in 1..n, c[n + k] = c[l], c[l] # NoPage PROVE FALSE
    <3>1. t[k] = s[l] /\ s[l] # NoPage
      BY <1>1, <2>4
    <3>2. s[l] \in Vals(s) /\ t[k] \in Vals(t)
      BY <1>1, <3>1 DEF Vals
    <3>3. QED
      BY <1>7, <3>1, <3>2
  <2>5. QED
    BY <1>2, <2>1, <2>2, <2>3, <2>4
<1>8. QED
  BY <1>1, <1>5, <1>6, <1>7 DEF c

\* The pages of a run.
LEMMA RunFact ==
  ASSUME NEW g \in Page, NEW n \in Nat \ {0}, g + n <= PageCount + 1
  PROVE  /\ Run(g, n) \in Seq(Page) /\ Len(Run(g, n)) = n
         /\ \A i \in 1..n : Run(g, n)[i] = g + (i - 1)
         /\ Vals(Run(g, n)) = Span(g, n) /\ Once(Run(g, n))
<1> DEFINE r == Run(g, n)
<1>0. g \in Nat /\ 1 <= g /\ PageCount \in Nat /\ n \in Nat
  BY Numbers DEF Page
<1>1. r = [i \in 1..n |-> g + (i - 1)]
  <2>1. \A i \in 1..n : g + i - 1 = g + (i - 1)
    BY <1>0
  <2>2. QED
    BY <2>1 DEF Run
<1>2. ASSUME NEW i \in 1..n PROVE g + (i - 1) \in Page
  BY <1>0 DEF Page
<1>3. r \in Seq(Page) /\ Len(r) = n /\ DOMAIN r = 1..n
  BY <1>0, <1>1, <1>2
<1>4. \A i \in 1..n : r[i] = g + (i - 1)
  BY <1>1
<1> HIDE DEF r
<1>5. Once(r)
  BY <1>0, <1>3, <1>4 DEF Once
<1>6. ASSUME NEW x \in Span(g, n) PROVE x \in Vals(r)
  <2>1. x \in Nat /\ g <= x /\ x < g + n /\ x # NoPage
    BY Numbers DEF Span, Page
  <2>2. (x - g) + 1 \in 1..n /\ g + (((x - g) + 1) - 1) = x
    BY <1>0, <2>1
  <2>3. r[(x - g) + 1] = x
    BY <1>4, <2>2
  <2>4. QED
    BY <1>3, <2>1, <2>2, <2>3 DEF Vals
<1>7. ASSUME NEW x \in Vals(r) PROVE x \in Span(g, n)
  <2>1. PICK i \in 1..n : r[i] = x
    BY <1>3 DEF Vals
  <2>2. x = g + (i - 1) /\ x \in Page
    BY <1>2, <1>4, <2>1
  <2>3. g <= x /\ x < g + n
    BY <1>0, <2>2
  <2>4. QED
    BY <2>2, <2>3 DEF Span
<1>8. QED
  BY <1>3, <1>4, <1>5, <1>6, <1>7 DEF r

\* The slots of a table from lo up to hi.
LEMMA TrackedFact ==
  ASSUME NEW t \in [Slot -> Val], NEW lo \in Nat, NEW hi \in Nat, hi <= SlotMax
  PROVE  /\ Tracked(t, lo, hi) \in Seq(Val)
         /\ Vals(Tracked(t, lo, hi)) = {t[i] : i \in {i \in Slot : lo <= i /\ i < hi}} \ {NoPage}
         /\ Once(t) => Once(Tracked(t, lo, hi))
<1> DEFINE n == IF hi > lo THEN hi - lo ELSE 0
           r == Tracked(t, lo, hi)
<1>0. SlotMax \in Nat /\ n \in Nat
  BY Numbers
<1>1. \A i \in 1..n : lo + (i - 1) \in Slot /\ lo <= lo + (i - 1) /\ lo + (i - 1) < hi
  BY <1>0 DEF Slot
<1>2. r = [i \in 1..n |-> t[lo + (i - 1)]]
  <2>1. \A i \in 1..n : lo + i - 1 = lo + (i - 1)
    BY <1>0
  <2>2. QED
    BY <2>1 DEF Tracked
<1>3. r \in Seq(Val) /\ DOMAIN r = 1..n /\ \A i \in 1..n : r[i] = t[lo + (i - 1)]
  <2> HIDE DEF n
  <2>1. DOMAIN r = 1..n /\ \A i \in 1..n : r[i] = t[lo + (i - 1)]
    BY <1>2
  <2>2. \A i \in 1..n : t[lo + (i - 1)] \in Val
    BY <1>1
  <2>3. [i \in 1..n |-> t[lo + (i - 1)]] \in Seq(Val)
    BY <1>0, <2>2
  <2>4. QED
    BY <1>2, <2>1, <2>3
<1>4. ASSUME NEW i \in Slot, lo <= i, i < hi PROVE (i - lo) + 1 \in 1..n /\ lo + (((i - lo) + 1) - 1) = i
  BY <1>0, <1>4 DEF Slot
<1> HIDE DEF r, n
<1>5. ASSUME NEW g \in Vals(r) PROVE g \in {t[i] : i \in {i \in Slot : lo <= i /\ i < hi}} \ {NoPage}
  BY <1>1, <1>3 DEF Vals
<1>6. ASSUME NEW i \in Slot, lo <= i, i < hi, t[i] # NoPage PROVE t[i] \in Vals(r)
  <2>1. r[(i - lo) + 1] = t[i] /\ (i - lo) + 1 \in DOMAIN r
    BY <1>3, <1>4, <1>6
  <2>2. QED
    BY <1>6, <2>1 DEF Vals
<1>7. ASSUME Once(t) PROVE Once(r)
  <2>1. SUFFICES ASSUME NEW i \in 1..n, NEW j \in 1..n, r[i] = r[j], r[i] # NoPage PROVE i = j
    BY <1>3 DEF Once
  <2>2. lo + (i - 1) = lo + (j - 1)
    BY <1>1, <1>3, <1>7, <2>1 DEF Once
  <2>3. QED
    BY <1>0, <2>2
<1>8. QED
  BY <1>3, <1>5, <1>6, <1>7 DEF r

\* Pages put in empty slots.
LEMMA FilledFact ==
  ASSUME NEW t \in [Slot -> Val], NEW lo \in Nat, NEW s \in Seq(Page), lo + Len(s) <= SlotMax,
         Vacant(t, lo, Len(s))
  PROVE  /\ Filled(t, lo, s) \in [Slot -> Val]
         /\ \A i \in 1..Len(s) : lo + (i - 1) \in Slot /\ Filled(t, lo, s)[lo + (i - 1)] = s[i]
         /\ \A i \in Slot : i < lo \/ lo + Len(s) <= i => Filled(t, lo, s)[i] = t[i]
         /\ Vals(Filled(t, lo, s)) = Vals(t) \cup Vals(s)
         /\ Once(t) /\ Once(s) /\ Vals(t) \cap Vals(s) = {} => Once(Filled(t, lo, s))
<1> DEFINE n == Len(s)
           r == Filled(t, lo, s)
<1>0. /\ SlotMax \in Nat /\ n \in Nat /\ DOMAIN s = 1..n /\ \A i \in 1..n : s[i] \in Page
      /\ Page \subseteq Val /\ NoPage \notin Page /\ DOMAIN t = Slot
  BY Numbers DEF Val
<1>1. ASSUME NEW i \in Slot
      PROVE  /\ i \in Nat
             /\ ((i - lo) + 1 \in 1..n /\ lo <= i /\ i < lo + n /\ r[i] = s[(i - lo) + 1])
                \/ ((i < lo \/ lo + n <= i) /\ r[i] = t[i])
  <2>1. i \in Nat /\ i - lo + 1 = (i - lo) + 1
    BY Numbers
  <2>2. r[i] = IF (i - lo) + 1 \in 1..n THEN s[(i - lo) + 1] ELSE t[i]
    BY <1>0, <2>1 DEF Filled
  <2> HIDE DEF r, n
  <2>3. (i - lo) + 1 \in 1..n <=> lo <= i /\ i < lo + n
    BY <1>0, <2>1
  <2>4. QED
    BY <1>0, <2>1, <2>2, <2>3
<1>2. DOMAIN r = Slot /\ r = [i \in Slot |-> r[i]]
  BY DEF Filled
<1>3. ASSUME NEW i \in 1..n
      PROVE  lo + (i - 1) \in Slot /\ ((lo + (i - 1)) - lo) + 1 = i /\ lo + (i - 1) < lo + n
             /\ lo <= lo + (i - 1)
  BY <1>0 DEF Slot
<1> HIDE DEF r, n
<1>4. r \in [Slot -> Val]
  <2>1. \A i \in Slot : r[i] \in Val
    BY <1>0, <1>1
  <2>2. QED
    BY <1>2, <2>1
<1>5. ASSUME NEW i \in 1..n PROVE r[lo + (i - 1)] = s[i]
  <2> DEFINE k == lo + (i - 1)
  <2>1. k \in Slot /\ (k - lo) + 1 = i /\ k < lo + n /\ lo <= k
    BY <1>3
  <2> HIDE DEF k
  <2>2. k \in Nat /\ lo + n \in Nat
    BY <1>0, <1>1, <2>1
  <2>3. r[k] = s[i]
    BY <1>0, <1>1, <2>1, <2>2
  <2>4. QED
    BY <2>3 DEF k
<1>6. ASSUME NEW i \in Slot, i < lo \/ lo + n <= i PROVE r[i] = t[i]
  BY <1>0, <1>1, <1>6
<1>7. ASSUME NEW i \in Slot, r[i] # NoPage
      PROVE  \/ (i - lo) + 1 \in 1..n /\ r[i] = s[(i - lo) + 1] /\ r[i] \in Vals(s) /\ t[i] = NoPage
             \/ r[i] = t[i] /\ r[i] \in Vals(t)
  <2>1. CASE (i - lo) + 1 \in 1..n /\ lo <= i /\ i < lo + n /\ r[i] = s[(i - lo) + 1]
    <3>1. t[i] = NoPage
      BY <2>1 DEF n, Vacant
    <3>2. QED
      BY <1>0, <1>7, <2>1, <3>1 DEF Vals
  <2>2. CASE r[i] = t[i]
    BY <1>0, <1>7, <2>2 DEF Vals
  <2>3. QED
    BY <1>1, <2>1, <2>2
<1>8. ASSUME NEW g \in Vals(t) \cup Vals(s) PROVE g \in Vals(r)
  <2>1. CASE g \in Vals(s)
    <3>1. PICK i \in 1..n : s[i] = g
      BY <1>0, <2>1 DEF Vals
    <3>2. g # NoPage /\ lo + (i - 1) \in Slot /\ r[lo + (i - 1)] = g
      BY <1>3, <1>5, <2>1, <3>1 DEF Vals
    <3>3. QED
      BY <1>2, <3>2 DEF Vals
  <2>2. CASE g \in Vals(t)
    <3>1. PICK i \in Slot : t[i] = g
      BY <1>0, <2>2 DEF Vals
    <3>2. g # NoPage
      BY <2>2 DEF Vals
    <3>3. ~(lo <= i /\ i < lo + n)
      BY <3>1, <3>2 DEF n, Vacant
    <3>4. r[i] = g
      BY <1>1, <3>1, <3>3
    <3>5. QED
      BY <1>2, <3>2, <3>4 DEF Vals
  <2>3. QED
    BY <2>1, <2>2
<1>9. Vals(r) = Vals(t) \cup Vals(s)
  <2>1. ASSUME NEW g \in Vals(r) PROVE g \in Vals(t) \cup Vals(s)
    <3>1. PICK i \in Slot : r[i] = g
      BY <1>2 DEF Vals
    <3>2. r[i] # NoPage
      BY <3>1 DEF Vals
    <3>3. QED
      BY <1>7, <3>1, <3>2
  <2>2. QED
    BY <1>8, <2>1
<1>10. ASSUME Once(t), Once(s), Vals(t) \cap Vals(s) = {} PROVE Once(r)
  <2>1. SUFFICES ASSUME NEW i \in Slot, NEW j \in Slot, r[i] = r[j], r[i] # NoPage PROVE i = j
    BY <1>2 DEF Once
  <2>2. i \in Nat /\ j \in Nat
    BY <1>1
  <2>3. CASE r[i] \in Vals(s)
    <3>1. /\ (i - lo) + 1 \in 1..n /\ r[i] = s[(i - lo) + 1]
          /\ (j - lo) + 1 \in 1..n /\ r[j] = s[(j - lo) + 1]
      BY <1>7, <1>10, <2>1, <2>3
    <3>2. (i - lo) + 1 = (j - lo) + 1
      BY <1>0, <1>10, <2>1, <3>1 DEF Once
    <3>3. QED
      BY <2>2, <3>2
  <2>4. CASE r[i] \in Vals(t)
    <3>1. r[i] = t[i] /\ r[j] = t[j]
      BY <1>7, <1>10, <2>1, <2>4
    <3>2. QED
      BY <1>0, <1>10, <2>1, <3>1 DEF Once
  <2>5. QED
    BY <1>7, <2>1, <2>3, <2>4
<1>11. QED
  BY <1>3, <1>4, <1>5, <1>6, <1>9, <1>10 DEF r, n

\* Slots emptied.
LEMMA ClearedFact ==
  ASSUME NEW t \in [Slot -> Val], NEW lo, NEW hi
  PROVE  /\ Cleared(t, lo, hi) \in [Slot -> Val]
         /\ \A i \in Slot : Cleared(t, lo, hi)[i] = IF lo <= i /\ i < hi THEN NoPage ELSE t[i]
         /\ Vals(Cleared(t, lo, hi)) = {t[i] : i \in {i \in Slot : ~(lo <= i /\ i < hi)}} \ {NoPage}
         /\ Once(t) => Once(Cleared(t, lo, hi))
<1> DEFINE r == Cleared(t, lo, hi)
<1>1. DOMAIN r = Slot /\ \A i \in Slot : r[i] = IF lo <= i /\ i < hi THEN NoPage ELSE t[i]
  BY DEF Cleared
<1>2. r \in [Slot -> Val]
  BY DEF Cleared, Val
<1> HIDE DEF r
<1>3. Vals(r) = {t[i] : i \in {i \in Slot : ~(lo <= i /\ i < hi)}} \ {NoPage}
  BY <1>1 DEF Vals
<1>4. Once(t) => Once(r)
  BY <1>1 DEF Once
<1>5. QED
  BY <1>1, <1>2, <1>3, <1>4 DEF r

\* One page more at the end, one less at the front.
LEMMA AppendFact ==
  ASSUME NEW V, NEW s \in Seq(V), NEW g \in V
  PROVE  /\ Append(s, g) \in Seq(V) /\ Len(Append(s, g)) = Len(s) + 1
         /\ \A i \in 1..Len(s) : Append(s, g)[i] = s[i]
         /\ Append(s, g)[Len(s) + 1] = g
         /\ Vals(Append(s, g)) = Vals(s) \cup ({g} \ {NoPage})
         /\ Once(s) /\ g \notin Vals(s) => Once(Append(s, g))
<1>1. Append(s, g) = s \o <<g>> /\ <<g>> \in Seq(V)
  OBVIOUS
<1>2. Vals(<<g>>) = {g} \ {NoPage} /\ Once(<<g>>)
  BY OneFact
<1>3. /\ Vals(s \o <<g>>) = Vals(s) \cup Vals(<<g>>)
      /\ Once(s \o <<g>>) <=> Once(s) /\ Once(<<g>>) /\ Vals(s) \cap Vals(<<g>>) = {}
  <2> DEFINE e == <<g>>
  <2>1. e \in Seq(V)
    BY <1>1
  <2> HIDE DEF e
  <2>2. /\ Vals(s \o e) = Vals(s) \cup Vals(e)
        /\ Once(s \o e) <=> Once(s) /\ Once(e) /\ Vals(s) \cap Vals(e) = {}
    BY <2>1, CatFact
  <2>3. QED
    BY <2>2 DEF e
<1>4. /\ Append(s, g) \in Seq(V) /\ Len(Append(s, g)) = Len(s) + 1
      /\ \A i \in 1..Len(s) : Append(s, g)[i] = s[i]
      /\ Append(s, g)[Len(s) + 1] = g
  OBVIOUS
<1>5. QED
  BY <1>1, <1>2, <1>3, <1>4

LEMMA TailFact ==
  ASSUME NEW V, NEW s \in Seq(V), s # << >>
  PROVE  /\ Head(s) \in V /\ Tail(s) \in Seq(V)
         /\ Vals(s) = ({Head(s)} \ {NoPage}) \cup Vals(Tail(s))
         /\ Once(s) => Once(Tail(s)) /\ (Head(s) # NoPage => Head(s) \notin Vals(Tail(s)))
<1>1. s = <<Head(s)>> \o Tail(s) /\ Head(s) \in V /\ Tail(s) \in Seq(V) /\ <<Head(s)>> \in Seq(V)
  OBVIOUS
<1>2. Vals(<<Head(s)>>) = {Head(s)} \ {NoPage}
  BY OneFact
<1> DEFINE h == <<Head(s)>>
           u == Tail(s)
<1>3. h \in Seq(V) /\ u \in Seq(V)
  BY <1>1
<1> HIDE DEF h, u
<1>4. /\ Vals(h \o u) = Vals(h) \cup Vals(u)
      /\ Once(h \o u) <=> Once(h) /\ Once(u) /\ Vals(h) \cap Vals(u) = {}
  BY <1>3, CatFact
<1>5. QED
  BY <1>1, <1>2, <1>4 DEF h, u

\* A set of slots that is not empty has a highest one.
LEMMA MaxFact ==
  ASSUME NEW S \in SUBSET (0..SlotMax), S # {}
  PROVE  Max(S) \in S /\ \A y \in S : y <= Max(S)
<1> DEFINE R == {SlotMax - s : s \in S}
<1>1. SlotMax \in Nat /\ \A s \in S : s \in Nat /\ s <= SlotMax
  BY Numbers
<1>2. R \in SUBSET Nat /\ R # {}
  <2>1. ASSUME NEW s \in S PROVE SlotMax - s \in Nat
    BY <1>1
  <2>2. QED
    BY <2>1
<1>3. Min(R) \in R /\ \A y \in R : Min(R) <= y
  BY <1>2, MinFact
<1> HIDE DEF R
<1>4. PICK x \in S : Min(R) = SlotMax - x
  BY <1>3 DEF R
<1>5. ASSUME NEW y \in S PROVE y <= x
  <2>1. SlotMax - x <= SlotMax - y
    BY <1>3, <1>4 DEF R
  <2>2. QED
    BY <1>1, <2>1
<1>6. QED
  BY <1>5 DEF Max

\* What execve holds, part after part.
Cat(h) == h.data \o h.text \o h.stack \o h.stage \o h.snap \o h.args

LEMMA HeldFact ==
  ASSUME NEW h \in [Parts -> Seq(Page)]
  PROVE  /\ Cat(h) \in Seq(Page)
         /\ Vals(Cat(h)) = UNION {Vals(h[f]) : f \in Parts}
         /\ Once(Cat(h)) <=> /\ \A f \in Parts : Once(h[f])
                             /\ \A f, g \in Parts : f # g => Vals(h[f]) \cap Vals(h[g]) = {}
<1>0. /\ h.data \in Seq(Page) /\ h.text \in Seq(Page) /\ h.stack \in Seq(Page)
      /\ h.stage \in Seq(Page) /\ h.snap \in Seq(Page) /\ h.args \in Seq(Page)
  BY DEF Parts
<1> DEFINE s1 == h.data \o h.text
           s2 == s1 \o h.stack
           s3 == s2 \o h.stage
           s4 == s3 \o h.snap
           s5 == s4 \o h.args
<1>1. /\ s1 \in Seq(Page) /\ Vals(s1) = Vals(h.data) \cup Vals(h.text)
      /\ Once(s1) <=> Once(h.data) /\ Once(h.text) /\ Vals(h.data) \cap Vals(h.text) = {}
  BY <1>0, CatFact
<1> HIDE DEF s1
<1>2. /\ s2 \in Seq(Page) /\ Vals(s2) = Vals(s1) \cup Vals(h.stack)
      /\ Once(s2) <=> Once(s1) /\ Once(h.stack) /\ Vals(s1) \cap Vals(h.stack) = {}
  BY <1>0, <1>1, CatFact
<1> HIDE DEF s2
<1>3. /\ s3 \in Seq(Page) /\ Vals(s3) = Vals(s2) \cup Vals(h.stage)
      /\ Once(s3) <=> Once(s2) /\ Once(h.stage) /\ Vals(s2) \cap Vals(h.stage) = {}
  BY <1>0, <1>2, CatFact
<1> HIDE DEF s3
<1>4. /\ s4 \in Seq(Page) /\ Vals(s4) = Vals(s3) \cup Vals(h.snap)
      /\ Once(s4) <=> Once(s3) /\ Once(h.snap) /\ Vals(s3) \cap Vals(h.snap) = {}
  BY <1>0, <1>3, CatFact
<1> HIDE DEF s4
<1>5. /\ s5 \in Seq(Page) /\ Vals(s5) = Vals(s4) \cup Vals(h.args)
      /\ Once(s5) <=> Once(s4) /\ Once(h.args) /\ Vals(s4) \cap Vals(h.args) = {}
  BY <1>0, <1>4, CatFact
<1> HIDE DEF s5
<1>6. Cat(h) = s5
  BY DEF Cat, s1, s2, s3, s4, s5
<1>7. Vals(s5) = Vals(h.data) \cup Vals(h.text) \cup Vals(h.stack) \cup Vals(h.stage)
                 \cup Vals(h.snap) \cup Vals(h.args)
  BY <1>1, <1>2, <1>3, <1>4, <1>5
<1>8. \A f \in Parts : \/ f = "data" \/ f = "text" \/ f = "stack" \/ f = "stage"
                       \/ f = "snap" \/ f = "args"
  BY DEF Parts
<1>9. /\ h["data"] = h.data /\ h["text"] = h.text /\ h["stack"] = h.stack
      /\ h["stage"] = h.stage /\ h["snap"] = h.snap /\ h["args"] = h.args
      /\ "data" \in Parts /\ "text" \in Parts /\ "stack" \in Parts
      /\ "stage" \in Parts /\ "snap" \in Parts /\ "args" \in Parts
  BY DEF Parts
<1>10. UNION {Vals(h[f]) : f \in Parts}
       = Vals(h.data) \cup Vals(h.text) \cup Vals(h.stack) \cup Vals(h.stage)
         \cup Vals(h.snap) \cup Vals(h.args)
  BY <1>8, <1>9
<1>11. ASSUME Once(s5) PROVE /\ \A f \in Parts : Once(h[f])
                             /\ \A f, g \in Parts : f # g => Vals(h[f]) \cap Vals(h[g]) = {}
  <2>1. \A f \in Parts : Once(h[f])
    BY <1>1, <1>2, <1>3, <1>4, <1>5, <1>8, <1>11
  <2>2. /\ Vals(h.data) \cap Vals(h.text) = {} /\ (Vals(h.data) \cup Vals(h.text)) \cap Vals(h.stack) = {}
        /\ (Vals(h.data) \cup Vals(h.text) \cup Vals(h.stack)) \cap Vals(h.stage) = {}
        /\ (Vals(h.data) \cup Vals(h.text) \cup Vals(h.stack) \cup Vals(h.stage)) \cap Vals(h.snap) = {}
        /\ (Vals(h.data) \cup Vals(h.text) \cup Vals(h.stack) \cup Vals(h.stage) \cup Vals(h.snap))
           \cap Vals(h.args) = {}
    BY <1>1, <1>2, <1>3, <1>4, <1>5, <1>11
  <2>3. ASSUME NEW f \in Parts, NEW g \in Parts, f # g, NEW x \in Vals(h[f]), x \in Vals(h[g])
        PROVE  FALSE
    BY <1>8, <2>2, <2>3
  <2>4. QED
    BY <2>1, <2>3
<1>12. ASSUME \A f \in Parts : Once(h[f]),
              \A f, g \in Parts : f # g => Vals(h[f]) \cap Vals(h[g]) = {}
       PROVE  Once(s5)
  <2>1. Once(s1)
    BY <1>1, <1>9, <1>12
  <2>2. Once(s2)
    BY <1>1, <1>2, <1>9, <1>12, <2>1
  <2>3. Once(s3)
    BY <1>1, <1>2, <1>3, <1>9, <1>12, <2>2
  <2>4. Once(s4)
    BY <1>1, <1>2, <1>3, <1>4, <1>9, <1>12, <2>3
  <2>5. QED
    BY <1>1, <1>2, <1>3, <1>4, <1>5, <1>9, <1>12, <2>4
<1>13. QED
  BY <1>5, <1>6, <1>7, <1>10, <1>11, <1>12

-----------------------------------------------------------------------------
(* The invariant *)

\* The stack of p, when it is not its vfork parent's.
OwnStack(p) ==
  IF vparent[p] # NULL /\ stack[p] = stack[vparent[p]] THEN NoPage ELSE stack[p]

\* The pages p will free: those of its image, and those a call has in its hands.
InImage(p) == Vals(OwnTable(p)) \cup Vals(<<OwnStack(p)>>) \cup Vals(text[p])
InCall(p) == Vals(Held(p)) \cup Vals(claim[p].got) \cup Vals(drop[p])
Mine(p) == InImage(p) \cup InCall(p)

ClaimType == [at : Nat, n : Nat, slot : Nat, got : Seq(Page)]

Typed ==
  /\ table \in [Proc -> [Slot -> Val]] /\ stack \in [Proc -> Val] /\ text \in [Proc -> Seq(Page)]
  /\ brk \in [Proc -> [base : Nat, cur : Nat]]
  /\ vparent \in [Proc -> Proc \cup {NULL}]
  /\ life \in [Proc -> {"free", "run", "vfork"}]
  /\ hold \in [Proc -> [Parts -> Seq(Page)]]
  /\ claim \in [Proc -> ClaimType]
  /\ drop \in [Proc -> Seq(Val)]
  /\ maps \in [Proc -> SUBSET BlockType]

\* No process has a page twice.
Apart(p) ==
  /\ Once(OwnTable(p)) /\ Once(text[p])
  /\ Once(Held(p)) /\ Once(claim[p].got) /\ Once(drop[p])
  /\ Vals(OwnTable(p)) \cap Vals(text[p]) = {}
  /\ Vals(<<OwnStack(p)>>) \cap (Vals(OwnTable(p)) \cup Vals(text[p])) = {}
  /\ InImage(p) \cap InCall(p) = {}

\* A page is free or has one owner.
OneOwner ==
  /\ \A p, q \in Proc : p # q => Mine(p) \cap Mine(q) = {}
  /\ \A p \in Proc : Mine(p) \cap FreePages(pool) = {}
  /\ \A g \in Page : g \in FreePages(pool) \/ \E p \in Proc : g \in Mine(p)

\* What a process has in its hands at each point.
Phase(p) ==
  /\ pc[p] \notin Loading => hold[p] = NoHold
  /\ pc[p] \notin {"grow", "claim"} => claim[p] = NoClaim
  /\ pc[p] \in Loading \cup {"grow", "claim"} => drop[p] = << >>
  /\ life[p] = "vfork" => pc[p] = "user" /\ drop[p] = << >>
  /\ life[p] = "free" => pc[p] = "user" /\ drop[p] = << >> /\ vparent[p] = NULL
  /\ life[p] = "free" \/ pc[p] = "exit" =>
        table[p] = EmptyTable /\ text[p] = << >> /\ stack[p] = NoPage
  /\ life[p] = "free" \/ pc[p] \in {"exit", "commit"} => maps[p] = {}
  /\ vparent[p] # NULL /\ pc[p] \notin {"exit", "commit"} =>
        text[p] = << >> /\ stack[p] = stack[vparent[p]]
  /\ pc[p] \in {"exit", "commit"} => OwnTable(p) = table[p] /\ OwnStack(p) = stack[p]

\* How far an execve has come.
Stages(p) ==
  LET h == hold[p]
  IN  /\ pc[p] = "snap" => h.snap = << >>
      /\ pc[p] \in {"snap", "stage"} => h.stage = << >>
      /\ pc[p] \in {"snap", "stage", "stack"} => h.stack = << >>
      /\ pc[p] \in {"snap", "stage", "stack", "text"} => h.text = << >>
      /\ pc[p] \in {"snap", "stage", "stack", "text", "data"} => h.data = << >>
      /\ pc[p] \in {"text", "data", "reloc"} => Len(h.stack) = 1
      /\ pc[p] = "reloc" => /\ 1 <= Len(h.data) /\ Len(h.data) <= SlotMax
                            /\ \A i \in 1..Len(h.data) : h.data[i] = h.data[1] + (i - 1)

\* The ancestors of a vfork child are asleep, and a page of its table or its
\* stack that is not its own is that of one of them, in the same slot.
Ancestry(anc) ==
  /\ \A p \in Proc : anc[p] = IF vparent[p] = NULL THEN {}
                              ELSE {vparent[p]} \cup anc[vparent[p]]
  /\ \A p \in Proc : \A q \in anc[p] : life[q] = "vfork"
  /\ \A p, q \in Proc : vparent[p] # NULL /\ vparent[p] \in anc[q] => p = q \/ p \in anc[q]
  /\ \A p \in Proc : \A i \in Slot :
       table[p][i] = NoPage \/ \E q \in anc[p] \cup {p} : OwnTable(q)[i] = table[p][i]
  /\ \A p \in Proc : stack[p] = NoPage \/ \E q \in anc[p] \cup {p} : OwnStack(q) = stack[p]

\* p is on its own, or will be when it has freed its old image.
Settled(p) == /\ life[p] # "free" /\ pc[p] # "exit"
              /\ vparent[p] = NULL \/ pc[p] = "commit"

\* Data and heap: consecutive pages in the first slots, up to the break.
Heap(p) ==
  Settled(p) =>
    LET first == table[p][0]
    IN  /\ first \in Page /\ first < brk[p].base /\ brk[p].base <= brk[p].cur
        /\ brk[p].cur - first <= SlotMax
        /\ \A i \in 0..(brk[p].cur - first - 1) : table[p][i] = first + i

\* Mapping m is in the own slots from s on, above the heap.
LiesAt(p, m, s) ==
  /\ \A k \in 0..(m.pages - 1) : s + k \in Slot /\ OwnTable(p)[s + k] = m.base + k
  /\ Settled(p) => brk[p].cur - table[p][0] <= s

Mappings(p) ==
  /\ \A m \in maps[p] : \E s \in Slot : LiesAt(p, m, s)
  /\ \A m1, m2 \in maps[p] : m1 = m2 \/ PagesOf(m1) \cap PagesOf(m2) = {}

\* How far a growing heap has come: up to the slot claimed next, and no mapping
\* below that.
Growing(p) ==
  LET c == claim[p]
      first == table[p][0]
  IN  /\ vparent[p] = NULL /\ c.got = << >> /\ c.slot + c.n <= SlotMax
      /\ brk[p].cur - first <= c.slot /\ c.at = first + c.slot
      /\ \A i \in 0..(c.slot - 1) : table[p][i] = first + i
      /\ \A m \in maps[p] : \E s \in Slot : c.slot <= s /\ LiesAt(p, m, s)

\* What brk or MAP_FIXED is taking, and for which slots.
Claiming(p) ==
  LET c == claim[p]
  IN  /\ pc[p] = "grow" => Growing(p)
      /\ pc[p] = "claim" =>
           /\ c.n > 0 /\ c.slot + c.n <= SlotMax /\ Len(c.got) <= c.n
           /\ \A i \in 1..Len(c.got) : c.got[i] = c.at + (i - 1)
           /\ \A i \in Slot : c.slot <= i /\ i < c.slot + c.n => table[p][i] = NoPage

Kept(p) == Apart(p) /\ Phase(p) /\ Stages(p) /\ Heap(p) /\ Mappings(p) /\ Claiming(p)

Sane == /\ Typed /\ OneOwner
        /\ \E anc \in [Proc -> SUBSET Proc] : Ancestry(anc)
        /\ \A p \in Proc : Kept(p)

\* Once a table is overwritten nothing is claimed, and nothing more happens.
OInv == wild \/ Sane

-----------------------------------------------------------------------------
(* What the invariant says of one process *)

LEMMA OwnFact ==
  ASSUME Typed, NEW p \in Proc
  PROVE  /\ OwnTable(p) \in [Slot -> Val] /\ OwnStack(p) \in Val
         /\ \A i \in Slot : OwnTable(p)[i] = NoPage \/ OwnTable(p)[i] = table[p][i]
         /\ vparent[p] = NULL => OwnTable(p) = table[p] /\ OwnStack(p) = stack[p]
         /\ vparent[p] # NULL => vparent[p] \in Proc
  BY DEF Typed, OwnTable, OwnStack, Val

\* The own slots of a process are those its vfork parent does not have.
LEMMA OwnSlot ==
  ASSUME Typed, NEW p \in Proc, NEW i \in Slot
  PROVE  OwnTable(p)[i] = IF vparent[p] # NULL /\ table[p][i] = table[vparent[p]][i]
                          THEN NoPage ELSE table[p][i]
  BY DEF Typed, OwnTable

LEMMA MineInPool ==
  ASSUME Typed, NEW p \in Proc
  PROVE  Mine(p) \subseteq Page
<1>1. Vals(OwnTable(p)) \subseteq Page /\ Vals(<<OwnStack(p)>>) \subseteq Page
  <2>1. OwnTable(p) \in [Slot -> Val] /\ OwnStack(p) \in Val
    BY OwnFact
  <2>2. Vals(<<OwnStack(p)>>) = {OwnStack(p)} \ {NoPage}
    BY OneFact
  <2>3. QED
    BY <2>1, <2>2 DEF Vals, Val
<1>2. text[p] \in Seq(Page) /\ claim[p].got \in Seq(Page) /\ drop[p] \in Seq(Val)
  BY DEF Typed, ClaimType
<1>3. Held(p) \in Seq(Page)
  BY HeldFact DEF Typed, Held, Cat
<1>4. ASSUME NEW V, NEW s \in Seq(V) PROVE Vals(s) \subseteq V \ {NoPage}
  BY DEF Vals
<1>5. Val \ {NoPage} \subseteq Page
  BY DEF Val
<1>6. QED
  BY <1>1, <1>2, <1>3, <1>4, <1>5 DEF Mine, InImage, InCall

\* A process that runs is nobody's sleeping parent.
LEMMA RunsAlone ==
  ASSUME Typed, NEW anc \in [Proc -> SUBSET Proc], Ancestry(anc), NEW p \in Proc, life[p] = "run"
  PROVE  \A q \in Proc : vparent[q] # p /\ p \notin anc[q]
<1>1. ASSUME NEW q \in Proc PROVE p \notin anc[q]
  BY DEF Ancestry
<1>2. ASSUME NEW q \in Proc, vparent[q] = p PROVE FALSE
  <2>1. vparent[q] # NULL
    BY <1>2, MemoryAssumption
  <2>2. p \in anc[q]
    BY <1>2, <2>1 DEF Ancestry
  <2>3. QED
    BY <1>1, <2>2
<1>3. QED
  BY <1>1, <1>2

\* The tables above a running process have none of its own pages, and no free
\* ones.
LEMMA NotAbove ==
  ASSUME Sane, NEW p \in Proc, life[p] = "run", vparent[p] # NULL,
         NEW g \in Mine(p) \cup FreePages(pool), g # NoPage
  PROVE  /\ stack[vparent[p]] # g
         /\ \A i \in Slot : table[vparent[p]][i] # g
<1> DEFINE u == vparent[p]
<1>1. PICK anc \in [Proc -> SUBSET Proc] : Ancestry(anc)
  BY DEF Sane
<1>2. Typed /\ OneOwner
  BY DEF Sane
<1>3. u \in Proc /\ anc[p] = {u} \cup anc[u]
  BY <1>1, <1>2, OwnFact DEF Ancestry
<1>4. ASSUME NEW r \in anc[u] \cup {u} PROVE r \in Proc /\ r # p /\ g \notin Mine(r)
  <2>1. r \in anc[p] /\ r \in Proc
    BY <1>3
  <2>2. r # p
    BY <1>1, <1>2, <2>1, RunsAlone
  <2>3. QED
    BY <1>2, <2>1, <2>2 DEF OneOwner
<1>5. ASSUME NEW i \in Slot, table[u][i] = g PROVE FALSE
  <2>1. PICK r \in anc[u] \cup {u} : OwnTable(r)[i] = g
    BY <1>1, <1>3, <1>5 DEF Ancestry
  <2>2. DOMAIN OwnTable(r) = Slot
    BY <1>2, <1>4, OwnFact
  <2>3. g \in Mine(r)
    BY <2>1, <2>2 DEF Mine, InImage, Vals
  <2>4. QED
    BY <1>4, <2>3
<1>6. ASSUME stack[u] = g PROVE FALSE
  <2>1. PICK r \in anc[u] \cup {u} : OwnStack(r) = g
    BY <1>1, <1>3, <1>6 DEF Ancestry
  <2>2. Vals(<<OwnStack(r)>>) = {g}
    BY <2>1, OneFact
  <2>3. g \in Mine(r)
    BY <2>2 DEF Mine, InImage
  <2>4. QED
    BY <1>4, <2>3
<1>7. QED
  BY <1>5, <1>6

\* So a slot of its table that has an own page is an own slot.
LEMMA OwnEverywhere ==
  ASSUME Sane, NEW p \in Proc, life[p] = "run", NEW i \in Slot,
         table[p][i] \in Mine(p), table[p][i] # NoPage
  PROVE  OwnTable(p)[i] = table[p][i]
<1>1. vparent[p] # NULL => table[vparent[p]][i] # table[p][i]
  BY NotAbove
<1>2. QED
  BY <1>1, OwnSlot DEF Sane

-----------------------------------------------------------------------------
(* A step of one process, while the others stand still *)

Only(p) ==
  \A q \in Proc \ {p} :
    /\ table'[q] = table[q] /\ brk'[q] = brk[q] /\ stack'[q] = stack[q] /\ text'[q] = text[q]
    /\ pc'[q] = pc[q] /\ hold'[q] = hold[q] /\ claim'[q] = claim[q] /\ drop'[q] = drop[q]
    /\ maps'[q] = maps[q]

\* q is left alone, or falls asleep or wakes between two calls.
LifeKept(q) ==
  \/ life'[q] = life[q]
  \/ /\ life[q] # "free" /\ life'[q] # "free"
     /\ life'[q] = "vfork" => pc[q] = "user" /\ drop[q] = << >>

LEMMA OthersKept ==
  ASSUME Typed, NEW q \in Proc, Kept(q),
         vparent'[q] = vparent[q], LifeKept(q),
         table'[q] = table[q], brk'[q] = brk[q], stack'[q] = stack[q], text'[q] = text[q],
         pc'[q] = pc[q], hold'[q] = hold[q], claim'[q] = claim[q], drop'[q] = drop[q],
         maps'[q] = maps[q],
         vparent[q] # NULL => /\ table'[vparent[q]] = table[vparent[q]]
                              /\ stack'[vparent[q]] = stack[vparent[q]]
  PROVE  /\ OwnTable(q)' = OwnTable(q) /\ OwnStack(q)' = OwnStack(q)
         /\ Mine(q)' = Mine(q) /\ Kept(q)'
<1>1. OwnTable(q)' = OwnTable(q)
  BY DEF OwnTable
<1>2. OwnStack(q)' = OwnStack(q)
  BY DEF OwnStack
<1>3. Held(q)' = Held(q)
  BY DEF Held
<1>4. InImage(q)' = InImage(q) /\ InCall(q)' = InCall(q)
  BY <1>1, <1>2, <1>3 DEF InImage, InCall
<1>5. Apart(q)'
  BY <1>1, <1>2, <1>3, <1>4 DEF Apart, Kept
<1>6. Phase(q)'
  BY <1>1, <1>2 DEF Phase, Kept, LifeKept
<1>7. Stages(q)'
  BY DEF Stages, Kept
<1>8. Settled(q)' <=> Settled(q)
  BY DEF Settled, LifeKept
<1>9. Heap(q)'
  BY <1>8 DEF Heap, Kept
<1>10. \A m, s : LiesAt(q, m, s)' <=> LiesAt(q, m, s)
  BY <1>1, <1>8 DEF LiesAt
<1>11. Mappings(q)'
  BY <1>10 DEF Mappings, Kept
<1>12. Claiming(q)'
  BY <1>10 DEF Claiming, Growing, Kept
<1>13. QED
  BY <1>1, <1>2, <1>4, <1>5, <1>6, <1>7, <1>9, <1>11, <1>12 DEF Mine, Kept

\* What a step of p has to show: it neither loses nor doubles a page, and what
\* is new in its table is its own.
LEMMA StepKept ==
  ASSUME Sane, NEW p \in Proc, life[p] = "run", UNCHANGED <<vparent, life>>, Only(p), Typed',
         Mine(p)' \cap FreePages(pool') = {},
         Mine(p)' \cup FreePages(pool') = Mine(p) \cup FreePages(pool),
         \A i \in Slot : \/ table'[p][i] \in {NoPage, table[p][i]}
                         \/ OwnTable(p)'[i] = table'[p][i],
         stack'[p] \in {NoPage, stack[p]} \/ OwnStack(p)' = stack'[p],
         Kept(p)'
  PROVE  Sane'
<1>1. PICK anc \in [Proc -> SUBSET Proc] : Ancestry(anc)
  BY DEF Sane
<1>2. Typed /\ OneOwner /\ \A q \in Proc : Kept(q)
  BY DEF Sane
<1>3. \A q \in Proc : vparent[q] # p /\ p \notin anc[q] /\ (vparent[q] # NULL => vparent[q] \in Proc)
  BY <1>1, <1>2, RunsAlone, OwnFact
<1>4. ASSUME NEW q \in Proc \ {p}
      PROVE  /\ OwnTable(q)' = OwnTable(q) /\ OwnStack(q)' = OwnStack(q)
             /\ Mine(q)' = Mine(q) /\ Kept(q)'
  <2>1. /\ table'[q] = table[q] /\ brk'[q] = brk[q] /\ stack'[q] = stack[q] /\ text'[q] = text[q]
        /\ pc'[q] = pc[q] /\ hold'[q] = hold[q] /\ claim'[q] = claim[q] /\ drop'[q] = drop[q]
        /\ maps'[q] = maps[q] /\ vparent'[q] = vparent[q] /\ LifeKept(q)
    BY DEF Only, LifeKept
  <2>2. vparent[q] # NULL => /\ table'[vparent[q]] = table[vparent[q]]
                             /\ stack'[vparent[q]] = stack[vparent[q]]
    BY <1>3 DEF Only
  <2>3. QED
    BY <1>2, <2>1, <2>2, OthersKept
<1>5. OneOwner'
  <2>1. ASSUME NEW q \in Proc, NEW r \in Proc, q # r PROVE Mine(q)' \cap Mine(r)' = {}
    <3>1. ASSUME NEW s \in Proc \ {p} PROVE Mine(s)' \cap Mine(p)' = {}
      BY <1>2, <1>4 DEF OneOwner
    <3>2. CASE q = p
      BY <2>1, <3>1, <3>2
    <3>3. CASE r = p
      BY <2>1, <3>1, <3>3
    <3>4. CASE q # p /\ r # p
      BY <1>2, <1>4, <2>1, <3>4 DEF OneOwner
    <3>5. QED
      BY <3>2, <3>3, <3>4
  <2>2. ASSUME NEW q \in Proc PROVE Mine(q)' \cap FreePages(pool') = {}
    <3>1. CASE q = p
      BY <3>1
    <3>2. CASE q # p
      BY <1>2, <1>4, <3>2 DEF OneOwner
    <3>3. QED
      BY <3>1, <3>2
  <2>3. ASSUME NEW g \in Page PROVE g \in FreePages(pool') \/ \E q \in Proc : g \in Mine(q)'
    <3>1. g \in FreePages(pool) \/ \E q \in Proc : g \in Mine(q)
      BY <1>2 DEF OneOwner
    <3>2. QED
      BY <1>4, <3>1
  <2>4. QED
    BY <2>1, <2>2, <2>3 DEF OneOwner
<1>6. Ancestry(anc)'
  <2>1. /\ \A q \in Proc : anc[q] = IF vparent'[q] = NULL THEN {}
                                    ELSE {vparent'[q]} \cup anc[vparent'[q]]
        /\ \A q \in Proc : \A r \in anc[q] : life'[r] = "vfork"
        /\ \A q, r \in Proc : vparent'[q] # NULL /\ vparent'[q] \in anc[r] => q = r \/ q \in anc[r]
    BY <1>1 DEF Ancestry
  <2>2. ASSUME NEW q \in Proc, NEW i \in Slot
        PROVE  table'[q][i] = NoPage \/ \E r \in anc[q] \cup {q} : OwnTable(r)'[i] = table'[q][i]
    <3>1. table[q][i] = NoPage \/ \E r \in anc[q] \cup {q} : OwnTable(r)[i] = table[q][i]
      BY <1>1 DEF Ancestry
    <3>2. CASE q # p
      <4>1. table'[q] = table[q]
        BY <3>2 DEF Only
      <4>2. \A r \in anc[q] \cup {q} : r \in Proc \ {p}
        BY <1>3, <3>2
      <4>3. QED
        BY <1>4, <3>1, <4>1, <4>2
    <3>3. CASE q = p /\ table'[p][i] = table[p][i] /\ table[p][i] # NoPage
      <4>1. PICK r \in anc[p] \cup {p} : OwnTable(r)[i] = table[p][i]
        BY <3>1, <3>3
      <4>2. CASE r # p
        <5>1. OwnTable(r)' = OwnTable(r)
          BY <1>4, <4>2
        <5>2. QED
          BY <3>3, <4>1, <5>1
      <4>3. CASE r = p
        <5>1. vparent[p] # NULL => table[vparent[p]][i] # table[p][i]
          BY <1>2, <3>3, <4>1, <4>3, OwnSlot
        <5>2. vparent[p] # NULL => table'[vparent[p]] = table[vparent[p]]
          BY <1>3 DEF Only
        <5>3. OwnTable(p)'[i] = table'[p][i]
          BY <3>3, <5>1, <5>2 DEF OwnTable, Typed
        <5>4. QED
          BY <3>3, <5>3
      <4>4. QED
        BY <4>2, <4>3
    <3>4. QED
      BY <3>2, <3>3
  <2>3. ASSUME NEW q \in Proc
        PROVE  stack'[q] = NoPage \/ \E r \in anc[q] \cup {q} : OwnStack(r)' = stack'[q]
    <3>1. stack[q] = NoPage \/ \E r \in anc[q] \cup {q} : OwnStack(r) = stack[q]
      BY <1>1 DEF Ancestry
    <3>2. CASE q # p
      <4>1. stack'[q] = stack[q]
        BY <3>2 DEF Only
      <4>2. \A r \in anc[q] \cup {q} : r \in Proc \ {p}
        BY <1>3, <3>2
      <4>3. QED
        BY <1>4, <3>1, <4>1, <4>2
    <3>3. CASE q = p /\ stack'[p] = stack[p] /\ stack[p] # NoPage
      <4>1. PICK r \in anc[p] \cup {p} : OwnStack(r) = stack[p]
        BY <3>1, <3>3
      <4>2. CASE r # p
        <5>1. OwnStack(r)' = OwnStack(r)
          BY <1>4, <4>2
        <5>2. QED
          BY <3>3, <4>1, <5>1
      <4>3. CASE r = p
        <5>1. vparent[p] # NULL => stack'[vparent[p]] = stack[vparent[p]]
          BY <1>3 DEF Only
        <5>2. OwnStack(p)' = stack'[p]
          BY <3>3, <4>1, <4>3, <5>1 DEF OwnStack
        <5>3. QED
          BY <3>3, <5>2
      <4>4. QED
        BY <4>2, <4>3
    <3>4. QED
      BY <3>2, <3>3
  <2>4. QED
    BY <2>1, <2>2, <2>3 DEF Ancestry
<1>7. QED
  BY <1>4, <1>5, <1>6 DEF Sane

\* A step that leaves the image alone and moves pages between the free list and
\* the hands of the call.
LEMMA HandStep ==
  ASSUME Sane, NEW p \in Proc, life[p] = "run",
         UNCHANGED <<table, brk, stack, text, vparent, life, maps>>, Only(p),
         pc'[p] = pc[p] \/ (pc[p] \notin {"exit", "commit"} /\ pc'[p] \notin {"exit", "commit"}),
         hold' \in [Proc -> [Parts -> Seq(Page)]], claim' \in [Proc -> ClaimType],
         drop' \in [Proc -> Seq(Val)],
         Once(Held(p)'), Once(claim'[p].got), Once(drop'[p]),
         InCall(p)' \cap FreePages(pool') = {},
         InCall(p)' \cup FreePages(pool') = InCall(p) \cup FreePages(pool),
         pc'[p] \notin Loading => hold'[p] = NoHold,
         pc'[p] \notin {"grow", "claim"} => claim'[p] = NoClaim,
         pc'[p] \in Loading \cup {"grow", "claim"} => drop'[p] = << >>,
         Stages(p)', Claiming(p)'
  PROVE  Sane'
<1>1. Typed /\ OneOwner /\ Kept(p)
  BY DEF Sane
<1>2. OwnTable(p)' = OwnTable(p) /\ OwnStack(p)' = OwnStack(p) /\ InImage(p)' = InImage(p)
  BY DEF OwnTable, OwnStack, InImage
<1>3. Typed'
  BY <1>1 DEF Typed
<1>4. Mine(p) \cap FreePages(pool) = {} /\ InImage(p) \cap InCall(p) = {}
  BY <1>1 DEF OneOwner, Kept, Apart
<1>5. /\ Mine(p)' \cap FreePages(pool') = {}
      /\ Mine(p)' \cup FreePages(pool') = Mine(p) \cup FreePages(pool)
      /\ InImage(p)' \cap InCall(p)' = {}
  BY <1>2, <1>4 DEF Mine
<1>6. Apart(p)'
  BY <1>1, <1>2, <1>5 DEF Apart, Kept
<1>7. Phase(p)'
  <2>1. Phase(p)
    BY <1>1 DEF Kept
  <2>2. pc'[p] \in {"exit", "commit"} => pc'[p] = pc[p]
    OBVIOUS
  <2>3. QED
    BY <1>2, <2>1, <2>2 DEF Phase
<1>8. Settled(p)' <=> Settled(p)
  BY DEF Settled
<1>9. Heap(p)'
  BY <1>1, <1>8 DEF Heap, Kept
<1>10. \A m, s : LiesAt(p, m, s)' <=> LiesAt(p, m, s)
  BY <1>2, <1>8 DEF LiesAt
<1>11. Mappings(p)'
  BY <1>1, <1>10 DEF Mappings, Kept
<1>12. Kept(p)'
  BY <1>6, <1>7, <1>9, <1>11 DEF Kept
<1>13. (\A i \in Slot : table'[p][i] = table[p][i]) /\ stack'[p] = stack[p]
  OBVIOUS
<1>14. QED
  BY <1>3, <1>5, <1>12, <1>13, StepKept

\* Nothing held, nothing claimed.
LEMMA NothingHeld ==
  /\ NoHold \in [Parts -> Seq(Page)] /\ Vals(Cat(NoHold)) = {} /\ Once(Cat(NoHold))
  /\ NoClaim \in ClaimType /\ NoClaim.got = << >>
<1>1. NoHold \in [Parts -> Seq(Page)] /\ \A f \in Parts : NoHold[f] = << >>
  BY DEF NoHold
<1>2. Vals(<< >>) = {} /\ Once(<< >>)
  BY EmptyFact
<1>3. NoClaim \in ClaimType /\ NoClaim.got = << >>
  BY DEF NoClaim, ClaimType
<1>4. /\ Vals(Cat(NoHold)) = UNION {Vals(NoHold[f]) : f \in Parts}
      /\ Once(Cat(NoHold)) <=> /\ \A f \in Parts : Once(NoHold[f])
                               /\ \A f, g \in Parts : f # g => Vals(NoHold[f]) \cap Vals(NoHold[g]) = {}
  BY <1>1, HeldFact
<1>5. QED
  BY <1>1, <1>2, <1>3, <1>4

\* A process is between calls: it has nothing in its hands.
LEMMA AtUser ==
  ASSUME Sane, NEW p \in Proc, At(p, "user")
  PROVE  /\ life[p] = "run" /\ pc[p] = "user" /\ drop[p] = << >>
         /\ hold[p] = NoHold /\ claim[p] = NoClaim /\ InCall(p) = {}
<1>1. /\ life[p] = "run" /\ pc[p] = "user" /\ drop[p] = << >>
      /\ hold[p] = NoHold /\ claim[p] = NoClaim
  BY DEF At, Sane, Kept, Phase, Loading
<1>2. Vals(Held(p)) = {} /\ Vals(claim[p].got) = {} /\ Vals(drop[p]) = {}
  BY <1>1, NothingHeld, EmptyFact DEF Held, Cat
<1>3. QED
  BY <1>1, <1>2 DEF InCall

\* An execve under way has only what it holds.
LEMMA AtLoading ==
  ASSUME Sane, NEW p \in Proc, NEW point \in Loading, At(p, point)
  PROVE  /\ life[p] = "run" /\ pc[p] = point /\ drop[p] = << >> /\ claim[p] = NoClaim
         /\ hold[p] \in [Parts -> Seq(Page)] /\ InCall(p) = Vals(Cat(hold[p])) /\ Once(Cat(hold[p]))
<1>1. life[p] = "run" /\ pc[p] = point /\ drop[p] = << >> /\ claim[p] = NoClaim
  BY DEF At, Sane, Kept, Phase, Loading
<1>2. Vals(claim[p].got) = {} /\ Vals(drop[p]) = {}
  BY <1>1, NothingHeld, EmptyFact
<1>3. Held(p) = Cat(hold[p]) /\ Once(Held(p)) /\ hold[p] \in [Parts -> Seq(Page)]
  BY DEF Held, Cat, Sane, Kept, Apart, Typed
<1>4. QED
  BY <1>1, <1>2, <1>3 DEF InCall

-----------------------------------------------------------------------------
(* execve *)

\* It gives up: what it held is to be freed.
LEMMA FailStep ==
  ASSUME IInv, Sane, NEW p \in Proc, NEW point \in Loading, At(p, point), Fail(p),
         UNCHANGED <<pool, table, brk, stack, text, vparent, life, maps, claim>>
  PROVE  Sane'
<1>1. /\ life[p] = "run" /\ pc[p] = point /\ drop[p] = << >> /\ claim[p] = NoClaim
      /\ hold[p] \in [Parts -> Seq(Page)] /\ InCall(p) = Vals(Cat(hold[p])) /\ Once(Cat(hold[p]))
  BY AtLoading
<1>2. Typed /\ OneOwner /\ pc \in [Proc -> Loading \cup {"user", "grow", "claim", "commit", "exit"}]
  BY DEF Sane, IInv
<1>3. /\ hold' = [hold EXCEPT ![p] = NoHold] /\ drop' = [drop EXCEPT ![p] = Cat(hold[p])]
      /\ pc' = [pc EXCEPT ![p] = "user"]
  BY DEF Fail, FreeThen, Goto, Held, Cat
<1>4. Cat(hold[p]) \in Seq(Page) /\ Seq(Page) \subseteq Seq(Val)
  BY <1>1, HeldFact DEF Val
<1>5. /\ hold' \in [Proc -> [Parts -> Seq(Page)]] /\ claim' \in [Proc -> ClaimType]
      /\ drop' \in [Proc -> Seq(Val)]
      /\ hold'[p] = NoHold /\ drop'[p] = Cat(hold[p]) /\ pc'[p] = "user" /\ claim'[p] = NoClaim
  BY <1>1, <1>2, <1>3, <1>4, NothingHeld DEF Typed
<1>6. Only(p)
  BY <1>2, <1>3 DEF Only, Typed
<1>7. /\ Vals(Held(p)') = {} /\ Once(Held(p)') /\ Vals(claim'[p].got) = {} /\ Once(claim'[p].got)
  BY <1>5, NothingHeld, EmptyFact DEF Held, Cat
<1>8. InCall(p)' = InCall(p)
  BY <1>1, <1>5, <1>7 DEF InCall
<1>9. InCall(p) \cap FreePages(pool) = {}
  BY <1>2 DEF OneOwner, Mine
<1>10. Stages(p)' /\ Claiming(p)'
  BY <1>5 DEF Stages, Claiming
<1>11. pc[p] \notin {"exit", "commit"} /\ pc'[p] \notin {"exit", "commit"} /\ pc'[p] \notin Loading
  BY <1>1, <1>5 DEF Loading
<1>12. QED
  BY <1>1, <1>5, <1>6, <1>7, <1>8, <1>9, <1>10, <1>11, HandStep

\* It takes n pages for a part of the new image.
Takes(p, part, n, next) ==
  /\ TakeN(pool, n).page # NoPage /\ pool' = TakeN(pool, n).pool
  /\ hold' = [hold EXCEPT ![p][part] = Run(TakeN(pool, n).page, n)]
  /\ pc' = [pc EXCEPT ![p] = next]
  /\ UNCHANGED <<table, brk, stack, text, vparent, life, maps, claim, drop>>

LEMMA TakeStep ==
  ASSUME IInv, Sane, NEW p \in Proc, life[p] = "run", drop[p] = << >>, claim[p] = NoClaim,
         pc[p] \notin {"exit", "commit"}, InCall(p) = Vals(Cat(hold[p])), Once(Cat(hold[p])),
         NEW part \in Parts, hold[p][part] = << >>, NEW n \in Nat \ {0}, NEW next \in Loading,
         Takes(p, part, n, next), Stages(p)'
  PROVE  Sane'
<1> USE DEF Takes
<1> DEFINE g == TakeN(pool, n).page
           r == Run(g, n)
           h == hold[p]
<1>1. Typed /\ OneOwner /\ pc \in [Proc -> Loading \cup {"user", "grow", "claim", "commit", "exit"}]
  BY DEF Sane, IInv
<1>2. /\ g \in Page /\ g + n <= PageCount + 1 /\ Span(g, n) \subseteq FreePages(pool)
      /\ FreePages(pool') = FreePages(pool) \ Span(g, n)
  BY TakeNCorrect DEF IInv
<1> HIDE DEF g
<1>3. r \in Seq(Page) /\ Vals(r) = Span(g, n) /\ Once(r)
  BY <1>2, RunFact
<1> HIDE DEF r
<1>4. hold' = [hold EXCEPT ![p][part] = r] /\ h \in [Parts -> Seq(Page)]
  BY <1>1 DEF Typed, r, g
<1>5. /\ hold' \in [Proc -> [Parts -> Seq(Page)]] /\ hold'[p] = [h EXCEPT ![part] = r]
      /\ \A q \in Proc \ {p} : hold'[q] = hold[q]
  <2>1. hold \in [Proc -> [Parts -> Seq(Page)]]
    BY <1>1 DEF Typed
  <2>2. hold' = [hold EXCEPT ![p] = [h EXCEPT ![part] = r]]
    BY <1>4
  <2>3. [h EXCEPT ![part] = r] \in [Parts -> Seq(Page)]
    BY <1>3, <1>4
  <2>4. QED
    BY <2>1, <2>2, <2>3
<1> HIDE DEF h
<1> DEFINE k == hold'[p]
<1>6. k \in [Parts -> Seq(Page)] /\ k[part] = r /\ \A f \in Parts \ {part} : k[f] = h[f]
  BY <1>3, <1>4, <1>5
<1> HIDE DEF k
<1>7. h[part] = << >> /\ Vals(h[part]) = {}
  BY EmptyFact DEF h
<1>8. InCall(p) \cap FreePages(pool) = {} /\ InCall(p) = Vals(Cat(h)) /\ Once(Cat(h))
  BY <1>1 DEF OneOwner, Mine, h
<1>9. /\ Vals(Cat(h)) = UNION {Vals(h[f]) : f \in Parts}
      /\ \A f \in Parts : Once(h[f])
      /\ \A f, e \in Parts : f # e => Vals(h[f]) \cap Vals(h[e]) = {}
  BY <1>4, <1>8, HeldFact
<1>10. \A f \in Parts : Vals(h[f]) \cap Span(g, n) = {}
  BY <1>2, <1>8, <1>9
<1>11. Vals(Cat(k)) = Vals(Cat(h)) \cup Span(g, n)
  <2>1. Vals(Cat(k)) = UNION {Vals(k[f]) : f \in Parts}
    BY <1>6, HeldFact
  <2>2. QED
    <3>1. \A f \in Parts : Vals(k[f]) = IF f = part THEN Span(g, n) ELSE Vals(h[f])
      BY <1>3, <1>6
    <3>2. ASSUME NEW x \in Vals(Cat(k)) PROVE x \in Vals(Cat(h)) \cup Span(g, n)
      BY <1>9, <2>1, <3>1
    <3>3. Span(g, n) \subseteq Vals(Cat(k))
      BY <2>1, <3>1
    <3>4. ASSUME NEW x \in Vals(Cat(h)) PROVE x \in Vals(Cat(k))
      BY <1>7, <1>9, <2>1, <3>1
    <3>5. QED
      BY <3>2, <3>3, <3>4
<1>12. Once(Cat(k))
  <2>1. \A f \in Parts : Once(k[f])
    BY <1>3, <1>6, <1>9
  <2>2. \A f, e \in Parts : f # e => Vals(k[f]) \cap Vals(k[e]) = {}
    <3>1. \A f \in Parts : Vals(k[f]) = IF f = part THEN Span(g, n) ELSE Vals(h[f])
      BY <1>3, <1>6
    <3>2. ASSUME NEW f \in Parts, NEW e \in Parts, f # e PROVE Vals(k[f]) \cap Vals(k[e]) = {}
      <4>1. Vals(h[f]) \cap Vals(h[e]) = {}
        BY <1>9, <3>2
      <4>2. QED
        BY <1>10, <3>1, <3>2, <4>1
    <3>3. QED
      BY <3>2
  <2>3. QED
    BY <1>6, <2>1, <2>2, HeldFact
<1>13. Held(p)' = Cat(k)
  BY DEF Held, Cat, k
<1>14. InCall(p)' = InCall(p) \cup Span(g, n)
  <2>1. Vals(claim'[p].got) = {} /\ Vals(drop'[p]) = {}
    BY NothingHeld, EmptyFact
  <2>2. QED
    BY <1>8, <1>11, <1>13, <2>1 DEF InCall
<1>15. /\ InCall(p)' \cap FreePages(pool') = {}
       /\ InCall(p)' \cup FreePages(pool') = InCall(p) \cup FreePages(pool)
  BY <1>2, <1>8, <1>14
<1>16. /\ pc'[p] = next /\ pc'[p] \notin {"exit", "commit", "grow", "claim"} /\ pc'[p] \in Loading
       /\ \A q \in Proc \ {p} : pc'[q] = pc[q]
  BY <1>1 DEF Loading
<1>17. Only(p)
  BY <1>5, <1>16 DEF Only
<1>18. Once(claim'[p].got) /\ Once(drop'[p])
  BY NothingHeld, EmptyFact
<1>19. claim' \in [Proc -> ClaimType] /\ drop' \in [Proc -> Seq(Val)] /\ Claiming(p)'
  BY <1>1, <1>16 DEF Typed, Claiming
<1>20. QED
  BY <1>5, <1>12, <1>13, <1>15, <1>16, <1>17, <1>18, <1>19, HandStep

\* execve is called: one page for the arguments.
LEMMA ExecCallKept ==
  ASSUME IInv, Sane, NEW p \in Proc, NEW i \in Images, ExecCall(p, i)
  PROVE  Sane'
<1> DEFINE g == TakeN(pool, 1).page
<1>1. /\ life[p] = "run" /\ pc[p] = "user" /\ drop[p] = << >>
      /\ hold[p] = NoHold /\ claim[p] = NoClaim /\ InCall(p) = {}
  BY AtUser DEF ExecCall, Enter
<1>2. InCall(p) = Vals(Cat(hold[p])) /\ Once(Cat(hold[p])) /\ hold[p]["args"] = << >>
  BY <1>1, NothingHeld DEF NoHold, Parts
<1>3. g # NoPage /\ pool' = TakeN(pool, 1).pool /\ pc' = [pc EXCEPT ![p] = "snap"]
  BY DEF ExecCall, Goto
<1>4. g \in Page /\ g + 1 <= PageCount + 1
  BY <1>3, TakeNCorrect DEF IInv
<1> HIDE DEF g
<1>5. Run(g, 1) = <<g>>
  <2>0. 1 \in Nat \ {0} /\ 1 \in 1..1
    OBVIOUS
  <2>1. Run(g, 1) \in Seq(Page) /\ Len(Run(g, 1)) = 1 /\ Run(g, 1)[1] = g + (1 - 1)
    BY <1>4, <2>0, RunFact
  <2>2. g + (1 - 1) = g
    BY <1>4, Numbers DEF Page
  <2> DEFINE r == Run(g, 1)
  <2> HIDE DEF r
  <2>3. r \in Seq(Page) /\ Len(r) = 1 /\ r[1] = g
    BY <2>1, <2>2 DEF r
  <2>4. r = <<g>>
    BY <2>3
  <2>5. QED
    BY <2>4 DEF r
<1>6. hold' = [hold EXCEPT ![p]["args"] = Run(g, 1)]
  BY <1>5 DEF ExecCall, g
<1>7. hold \in [Proc -> [Parts -> Seq(Page)]] /\ Run(g, 1) \in Seq(Page)
      /\ pc \in [Proc -> Loading \cup {"user", "grow", "claim", "commit", "exit"}]
  BY <1>4, RunFact DEF Sane, Typed, IInv
<1>8. /\ hold'[p].snap = << >> /\ hold'[p].stage = << >> /\ hold'[p].stack = << >>
      /\ hold'[p].text = << >> /\ hold'[p].data = << >> /\ pc'[p] = "snap"
  BY <1>1, <1>3, <1>6, <1>7 DEF NoHold, Parts
<1>9. Stages(p)'
  BY <1>8 DEF Stages
<1>10. UNCHANGED <<table, brk, stack, text, vparent, life, maps, claim, drop>>
  BY DEF ExecCall, image
<1>11. "args" \in Parts /\ "snap" \in Loading /\ pc[p] \notin {"exit", "commit"}
  BY <1>1 DEF Parts, Loading
<1>12. hold' = [hold EXCEPT ![p]["args"] = Run(TakeN(pool, 1).page, 1)] /\ TakeN(pool, 1).page # NoPage
  BY <1>3, <1>6 DEF g
<1>13. Takes(p, "args", 1, "snap") /\ 1 \in Nat \ {0}
  BY <1>3, <1>10, <1>12 DEF Takes
<1>14. QED
  BY <1>1, <1>2, <1>9, <1>11, <1>13, TakeStep

\* region_alloc for a part of the image has given n pages in a row.
Got(p, part, n, next) ==
  /\ n # 0 /\ pc'[p] = next
  /\ \A f \in Parts \ {part} : hold'[p][f] = hold[p][f]
  /\ \E r \in Seq(Page) : /\ hold'[p][part] = r /\ Len(r) = n
                          /\ \A i \in 1..n : r[i] = r[1] + (i - 1)

\* It gives them, or the call fails.
LEMMA GetKept ==
  ASSUME IInv, Sane, NEW p \in Proc, NEW point \in Loading, At(p, point),
         NEW part \in Parts, hold[p][part] = << >>, NEW n \in Nat, NEW next \in Loading,
         Get(p, part, n, next),
         UNCHANGED <<table, brk, stack, text, vparent, life, maps, claim>>
  PROVE  Sane' \/ (Got(p, part, n, next) /\ (Stages(p)' => Sane'))
<1> DEFINE a == TakeN(pool, n)
<1>1. CASE a.page = NoPage
  <2>1. Fail(p) /\ pool' = a.pool
    BY <1>1 DEF Get
  <2>2. pool' = pool
    <3>1. CASE n = 0
      BY <2>1, <3>1 DEF TakeN, Refused
    <3>2. CASE n # 0
      <4>1. n \in Nat \ {0} /\ Well(pool)
        BY <3>2 DEF IInv
      <4>2. a.page \in Page \/ a.pool = pool
        BY <4>1, TakeNCorrect
      <4>3. QED
        BY <1>1, <2>1, <4>2, Numbers
    <3>3. QED
      BY <3>1, <3>2
  <2>3. QED
    BY <2>1, <2>2, FailStep
<1>2. CASE a.page # NoPage
  <2>1. n # 0
    <3>1. SUFFICES ASSUME n = 0 PROVE FALSE
      OBVIOUS
    <3>2. a = Refused(pool)
      BY <3>1 DEF TakeN
    <3>3. QED
      BY <1>2, <3>2 DEF Refused
  <2>2. Takes(p, part, n, next)
    BY <1>2 DEF Get, Takes, Goto
  <2>3. n \in Nat \ {0} /\ Well(pool)
    BY <2>1 DEF IInv
  <2>4. a.page \in Page /\ a.page + n <= PageCount + 1
    BY <1>2, <2>3, TakeNCorrect
  <2> DEFINE g == a.page
             r == Run(g, n)
  <2>5. hold'= [hold EXCEPT ![p][part] = r]
    BY <2>2 DEF Takes
  <2>6. g \in Page /\ g + n <= PageCount + 1
    BY <2>4
  <2> HIDE DEF g
  <2>7. r \in Seq(Page) /\ Len(r) = n /\ \A i \in 1..n : r[i] = g + (i - 1)
    BY <2>3, <2>6, RunFact
  <2> HIDE DEF r
  <2>8. \A i \in 1..n : r[i] = r[1] + (i - 1)
    <3>1. 1 \in 1..n /\ g \in Nat /\ g + (1 - 1) = g
      BY <2>3, <2>6 DEF Page
    <3>2. r[1] = g
      BY <2>7, <3>1
    <3>3. QED
      BY <2>7, <3>2
  <2>9. /\ hold \in [Proc -> [Parts -> Seq(Page)]]
        /\ pc \in [Proc -> Loading \cup {"user", "grow", "claim", "commit", "exit"}]
    BY DEF Sane, Typed, IInv
  <2>10. hold'[p][part] = r /\ \A f \in Parts \ {part} : hold'[p][f] = hold[p][f]
    BY <2>5, <2>9
  <2>11. pc'[p] = next
    BY <2>2, <2>9 DEF Takes
  <2>12. Got(p, part, n, next)
    BY <2>1, <2>7, <2>8, <2>10, <2>11 DEF Got
  <2>13. /\ life[p] = "run" /\ pc[p] = point /\ drop[p] = << >> /\ claim[p] = NoClaim
         /\ InCall(p) = Vals(Cat(hold[p])) /\ Once(Cat(hold[p])) /\ pc[p] \notin {"exit", "commit"}
    BY AtLoading DEF Loading
  <2>14. Stages(p)' => Sane'
    BY <2>2, <2>3, <2>13, TakeStep
  <2>15. QED
    BY <2>12, <2>14
<1>3. QED
  BY <1>1, <1>2

\* A part the program does not need.
LEMMA SkipKept ==
  ASSUME IInv, Sane, NEW p \in Proc, NEW point \in Loading, At(p, point), NEW next \in Loading,
         Skip(p, next), UNCHANGED <<table, brk, stack, text, vparent, life, maps, claim>>,
         Stages(p)'
  PROVE  Sane'
<1>1. /\ life[p] = "run" /\ pc[p] = point /\ drop[p] = << >> /\ claim[p] = NoClaim
  BY AtLoading
<1>2. Typed /\ OneOwner /\ Apart(p) /\ pc \in [Proc -> Loading \cup {"user", "grow", "claim", "commit", "exit"}]
  BY DEF Sane, IInv, Kept
<1>3. UNCHANGED <<pool, hold, drop>> /\ pc' = [pc EXCEPT ![p] = next]
  BY DEF Skip, Goto
<1>4. pc'[p] = next /\ Only(p)
  BY <1>2, <1>3 DEF Only
<1>5. Held(p)' = Held(p) /\ InCall(p)' = InCall(p)
  BY <1>3 DEF Held, InCall
<1>6. InCall(p) \cap FreePages(pool) = {}
  BY <1>2 DEF OneOwner, Mine
<1>7. /\ Once(Held(p)') /\ Once(claim'[p].got) /\ Once(drop'[p])
  BY <1>2, <1>3, <1>5 DEF Apart
<1>8. /\ hold' \in [Proc -> [Parts -> Seq(Page)]] /\ claim' \in [Proc -> ClaimType]
      /\ drop' \in [Proc -> Seq(Val)]
  BY <1>2, <1>3 DEF Typed
<1>9. /\ pc[p] \notin {"exit", "commit"} /\ pc'[p] \notin {"exit", "commit", "grow", "claim"}
      /\ pc'[p] \in Loading /\ Claiming(p)'
  BY <1>1, <1>4 DEF Loading, Claiming
<1>10. QED
  BY <1>1, <1>3, <1>4, <1>5, <1>6, <1>7, <1>8, <1>9, HandStep

\* The steps of the loader, and its failures.
LEMMA ExecStepKept ==
  ASSUME IInv, Sane, NEW p \in Proc, ExecStep(p) \/ ExecReject(p)
  PROVE  Sane'
<1> DEFINE h == hold[p]
<1>1. UNCHANGED <<table, brk, stack, text, vparent, life, maps, claim>>
  BY DEF ExecStep, ExecReject, image
<1>2. Stages(p) /\ hold \in [Proc -> [Parts -> Seq(Page)]]
  BY DEF Sane, Kept, Typed
<1>3. /\ "args" \in Parts /\ "snap" \in Parts /\ "stage" \in Parts /\ "stack" \in Parts
      /\ "text" \in Parts /\ "data" \in Parts
      /\ "snap" \in Loading /\ "stage" \in Loading /\ "stack" \in Loading /\ "text" \in Loading
      /\ "data" \in Loading /\ "reloc" \in Loading
  BY DEF Parts, Loading
<1>4. ASSUME NEW point \in Loading, At(p, point) PROVE img[p] \in Images /\ pc[p] = point
  BY <1>4 DEF At, IInv
<1>5. \A i \in Images : i.stage \in Nat /\ i.text \in Nat /\ i.data \in Nat
  BY MemoryAssumption
<1>6. CASE At(p, "snap") /\ Get(p, "snap", 1, "stage")
  <2>1. /\ h.snap = << >> /\ h.stage = << >> /\ h.stack = << >> /\ h.text = << >> /\ h.data = << >>
    BY <1>2, <1>3, <1>4, <1>6 DEF Stages
  <2>2. ASSUME Got(p, "snap", 1, "stage")
        PROVE  Stages(p)'
    BY <2>1, <2>2 DEF Got, Stages, Parts
  <2>3. 1 \in Nat /\ hold[p]["snap"] = << >>
    BY <2>1
  <2>4. QED
    BY <1>1, <1>3, <1>6, <2>2, <2>3, GetKept
<1>7. CASE At(p, "stage") /\ img[p].stage = 0 /\ Skip(p, "stack")
  <2>1. Stages(p)'
    <3>1. pc'[p] = "stack" /\ hold'[p] = hold[p] /\ pc[p] = "stage"
      BY <1>3, <1>4, <1>7 DEF Skip, Goto, IInv
    <3>2. QED
      BY <1>2, <3>1 DEF Stages
  <2>2. QED
    BY <1>1, <1>3, <1>7, <2>1, SkipKept
<1>8. CASE At(p, "stage") /\ Get(p, "stage", img[p].stage, "stack")
  <2>1. h.stage = << >> /\ h.stack = << >> /\ h.text = << >> /\ h.data = << >>
    BY <1>2, <1>3, <1>4, <1>8 DEF Stages
  <2>2. ASSUME Got(p, "stage", img[p].stage, "stack")
        PROVE  Stages(p)'
    BY <2>1, <2>2 DEF Got, Stages, Parts
  <2>3. img[p].stage \in Nat /\ hold[p]["stage"] = << >>
    BY <1>3, <1>4, <1>5, <1>8, <2>1
  <2>4. QED
    BY <1>1, <1>3, <1>8, <2>2, <2>3, GetKept
<1>9. CASE At(p, "stack") /\ Get(p, "stack", 1, "text")
  <2>1. h.stack = << >> /\ h.text = << >> /\ h.data = << >>
    BY <1>2, <1>3, <1>4, <1>9 DEF Stages
  <2>2. ASSUME Got(p, "stack", 1, "text")
        PROVE  Stages(p)'
    BY <2>1, <2>2 DEF Got, Stages, Parts
  <2>3. 1 \in Nat /\ hold[p]["stack"] = << >>
    BY <2>1
  <2>4. QED
    BY <1>1, <1>3, <1>9, <2>2, <2>3, GetKept
<1>10. CASE At(p, "text") /\ img[p].text = 0 /\ Skip(p, "data")
  <2>1. Stages(p)'
    <3>1. pc'[p] = "data" /\ hold'[p] = hold[p] /\ pc[p] = "text"
      BY <1>3, <1>4, <1>10 DEF Skip, Goto, IInv
    <3>2. QED
      BY <1>2, <3>1 DEF Stages
  <2>2. QED
    BY <1>1, <1>3, <1>10, <2>1, SkipKept
<1>11. CASE At(p, "text") /\ Get(p, "text", img[p].text, "data")
  <2>1. Len(h.stack) = 1 /\ h.text = << >> /\ h.data = << >>
    BY <1>2, <1>3, <1>4, <1>11 DEF Stages
  <2>2. ASSUME Got(p, "text", img[p].text, "data")
        PROVE  Stages(p)'
    BY <2>1, <2>2 DEF Got, Stages, Parts
  <2>3. img[p].text \in Nat /\ hold[p]["text"] = << >>
    BY <1>3, <1>4, <1>5, <1>11, <2>1
  <2>4. QED
    BY <1>1, <1>3, <1>11, <2>2, <2>3, GetKept
<1>12. CASE At(p, "data") /\ Fail(p) /\ UNCHANGED pool
  BY <1>1, <1>3, <1>12, FailStep
<1>13. CASE At(p, "data") /\ ~(img[p].data > SlotMax) /\ Get(p, "data", img[p].data, "reloc")
  <2>1. Len(h.stack) = 1 /\ h.data = << >>
    BY <1>2, <1>3, <1>4, <1>13 DEF Stages
  <2>2. img[p].data \in Nat /\ img[p].data <= SlotMax /\ hold[p]["data"] = << >>
    BY <1>3, <1>4, <1>5, <1>13, <2>1, Numbers
  <2>3. ASSUME Got(p, "data", img[p].data, "reloc")
        PROVE  Stages(p)'
    BY <2>1, <2>2, <2>3 DEF Got, Stages, Parts
  <2>4. QED
    BY <1>1, <1>3, <1>13, <2>2, <2>3, GetKept
<1>14. CASE ExecReject(p)
  <2>1. PICK point \in {"snap", "stage", "stack", "reloc"} : At(p, point)
    BY <1>14 DEF ExecReject
  <2>2. Fail(p) /\ UNCHANGED pool /\ point \in Loading
    BY <1>14 DEF ExecReject, Loading
  <2>3. QED
    BY <1>1, <2>1, <2>2, FailStep
<1>15. QED
  BY <1>6, <1>7, <1>8, <1>9, <1>10, <1>11, <1>12, <1>13, <1>14 DEF ExecStep

-----------------------------------------------------------------------------
(* Pages freed one by one, claimed one by one *)

LEMMA DropKept ==
  ASSUME IInv, Sane, NEW p \in Proc, Drop(p)
  PROVE  Sane'
<1> DEFINE g == Head(drop[p])
           t == Tail(drop[p])
<1>1. Typed /\ OneOwner /\ Apart(p) /\ Phase(p) /\ Well(pool) /\ NoPage \notin Page
  BY Numbers DEF Sane, Kept, IInv
<1>2. /\ life[p] = "run" /\ drop[p] # << >> /\ drop[p] \in Seq(Val)
      /\ pool' = PageFree(pool, g) /\ drop' = [drop EXCEPT ![p] = t]
      /\ UNCHANGED <<table, brk, stack, text, vparent, life, pc, hold, claim, maps>>
  BY <1>1 DEF Drop, Typed, image
<1>3. /\ g \in Val /\ t \in Seq(Val) /\ Vals(drop[p]) = ({g} \ {NoPage}) \cup Vals(t)
      /\ Once(t) /\ (g # NoPage => g \notin Vals(t))
  BY <1>1, <1>2, TailFact DEF Apart
<1>4. FreePages(pool') = FreePages(pool) \cup ({g} \cap Page)
  BY <1>1, <1>2, PageFreeCorrect
<1> HIDE DEF g, t
<1>5. {g} \cap Page = {g} \ {NoPage}
  BY <1>1, <1>3 DEF Val
<1>6. pc[p] \notin Loading \cup {"grow", "claim"} /\ hold[p] = NoHold /\ claim[p] = NoClaim
  BY <1>1, <1>2 DEF Phase
<1>7. Vals(Held(p)) = {} /\ Vals(claim[p].got) = {} /\ InCall(p) = Vals(drop[p])
  <2>1. Vals(Held(p)) = {} /\ Vals(claim[p].got) = {}
    BY <1>6, NothingHeld, EmptyFact DEF Held, Cat
  <2>2. QED
    BY <2>1 DEF InCall
<1>8. drop'[p] = t /\ drop' \in [Proc -> Seq(Val)] /\ Only(p)
  BY <1>1, <1>2, <1>3 DEF Typed, Only
<1>9. Held(p)' = Held(p) /\ InCall(p)' = Vals(t)
  <2>1. Held(p)' = Held(p)
    BY <1>2 DEF Held
  <2>2. QED
    BY <1>2, <1>7, <1>8, <2>1 DEF InCall
<1>10. InCall(p) \cap FreePages(pool) = {}
  BY <1>1 DEF OneOwner, Mine
<1>11. /\ InCall(p)' \cap FreePages(pool') = {}
       /\ InCall(p)' \cup FreePages(pool') = InCall(p) \cup FreePages(pool)
  BY <1>3, <1>4, <1>5, <1>7, <1>9, <1>10
<1>12. Once(Held(p)') /\ Once(claim'[p].got) /\ Once(drop'[p])
  BY <1>1, <1>2, <1>3, <1>8, <1>9 DEF Apart
<1>13. /\ hold' \in [Proc -> [Parts -> Seq(Page)]] /\ claim' \in [Proc -> ClaimType]
       /\ pc'[p] = pc[p] /\ hold'[p] = NoHold /\ claim'[p] = NoClaim
       /\ pc'[p] \notin Loading \cup {"grow", "claim"}
  BY <1>1, <1>2, <1>6 DEF Typed
<1>14. Stages(p)' /\ Claiming(p)'
  BY <1>13 DEF Stages, Claiming, Loading
<1>15. QED
  BY <1>2, <1>8, <1>11, <1>12, <1>13, <1>14, HandStep

\* The first slot is in use: the page of the data segment is found there.
LEMMA Page0Fact ==
  ASSUME Sane, NEW p \in Proc, Settled(p)
  PROVE  /\ Page0(p) = table[p][0] /\ table[p][0] \in Page /\ 0 \in Slot
         /\ table[p][0] < brk[p].base /\ brk[p].base <= brk[p].cur
         /\ brk[p].cur - table[p][0] <= SlotMax
         /\ \A i \in 0..(brk[p].cur - table[p][0] - 1) : table[p][i] = table[p][0] + i
<1> DEFINE S == {i \in Slot : table[p][i] # NoPage}
<1>1. Heap(p)
  BY DEF Sane, Kept
<1>2. table[p][0] \in Page /\ 0 \in Slot /\ Slot \subseteq Nat /\ NoPage \notin Page
  BY <1>1, Numbers, MemoryAssumption DEF Heap, Slot
<1>3. 0 \in S /\ S \in SUBSET Nat
  BY <1>2
<1>4. Min(S) \in Nat /\ Min(S) <= 0
  BY <1>3, MinFact
<1>5. Min(S) = 0
  BY <1>4
<1>6. Page0(p) = table[p][0]
  BY <1>5 DEF Page0
<1>7. QED
  BY <1>1, <1>2, <1>6 DEF Heap

\* brk or MAP_FIXED is about to claim its pages.
LEMMA ClaimBegins ==
  ASSUME IInv, Sane, NEW p \in Proc, At(p, "user"), NEW c \in ClaimType, c.got = << >>,
         NEW point \in {"grow", "claim"},
         claim' = [claim EXCEPT ![p] = c], pc' = [pc EXCEPT ![p] = point],
         UNCHANGED <<pool, table, brk, stack, text, vparent, life, maps, hold, drop>>,
         Claiming(p)'
  PROVE  Sane'
<1>1. /\ life[p] = "run" /\ pc[p] = "user" /\ drop[p] = << >>
      /\ hold[p] = NoHold /\ claim[p] = NoClaim /\ InCall(p) = {}
  BY AtUser
<1>2. Typed /\ OneOwner /\ Apart(p) /\ pc \in [Proc -> Loading \cup {"user", "grow", "claim", "commit", "exit"}]
  BY DEF Sane, Kept, IInv
<1>3. claim'[p] = c /\ claim' \in [Proc -> ClaimType] /\ pc'[p] \in {"grow", "claim"} /\ Only(p)
  BY <1>2 DEF Typed, Only
<1>4. Held(p)' = Held(p) /\ InCall(p)' = {}
  <2>1. Held(p)' = Held(p)
    BY DEF Held
  <2>2. Vals(claim'[p].got) = {} /\ Vals(Held(p)) = {} /\ Vals(drop[p]) = {}
    BY <1>1, <1>3, EmptyFact DEF InCall
  <2>3. QED
    BY <2>1, <2>2 DEF InCall
<1>5. Once(Held(p)') /\ Once(claim'[p].got) /\ Once(drop'[p])
  BY <1>2, <1>3, <1>4, EmptyFact DEF Apart
<1>6. hold' \in [Proc -> [Parts -> Seq(Page)]] /\ drop' \in [Proc -> Seq(Val)]
  BY <1>2 DEF Typed
<1>7. Stages(p)'
  BY <1>3 DEF Stages
<1>9. pc[p] \notin {"exit", "commit"} /\ pc'[p] \notin {"exit", "commit"} /\ pc'[p] \notin Loading
  BY <1>1, <1>3 DEF Loading
<1>10. QED
  BY <1>1, <1>3, <1>4, <1>5, <1>6, <1>7, <1>9, HandStep

LEMMA BrkGrowKept ==
  ASSUME IInv, Sane, NEW p \in Proc, NEW e \in 1..(PageCount + 1), Brk(p, e),
         e - Page0(p) > brk[p].cur - Page0(p)
  PROVE  Sane'
<1> DEFINE f == table[p][0]
           old == brk[p].cur - f
           new == e - f
           c == [at |-> brk[p].cur, n |-> new - old, slot |-> old, got |-> << >>]
<1>1. At(p, "user") /\ vparent[p] = NULL /\ life[p] = "run" /\ pc[p] = "user"
  BY DEF Brk, Enter, At
<1>2. Settled(p)
  BY <1>1 DEF Settled
<1>3. /\ Page0(p) = f /\ f \in Page /\ f < brk[p].base /\ brk[p].base <= brk[p].cur
      /\ brk[p].cur - f <= SlotMax /\ brk[p].base \in Nat /\ brk[p].cur \in Nat
      /\ \A i \in 0..(old - 1) : table[p][i] = f + i
  BY <1>2, Page0Fact DEF Sane, Typed
<1>4. f \in Nat /\ PageCount \in Nat /\ SlotMax \in Nat
  BY <1>3, Numbers DEF Page
<1>5. new > old /\ new <= SlotMax /\ e \in Nat
  BY <1>3, <1>4 DEF Brk
<1>6. /\ claim' = [claim EXCEPT ![p] = c] /\ pc' = [pc EXCEPT ![p] = "grow"]
      /\ UNCHANGED <<pool, table, brk, stack, text, vparent, life, maps, hold, drop>>
  <2>1. ~(new < old)
    BY <1>3, <1>4, <1>5
  <2>2. QED
    BY <1>3, <2>1 DEF Brk, Goto
<1>7. /\ c \in ClaimType /\ c.got = << >> /\ c.slot + c.n <= SlotMax
      /\ c.at = brk[p].cur /\ c.slot = old /\ c.slot = brk[p].cur - f
  <2>1. old \in Nat /\ new - old \in Nat /\ new - old > 0 /\ old + (new - old) = new
    BY <1>3, <1>4, <1>5
  <2> HIDE DEF old, new
  <2>2. /\ c \in ClaimType /\ c.got = << >> /\ c.n = new - old /\ c.slot = old
        /\ c.at = brk[p].cur
    BY <1>3, <2>1 DEF ClaimType
  <2>3. QED
    BY <1>5, <2>1, <2>2 DEF old
<1> HIDE DEF c
<1>8. Growing(p)'
  <2>1. claim'[p] = c /\ OwnTable(p)' = OwnTable(p) /\ pc'[p] = "grow"
    BY <1>6 DEF Sane, Typed, IInv, OwnTable
  <2>2. Settled(p)' /\ Mappings(p)
    BY <1>1, <1>2, <1>6, <2>1 DEF Settled, Sane, Kept
  <2>3. ASSUME NEW m \in maps[p] PROVE \E s \in Slot : c.slot <= s /\ LiesAt(p, m, s)'
    <3>1. PICK s \in Slot : LiesAt(p, m, s)
      BY <2>2 DEF Mappings
    <3>2. c.slot <= s
      BY <1>2, <1>7, <3>1 DEF LiesAt
    <3>3. LiesAt(p, m, s)'
      BY <1>2, <1>6, <2>1, <3>1 DEF LiesAt
    <3>4. QED
      BY <3>2, <3>3
  <2>4. c.at = f + c.slot /\ brk[p].cur - f <= c.slot
    BY <1>3, <1>4, <1>7
  <2>5. QED
    BY <1>1, <1>3, <1>6, <1>7, <2>1, <2>3, <2>4 DEF Growing
<1>9. Claiming(p)'
  BY <1>6, <1>8 DEF Claiming, IInv
<1>10. QED
  BY <1>1, <1>6, <1>7, <1>9, ClaimBegins

\* mmap_find_slots: all slots of the run it returns are empty.
LEMMA RunFound ==
  ASSUME NEW p \in Proc, NEW n \in Nat \ {0}, FreeRuns(p, n) # {}
  PROVE  LET s == Max(FreeRuns(p, n))
         IN  /\ s \in Nat /\ s + n <= SlotMax
             /\ \A i \in Slot : s <= i /\ i < s + n => table[p][i] = NoPage
<1> DEFINE s == Max(FreeRuns(p, n))
<1>1. FreeRuns(p, n) \in SUBSET Slot /\ FreeRuns(p, n) \in SUBSET (0..SlotMax)
  BY Numbers DEF FreeRuns, Slot
<1>2. s \in FreeRuns(p, n)
  BY <1>1, MaxFact
<1>3. s \in Slot /\ s \in Nat /\ SlotMax \in Nat
  BY <1>1, <1>2, Numbers
<1>4. \A i \in s..(s + n - 1) : i \in Slot /\ table[p][i] = NoPage
  BY <1>2 DEF FreeRuns
<1> HIDE DEF s
<1>5. s + n - 1 \in s..(s + n - 1)
  BY <1>3
<1>6. s + n <= SlotMax
  BY <1>3, <1>4, <1>5 DEF Slot
<1>7. ASSUME NEW i \in Slot, s <= i, i < s + n PROVE i \in s..(s + n - 1)
  BY <1>3, <1>7 DEF Slot
<1>8. QED
  BY <1>3, <1>4, <1>6, <1>7 DEF s

LEMMA MmapFixedKept ==
  ASSUME IInv, Sane, NEW p \in Proc, NEW n \in MapSizes, NEW at \in FixedAt, MmapFixed(p, n, at)
  PROVE  Sane'
<1> DEFINE s == Max(FreeRuns(p, n))
           c == [at |-> at, n |-> n, slot |-> s, got |-> << >>]
<1>1. n \in Nat \ {0} /\ at \in Nat
  BY MemoryAssumption DEF Page
<1>2. /\ s \in Nat /\ s + n <= SlotMax
      /\ \A i \in Slot : s <= i /\ i < s + n => table[p][i] = NoPage
  BY <1>1, RunFound DEF MmapFixed
<1>3. /\ At(p, "user") /\ claim' = [claim EXCEPT ![p] = c] /\ pc' = [pc EXCEPT ![p] = "claim"]
      /\ UNCHANGED <<pool, table, brk, stack, text, vparent, life, maps, hold, drop>>
  BY DEF MmapFixed, Enter, Goto, image
<1> HIDE DEF s
<1>4. c \in ClaimType /\ c.got = << >> /\ c.n = n /\ c.slot = s
  BY <1>1, <1>2 DEF ClaimType
<1> HIDE DEF c
<1>5. /\ c.n > 0 /\ c.slot + c.n <= SlotMax
      /\ \A i \in Slot : c.slot <= i /\ i < c.slot + c.n => table[p][i] = NoPage
  BY <1>1, <1>2, <1>4
<1>6. Claiming(p)'
  <2>1. claim'[p] = c /\ pc'[p] = "claim" /\ Len(c.got) = 0 /\ c.n \in Nat
    BY <1>1, <1>3, <1>4 DEF Sane, Typed, IInv
  <2>2. QED
    BY <1>3, <1>5, <2>1 DEF Claiming
<1>7. QED
  BY <1>3, <1>4, <1>6, ClaimBegins

LEMMA ClaimPageKept ==
  ASSUME IInv, Sane, NEW p \in Proc, ClaimPage(p)
  PROVE  Sane'
<1> DEFINE c == claim[p]
           id == c.at + Len(c.got)
           a == TakeAt(pool, id)
<1>1. /\ Typed /\ OneOwner /\ Apart(p) /\ Phase(p) /\ Claiming(p) /\ Well(pool)
      /\ pc \in [Proc -> Loading \cup {"user", "grow", "claim", "commit", "exit"}]
  BY DEF Sane, Kept, IInv
<1>2. /\ life[p] = "run" /\ pc[p] = "claim" /\ drop[p] = << >> /\ Len(c.got) < c.n
      /\ pool' = a.pool
      /\ UNCHANGED <<table, brk, stack, text, vparent, life, maps, hold>>
  BY DEF ClaimPage, At, image
<1>3. c \in ClaimType /\ c.got \in Seq(Page) /\ c.at \in Nat /\ c.n \in Nat /\ Len(c.got) \in Nat
  BY <1>1 DEF Typed, ClaimType
<1>4. \/ a.page = NoPage /\ a.pool = pool
      \/ /\ id \in FreePages(pool) /\ a.page = id /\ id \in Page
         /\ FreePages(a.pool) = FreePages(pool) \ {id}
  BY <1>1, TakeAtCorrect
<1>5. hold[p] = NoHold /\ Vals(Held(p)) = {} /\ Vals(drop[p]) = {} /\ InCall(p) = Vals(c.got)
  <2>1. hold[p] = NoHold
    BY <1>1, <1>2 DEF Phase, Loading
  <2>2. Vals(Held(p)) = {} /\ Vals(drop[p]) = {}
    BY <1>2, <2>1, NothingHeld, EmptyFact DEF Held, Cat
  <2>3. QED
    BY <2>1, <2>2 DEF InCall
<1>6. InCall(p) \cap FreePages(pool) = {}
  BY <1>1 DEF OneOwner, Mine
<1>7. Held(p)' = Held(p) /\ hold' \in [Proc -> [Parts -> Seq(Page)]]
  BY <1>1, <1>2 DEF Held, Typed
<1>8. Once(Held(p)) /\ Once(c.got) /\ NoPage \notin Page /\ Once(<< >>)
  BY <1>1, Numbers, EmptyFact DEF Apart
<1> HIDE DEF a
<1>9. CASE a.page = NoPage
  <2>1. /\ drop' = [drop EXCEPT ![p] = c.got] /\ pc' = [pc EXCEPT ![p] = "user"]
        /\ claim' = [claim EXCEPT ![p] = NoClaim]
    BY <1>9 DEF ClaimPage, FreeThen, Goto, a
  <2>2. c.got \in Seq(Val)
    BY <1>3 DEF Val
  <2>3. /\ drop' \in [Proc -> Seq(Val)] /\ claim' \in [Proc -> ClaimType]
        /\ drop'[p] = c.got /\ claim'[p] = NoClaim /\ pc'[p] = "user" /\ Only(p)
    BY <1>1, <1>2, <2>1, <2>2, NothingHeld DEF Typed, Only
  <2>4. FreePages(pool') = FreePages(pool)
    BY <1>2, <1>4, <1>8, <1>9
  <2>5. InCall(p)' = InCall(p)
    <3>1. Vals(claim'[p].got) = {} /\ Vals(drop'[p]) = Vals(c.got)
      BY <2>3, NothingHeld, EmptyFact
    <3>2. QED
      BY <1>5, <1>7, <3>1 DEF InCall
  <2>6. Once(claim'[p].got) /\ Once(drop'[p])
    BY <1>8, <2>3, NothingHeld
  <2>7. /\ pc[p] \notin {"exit", "commit"} /\ pc'[p] \notin {"exit", "commit"}
        /\ pc'[p] \notin Loading \cup {"grow", "claim"} /\ Stages(p)' /\ Claiming(p)'
    BY <1>2, <2>3 DEF Loading, Stages, Claiming
  <2>8. hold'[p] = NoHold
    BY <1>2, <1>5
  <2>9. QED
    BY <1>2, <1>6, <1>7, <1>8, <2>3, <2>4, <2>5, <2>6, <2>7, <2>8, HandStep
<1>10. CASE a.page # NoPage
  <2>1. /\ a.page = id /\ id \in Page /\ id \in FreePages(pool)
        /\ FreePages(pool') = FreePages(pool) \ {id}
    BY <1>2, <1>4, <1>10
  <2> DEFINE got == Append(c.got, id)
  <2>2. /\ claim' = [claim EXCEPT ![p].got = got] /\ UNCHANGED <<pc, drop>>
    BY <1>10, <2>1 DEF ClaimPage, a
  <2>3. id \notin Vals(c.got)
    BY <1>5, <1>6, <2>1
  <2> HIDE DEF id
  <2>4. /\ got \in Seq(Page) /\ Len(got) = Len(c.got) + 1
        /\ \A i \in 1..Len(c.got) : got[i] = c.got[i]
        /\ got[Len(c.got) + 1] = id /\ Vals(got) = Vals(c.got) \cup {id} /\ Once(got)
    <3>1. /\ got \in Seq(Page) /\ Len(got) = Len(c.got) + 1
          /\ \A i \in 1..Len(c.got) : got[i] = c.got[i]
          /\ got[Len(c.got) + 1] = id /\ Vals(got) = Vals(c.got) \cup ({id} \ {NoPage})
          /\ Once(c.got) /\ id \notin Vals(c.got) => Once(got)
      BY <1>3, <2>1, AppendFact
    <3>2. id # NoPage
      BY <1>8, <2>1
    <3>3. QED
      BY <1>8, <2>3, <3>1, <3>2
  <2> HIDE DEF got
  <2>5. claim'[p] = [c EXCEPT !.got = got] /\ claim' \in [Proc -> ClaimType] /\ Only(p)
    <3>1. [c EXCEPT !.got = got] \in ClaimType
      BY <1>3, <2>4 DEF ClaimType
    <3>2. claim' = [claim EXCEPT ![p] = [c EXCEPT !.got = got]]
      BY <2>2
    <3>3. QED
      BY <1>1, <1>2, <2>2, <3>1, <3>2 DEF Typed, Only
  <2>6. /\ claim'[p].got = got /\ claim'[p].at = c.at /\ claim'[p].n = c.n
        /\ claim'[p].slot = c.slot
    BY <1>3, <2>5 DEF ClaimType
  <2>7. InCall(p)' = InCall(p) \cup {id}
    BY <1>5, <1>7, <2>2, <2>4, <2>6 DEF InCall
  <2>8. /\ InCall(p)' \cap FreePages(pool') = {}
        /\ InCall(p)' \cup FreePages(pool') = InCall(p) \cup FreePages(pool)
    BY <1>6, <2>1, <2>7
  <2>9. Stages(p)'
    BY <1>2, <2>2 DEF Stages
  <2>10. Claiming(p)'
    <3>1. Len(got) <= c.n
      BY <1>2, <1>3, <2>4
    <3>2. ASSUME NEW i \in 1..Len(got) PROVE got[i] = c.at + (i - 1)
      <4>1. CASE i \in 1..Len(c.got)
        BY <1>1, <1>2, <2>4, <4>1 DEF Claiming
      <4>2. CASE i = Len(c.got) + 1
        <5>1. id = c.at + (i - 1)
          BY <1>3, <4>2 DEF id
        <5>2. QED
          BY <2>4, <4>2, <5>1
      <4>3. i \in 1..Len(c.got) \/ i = Len(c.got) + 1
        BY <1>3, <2>4
      <4>4. QED
        BY <4>1, <4>2, <4>3
    <3>3. QED
      BY <1>1, <1>2, <2>2, <2>6, <3>1, <3>2 DEF Claiming
  <2>11. /\ drop' \in [Proc -> Seq(Val)] /\ Once(claim'[p].got) /\ Once(drop'[p])
         /\ pc'[p] = pc[p] /\ pc'[p] = "claim" /\ hold'[p] = NoHold /\ drop'[p] = << >>
    BY <1>1, <1>2, <1>5, <1>8, <2>2, <2>4, <2>6 DEF Typed
  <2>12. pc'[p] \notin Loading
    BY <2>11 DEF Loading
  <2>13. QED
    BY <1>2, <1>7, <1>8, <2>5, <2>8, <2>9, <2>10, <2>11, <2>12, HandStep
<1>11. QED
  BY <1>9, <1>10

-----------------------------------------------------------------------------
(* A table filled or cleared *)

\* Pages put in empty slots are own pages there.
LEMMA FillOwn ==
  ASSUME Sane, NEW p \in Proc, life[p] = "run", NEW s \in Seq(Page), NEW slot \in Nat,
         slot + Len(s) <= SlotMax, Vals(s) \subseteq Mine(p) \cup FreePages(pool),
         Vacant(table[p], slot, Len(s)),
         table' = [table EXCEPT ![p] = Filled(table[p], slot, s)], vparent' = vparent
  PROVE  /\ table' \in [Proc -> [Slot -> Val]]
         /\ table'[p] = Filled(table[p], slot, s)
         /\ OwnTable(p)' = Filled(OwnTable(p), slot, s)
         /\ Vacant(OwnTable(p), slot, Len(s))
<1>1. PICK anc \in [Proc -> SUBSET Proc] : Ancestry(anc)
  BY DEF Sane
<1>2. Typed
  BY DEF Sane
<1> DEFINE t == table[p]
           u == vparent[p]
           r == Filled(t, slot, s)
<1>3. t \in [Slot -> Val] /\ table \in [Proc -> [Slot -> Val]] /\ Len(s) \in Nat
  BY <1>2 DEF Typed
<1>4. /\ r \in [Slot -> Val]
      /\ \A i \in 1..Len(s) : slot + (i - 1) \in Slot /\ r[slot + (i - 1)] = s[i]
      /\ \A i \in Slot : i < slot \/ slot + Len(s) <= i => r[i] = t[i]
  BY <1>3, FilledFact
<1> HIDE DEF r
<1>5. table'[p] = r /\ table' \in [Proc -> [Slot -> Val]] /\ \A q \in Proc \ {p} : table'[q] = table[q]
  <2>1. table' = [table EXCEPT ![p] = r]
    BY DEF r
  <2>2. QED
    BY <1>3, <1>4, <2>1
<1>6. u # NULL => u \in Proc /\ table'[u] = table[u]
  BY <1>1, <1>2, <1>5, RunsAlone, OwnFact
<1>7. OwnTable(p) \in [Slot -> Val]
      /\ Vacant(OwnTable(p), slot, Len(s))
  BY <1>2, OwnFact DEF Vacant
<1> DEFINE o == OwnTable(p)
           x == Filled(o, slot, s)
<1>8. /\ x \in [Slot -> Val]
      /\ \A i \in 1..Len(s) : slot + (i - 1) \in Slot /\ x[slot + (i - 1)] = s[i]
      /\ \A i \in Slot : i < slot \/ slot + Len(s) <= i => x[i] = o[i]
  BY <1>7, FilledFact
<1> HIDE DEF x
<1>9. OwnTable(p)' = [i \in Slot |-> IF u # NULL /\ r[i] = table[u][i] THEN NoPage ELSE r[i]]
  <2>1. CASE u = NULL
    <3>1. OwnTable(p)' = r
      BY <1>5, <2>1 DEF OwnTable
    <3>2. QED
      BY <1>4, <2>1, <3>1
  <2>2. CASE u # NULL
    <3>1. OwnTable(p)' = [i \in Slot |-> IF table'[p][i] = table'[u][i] THEN NoPage ELSE table'[p][i]]
      BY <2>2 DEF OwnTable
    <3>2. QED
      BY <1>5, <1>6, <2>2, <3>1
  <2>3. QED
    BY <2>1, <2>2
<1>10. ASSUME NEW i \in Slot PROVE OwnTable(p)'[i] = x[i]
  <2>0. OwnTable(p)'[i] = IF u # NULL /\ r[i] = table[u][i] THEN NoPage ELSE r[i]
    BY <1>9
  <2>1. i \in Nat
    BY Numbers
  <2>2. CASE i < slot \/ slot + Len(s) <= i
    <3>1. r[i] = t[i] /\ x[i] = o[i]
      BY <1>4, <1>8, <2>2
    <3>2. o[i] = IF u # NULL /\ t[i] = table[u][i] THEN NoPage ELSE t[i]
      BY <1>2, OwnSlot
    <3>3. QED
      BY <2>0, <3>1, <3>2
  <2>3. CASE slot <= i /\ i < slot + Len(s)
    <3>1. (i - slot) + 1 \in 1..Len(s) /\ slot + (((i - slot) + 1) - 1) = i
      BY <1>3, <2>1, <2>3
    <3>2. r[i] = s[(i - slot) + 1] /\ x[i] = s[(i - slot) + 1]
      BY <1>4, <1>8, <3>1
    <3>3. r[i] \in Vals(s) /\ r[i] # NoPage
      BY <3>1, <3>2, Numbers DEF Vals
    <3>4. u # NULL => table[u][i] # r[i]
      BY <3>3, NotAbove
    <3>5. QED
      BY <2>0, <3>2, <3>4
  <2>4. QED
    BY <1>3, <2>1, <2>2, <2>3
<1>11. OwnTable(p)' = x
  BY <1>8, <1>9, <1>10
<1>12. QED
  BY <1>5, <1>7, <1>11 DEF r, x

\* Other pages put in empty slots: all are there, and none twice.
LEMMA FillOnce ==
  ASSUME NEW t \in [Slot -> Val], NEW lo \in Nat, NEW s \in Seq(Page), lo + Len(s) <= SlotMax,
         Vacant(t, lo, Len(s)), Once(t), Once(s), Vals(t) \cap Vals(s) = {}
  PROVE  Vals(Filled(t, lo, s)) = Vals(t) \cup Vals(s) /\ Once(Filled(t, lo, s))
  BY FilledFact

\* A call of p that keeps no page in its hands goes on, or is over.
GoesOn(p) == /\ claim' \in [Proc -> ClaimType] /\ claim'[p].got = << >> /\ pc'[p] \in {"user", "grow"}
             /\ pc'[p] = "user" => claim'[p] = NoClaim
             /\ \A q \in Proc \ {p} : claim'[q] = claim[q] /\ pc'[q] = pc[q]

\* The pages were free or in the call's hands; now they are in the table.
LEMMA FillStep ==
  ASSUME IInv, Sane, NEW p \in Proc, life[p] = "run", NEW s \in Seq(Page), NEW slot \in Nat,
         slot + Len(s) <= SlotMax, Once(s),
         Vacant(table[p], slot, Len(s)),
         table' = [table EXCEPT ![p] = Filled(table[p], slot, s)],
         Vals(s) \cup FreePages(pool') = InCall(p) \cup FreePages(pool),
         Vals(s) \cap FreePages(pool') = {},
         hold[p] = NoHold, drop[p] = << >>, pc[p] \notin {"exit", "commit"},
         GoesOn(p), UNCHANGED <<stack, text, vparent, life, hold, drop>>,
         brk' \in [Proc -> [base : Nat, cur : Nat]], maps' \in [Proc -> SUBSET BlockType],
         \A q \in Proc \ {p} : brk'[q] = brk[q] /\ maps'[q] = maps[q],
         Heap(p)', Mappings(p)', Claiming(p)'
  PROVE  Sane'
<1>1. /\ Typed /\ OneOwner /\ Apart(p) /\ Phase(p) /\ Mine(p) \cap FreePages(pool) = {}
      /\ pc \in [Proc -> Loading \cup {"user", "grow", "claim", "commit", "exit"}]
  BY DEF Sane, Kept, IInv, OneOwner
<1>2. Vals(s) \subseteq Mine(p) \cup FreePages(pool)
  BY DEF Mine
<1>3. /\ table' \in [Proc -> [Slot -> Val]] /\ table'[p] = Filled(table[p], slot, s)
      /\ OwnTable(p)' = Filled(OwnTable(p), slot, s)
      /\ Vacant(OwnTable(p), slot, Len(s))
  BY <1>2, FillOwn
<1>4. InImage(p) \cap InCall(p) = {} /\ InImage(p) \cap FreePages(pool) = {}
  BY <1>1 DEF Apart, Mine
<1>5. Vals(s) \cap InImage(p) = {}
  BY <1>4
<1>6. Vals(OwnTable(p)') = Vals(OwnTable(p)) \cup Vals(s) /\ Once(OwnTable(p)')
  <2> DEFINE o == OwnTable(p)
  <2>1. o \in [Slot -> Val] /\ Vacant(o, slot, Len(s))
    BY <1>1, <1>3, OwnFact
  <2>2. Once(o) /\ Vals(o) \cap Vals(s) = {}
    BY <1>1, <1>5 DEF Apart, InImage
  <2>3. Vals(Filled(o, slot, s)) = Vals(o) \cup Vals(s) /\ Once(Filled(o, slot, s))
    <3> HIDE DEF o
    <3>1. QED
      BY <2>1, <2>2, FillOnce
  <2>4. QED
    BY <1>3, <2>3
<1>7. Only(p)
  <2>1. \A q \in Proc \ {p} : table'[q] = table[q]
    OBVIOUS
  <2>2. QED
    BY <2>1 DEF Only, GoesOn
<1>8. OwnStack(p)' = OwnStack(p) /\ text'[p] = text[p] /\ stack'[p] = stack[p]
  BY DEF OwnStack
<1>9. InImage(p)' = InImage(p) \cup Vals(s)
  BY <1>6, <1>8 DEF InImage
<1>10. /\ InCall(p)' = {} /\ Once(Held(p)') /\ Once(claim'[p].got) /\ Once(drop'[p])
  <2>1. Vals(Held(p)') = {} /\ Once(Held(p)')
    BY NothingHeld DEF Held, Cat
  <2>2. Vals(claim'[p].got) = {} /\ Once(claim'[p].got) /\ Vals(drop'[p]) = {} /\ Once(drop'[p])
    BY EmptyFact DEF GoesOn
  <2>3. QED
    BY <2>1, <2>2 DEF InCall
<1>11. Typed'
  BY <1>1, <1>3 DEF Typed, GoesOn
<1>12. /\ Mine(p)' \cap FreePages(pool') = {}
       /\ Mine(p)' \cup FreePages(pool') = Mine(p) \cup FreePages(pool)
  BY <1>4, <1>9, <1>10 DEF Mine
<1>13. Apart(p)'
  <2>1. /\ Vals(OwnTable(p)) \cap Vals(text[p]) = {} /\ Once(text[p])
        /\ Vals(<<OwnStack(p)>>) \cap (Vals(OwnTable(p)) \cup Vals(text[p])) = {}
    BY <1>1 DEF Apart
  <2>2. Vals(s) \cap Vals(text[p]) = {} /\ Vals(s) \cap Vals(<<OwnStack(p)>>) = {}
    BY <1>5 DEF InImage
  <2>3. /\ Vals(OwnTable(p)') \cap Vals(text'[p]) = {}
        /\ Vals(<<OwnStack(p)'>>) \cap (Vals(OwnTable(p)') \cup Vals(text'[p])) = {}
    BY <1>6, <1>8, <2>1, <2>2
  <2>4. QED
    BY <1>6, <1>8, <1>10, <2>1, <2>3 DEF Apart
<1>14. Phase(p)'
  BY <1>1, <1>8 DEF Phase, Loading, GoesOn
<1>15. Stages(p)'
  BY DEF Stages, GoesOn
<1>16. Kept(p)'
  BY <1>13, <1>14, <1>15 DEF Kept
<1>17. ASSUME NEW i \in Slot
       PROVE  table'[p][i] \in {NoPage, table[p][i]} \/ OwnTable(p)'[i] = table'[p][i]
  <2>1. table[p] \in [Slot -> Val] /\ OwnTable(p) \in [Slot -> Val]
    BY <1>1, OwnFact DEF Typed
  <2>2. CASE i - slot + 1 \in DOMAIN s
    BY <1>3, <2>2 DEF Filled
  <2>3. CASE ~(i - slot + 1 \in DOMAIN s)
    BY <1>3, <2>3 DEF Filled
  <2>4. QED
    BY <2>2, <2>3
<1>18. QED
  BY <1>7, <1>8, <1>11, <1>12, <1>16, <1>17, StepKept

\* What is cleared and what stays of a table.
LEMMA SplitFact ==
  ASSUME NEW t \in [Slot -> Val], NEW lo \in Nat, NEW hi \in Nat, hi <= SlotMax, Once(t)
  PROVE  /\ Tracked(t, lo, hi) \in Seq(Val) /\ Once(Tracked(t, lo, hi))
         /\ Cleared(t, lo, hi) \in [Slot -> Val] /\ Once(Cleared(t, lo, hi))
         /\ Vals(Tracked(t, lo, hi)) \cup Vals(Cleared(t, lo, hi)) = Vals(t)
         /\ Vals(Tracked(t, lo, hi)) \cap Vals(Cleared(t, lo, hi)) = {}
<1> DEFINE a == Tracked(t, lo, hi)
           b == Cleared(t, lo, hi)
<1>1. /\ a \in Seq(Val) /\ Once(a)
      /\ Vals(a) = {t[i] : i \in {i \in Slot : lo <= i /\ i < hi}} \ {NoPage}
  BY TrackedFact
<1>2. /\ b \in [Slot -> Val] /\ Once(b)
      /\ Vals(b) = {t[i] : i \in {i \in Slot : ~(lo <= i /\ i < hi)}} \ {NoPage}
  BY ClearedFact
<1> HIDE DEF a, b
<1>3. Vals(t) = {t[i] : i \in Slot} \ {NoPage} /\ DOMAIN t = Slot
  BY DEF Vals
<1>4. Vals(a) \cup Vals(b) = Vals(t)
  BY <1>1, <1>2, <1>3
<1>5. Vals(a) \cap Vals(b) = {}
  BY <1>1, <1>2, <1>3 DEF Once
<1>6. QED
  BY <1>1, <1>2, <1>4, <1>5 DEF a, b

\* The slots of p from lo up to hi have no page of its vfork parent.
OwnSlots(p, lo, hi) == \A i \in Slot : lo <= i /\ i < hi => OwnTable(p)[i] = table[p][i]

\* They are cleared, in p's table alone.
Clears(p, lo, hi) == table' = [table EXCEPT ![p] = Cleared(table[p], lo, hi)] /\ vparent' = vparent

LEMMA ClearOwn ==
  ASSUME Sane, NEW p \in Proc, life[p] = "run", NEW lo \in Nat, NEW hi \in Nat, hi <= SlotMax,
         OwnSlots(p, lo, hi), Clears(p, lo, hi)
  PROVE  /\ table' \in [Proc -> [Slot -> Val]] /\ table'[p] = Cleared(table[p], lo, hi)
         /\ OwnTable(p)' = Cleared(OwnTable(p), lo, hi)
         /\ Tracked(table[p], lo, hi) = Tracked(OwnTable(p), lo, hi)
<1> USE DEF Clears
<1>1. PICK anc \in [Proc -> SUBSET Proc] : Ancestry(anc)
  BY DEF Sane
<1>2. Typed
  BY DEF Sane
<1> DEFINE t == table[p]
           o == OwnTable(p)
           u == vparent[p]
           r == Cleared(t, lo, hi)
           x == Cleared(o, lo, hi)
<1>3. t \in [Slot -> Val] /\ table \in [Proc -> [Slot -> Val]] /\ o \in [Slot -> Val]
  BY <1>2, OwnFact DEF Typed
<1>4. r \in [Slot -> Val] /\ \A i \in Slot : r[i] = IF lo <= i /\ i < hi THEN NoPage ELSE t[i]
  BY <1>3, ClearedFact
<1>5. x \in [Slot -> Val] /\ \A i \in Slot : x[i] = IF lo <= i /\ i < hi THEN NoPage ELSE o[i]
  BY <1>3, ClearedFact
<1> HIDE DEF r, x
<1>6. table'[p] = r /\ table' \in [Proc -> [Slot -> Val]] /\ \A q \in Proc \ {p} : table'[q] = table[q]
  <2>1. table' = [table EXCEPT ![p] = r]
    BY DEF r
  <2>2. QED
    BY <1>3, <1>4, <2>1
<1>7. u # NULL => u \in Proc /\ table'[u] = table[u]
  BY <1>1, <1>2, <1>6, RunsAlone, OwnFact
<1>8. OwnTable(p)' = [i \in Slot |-> IF u # NULL /\ r[i] = table[u][i] THEN NoPage ELSE r[i]]
  <2>1. CASE u = NULL
    <3>1. OwnTable(p)' = r
      BY <1>6, <2>1 DEF OwnTable
    <3>2. QED
      BY <1>4, <2>1, <3>1
  <2>2. CASE u # NULL
    <3>1. OwnTable(p)' = [i \in Slot |-> IF table'[p][i] = table'[u][i] THEN NoPage ELSE table'[p][i]]
      BY <2>2 DEF OwnTable
    <3>2. QED
      BY <1>6, <1>7, <2>2, <3>1
  <2>3. QED
    BY <2>1, <2>2
<1>9. ASSUME NEW i \in Slot PROVE OwnTable(p)'[i] = x[i]
  <2>1. o[i] = IF u # NULL /\ t[i] = table[u][i] THEN NoPage ELSE t[i]
    BY <1>2, OwnSlot
  <2>2. QED
    BY <1>4, <1>5, <1>8, <2>1
<1>10. OwnTable(p)' = x
  BY <1>5, <1>8, <1>9
<1>11. Tracked(t, lo, hi) = Tracked(o, lo, hi)
  <2> DEFINE n == IF hi > lo THEN hi - lo ELSE 0
  <2>1. ASSUME NEW i \in 1..n PROVE o[lo + i - 1] = t[lo + i - 1]
    <3>1. lo + i - 1 \in Slot /\ lo <= lo + i - 1 /\ lo + i - 1 < hi
      BY Numbers DEF Slot
    <3>2. QED
      BY <3>1 DEF OwnSlots
  <2> HIDE DEF o
  <2>2. QED
    BY <2>1 DEF Tracked
<1>12. QED
  BY <1>6, <1>10, <1>11 DEF r, x

\* Own slots cleared, their pages to be freed.
LEMMA ClearStep ==
  ASSUME IInv, Sane, NEW p \in Proc, life[p] = "run", pc[p] \in {"user", "grow"}, drop[p] = << >>,
         NEW lo \in Nat, NEW hi \in Nat, hi <= SlotMax,
         OwnSlots(p, lo, hi), claim' = [claim EXCEPT ![p] = NoClaim],
         table' = [table EXCEPT ![p] = Cleared(table[p], lo, hi)],
         drop' = [drop EXCEPT ![p] = Tracked(table[p], lo, hi)],
         pc' = [pc EXCEPT ![p] = "user"],
         UNCHANGED <<stack, text, vparent, life, hold>>, FreePages(pool') = FreePages(pool),
         brk' \in [Proc -> [base : Nat, cur : Nat]], maps' \in [Proc -> SUBSET BlockType],
         \A q \in Proc \ {p} : brk'[q] = brk[q] /\ maps'[q] = maps[q],
         Heap(p)', Mappings(p)'
  PROVE  Sane'
<1> DEFINE o == OwnTable(p)
           d == Tracked(o, lo, hi)
           x == Cleared(o, lo, hi)
<1>1. /\ Typed /\ OneOwner /\ Apart(p) /\ Phase(p) /\ Mine(p) \cap FreePages(pool) = {}
      /\ pc \in [Proc -> Loading \cup {"user", "grow", "claim", "commit", "exit"}]
  BY DEF Sane, Kept, IInv, OneOwner
<1>2. hold[p] = NoHold /\ claim'[p] = NoClaim /\ claim' \in [Proc -> ClaimType] /\ InCall(p) = {}
  <2>1. hold[p] = NoHold /\ claim[p].got = << >>
    <3>1. Claiming(p)
      BY DEF Sane, Kept
    <3>2. QED
      BY <1>1, <3>1, NothingHeld DEF Phase, Claiming, Growing, Loading
  <2>2. Vals(Held(p)) = {} /\ Vals(claim[p].got) = {} /\ Vals(drop[p]) = {}
    BY <2>1, NothingHeld, EmptyFact DEF Held, Cat
  <2>3. claim'[p] = NoClaim /\ claim' \in [Proc -> ClaimType]
    BY <1>1, NothingHeld DEF Typed
  <2>4. QED
    BY <2>1, <2>2, <2>3 DEF InCall
<1>3. /\ table' \in [Proc -> [Slot -> Val]] /\ table'[p] = Cleared(table[p], lo, hi)
      /\ OwnTable(p)' = x /\ Tracked(table[p], lo, hi) = d
  <2>1. Clears(p, lo, hi)
    BY DEF Clears
  <2>2. QED
    BY <2>1, ClearOwn
<1>4. o \in [Slot -> Val] /\ Once(o)
  BY <1>1, OwnFact DEF Apart
<1>5. /\ d \in Seq(Val) /\ Once(d) /\ Once(x) /\ x \in [Slot -> Val]
      /\ Vals(d) \cup Vals(x) = Vals(o) /\ Vals(d) \cap Vals(x) = {}
  <2> HIDE DEF o
  <2>1. QED
    BY <1>4, SplitFact
<1>6. /\ drop'[p] = d /\ drop' \in [Proc -> Seq(Val)] /\ pc'[p] = "user" /\ Only(p)
  <2> HIDE DEF d
  <2>1. \A q \in Proc \ {p} : table'[q] = table[q]
    OBVIOUS
  <2>2. drop' = [drop EXCEPT ![p] = d]
    BY <1>3
  <2>3. QED
    BY <1>1, <1>5, <2>1, <2>2 DEF Typed, Only
<1> HIDE DEF d, x
<1>7. OwnStack(p)' = OwnStack(p) /\ text'[p] = text[p] /\ stack'[p] = stack[p]
  BY DEF OwnStack
<1>8. /\ InImage(p)' = Vals(x) \cup Vals(<<OwnStack(p)>>) \cup Vals(text[p])
      /\ InImage(p) = Vals(o) \cup Vals(<<OwnStack(p)>>) \cup Vals(text[p])
  BY <1>3, <1>7 DEF InImage
<1>9. /\ InCall(p)' = Vals(d) /\ Once(Held(p)') /\ Once(claim'[p].got) /\ Once(drop'[p])
  <2>1. Vals(Held(p)') = {} /\ Once(Held(p)')
    BY <1>2, NothingHeld DEF Held, Cat
  <2>2. Vals(claim'[p].got) = {} /\ Once(claim'[p].got)
    BY <1>2, NothingHeld, EmptyFact
  <2>3. QED
    BY <1>5, <1>6, <2>1, <2>2 DEF InCall
<1>10. /\ Vals(o) \cap Vals(text[p]) = {} /\ Once(text[p])
       /\ Vals(<<OwnStack(p)>>) \cap (Vals(o) \cup Vals(text[p])) = {}
  BY <1>1 DEF Apart
<1>11. Typed'
  BY <1>1, <1>2, <1>3, <1>6 DEF Typed
<1> HIDE DEF o
<1>12. Mine(p)' = Mine(p) /\ InImage(p)' \cap InCall(p)' = {}
  <2>1. Mine(p)' = Mine(p)
    BY <1>2, <1>5, <1>8, <1>9 DEF Mine
  <2>2. QED
    BY <1>5, <1>8, <1>9, <1>10, <2>1
<1>13. Apart(p)'
  <2>1. /\ Vals(x) \cap Vals(text[p]) = {}
        /\ Vals(<<OwnStack(p)>>) \cap (Vals(x) \cup Vals(text[p])) = {}
    BY <1>5, <1>10
  <2>2. QED
    BY <1>3, <1>5, <1>7, <1>9, <1>10, <1>12, <2>1 DEF Apart
<1>14. Phase(p)'
  BY <1>1, <1>2, <1>6, <1>7 DEF Phase, Loading
<1>15. Stages(p)' /\ Claiming(p)'
  BY <1>6 DEF Stages, Claiming
<1>16. Kept(p)'
  BY <1>13, <1>14, <1>15 DEF Kept
<1>17. ASSUME NEW i \in Slot PROVE  table'[p][i] \in {NoPage, table[p][i]}
  BY <1>1, <1>3 DEF Cleared, Typed
<1>18. QED
  BY <1>1, <1>2, <1>6, <1>7, <1>11, <1>12, <1>16, <1>17, StepKept

-----------------------------------------------------------------------------
(* brk, mmap2 and munmap *)

\* A program's heap shrinks.
LEMMA BrkShrinkKept ==
  ASSUME IInv, Sane, NEW p \in Proc, NEW e \in 1..(PageCount + 1), Brk(p, e),
         e - Page0(p) < brk[p].cur - Page0(p)
  PROVE  Sane'
<1> DEFINE f == table[p][0]
           old == brk[p].cur - f
           new == e - f
<1>1. At(p, "user") /\ vparent[p] = NULL /\ life[p] = "run" /\ pc[p] = "user"
  BY DEF Brk, Enter, At
<1>2. Settled(p) /\ Typed /\ Mappings(p)
  BY <1>1 DEF Settled, Sane, Kept
<1>3. /\ Page0(p) = f /\ f \in Page /\ f < brk[p].base /\ brk[p].base <= brk[p].cur /\ 0 \in Slot
      /\ brk[p].cur - f <= SlotMax /\ brk[p].base \in Nat /\ brk[p].cur \in Nat
      /\ \A i \in 0..(brk[p].cur - f - 1) : table[p][i] = f + i
  BY <1>2, Page0Fact DEF Typed
<1>4. f \in Nat /\ PageCount \in Nat /\ SlotMax \in Nat /\ e \in Nat /\ brk[p].base <= e
  BY <1>3, Numbers DEF Page, Brk
<1>5. new \in Nat /\ old \in Nat /\ 0 < new /\ new < old /\ old <= SlotMax
  BY <1>3, <1>4
<1>6. /\ brk' = [brk EXCEPT ![p].cur = e]
      /\ drop' = [drop EXCEPT ![p] = Tracked(table[p], new, old)]
      /\ pc' = [pc EXCEPT ![p] = "user"]
      /\ table' = [table EXCEPT ![p] = Cleared(table[p], new, old)]
      /\ UNCHANGED <<pool, stack, text, vparent, life, hold, claim, maps>>
  <2>1. ~(new > old)
    BY <1>5
  <2>2. QED
    BY <1>3, <2>1 DEF Brk, Goto, FreeThen
<1> HIDE DEF new, old
<1>7. OwnSlots(p, new, old)
  BY <1>1, <1>2, OwnFact DEF OwnSlots
<1>8. /\ table'[p] = Cleared(table[p], new, old) /\ OwnTable(p)' = Cleared(OwnTable(p), new, old)
  <2>1. Clears(p, new, old)
    BY <1>6 DEF Clears
  <2>2. QED
    BY <1>1, <1>5, <1>7, <2>1, ClearOwn
<1>9. /\ brk' \in [Proc -> [base : Nat, cur : Nat]] /\ brk'[p].base = brk[p].base /\ brk'[p].cur = e
      /\ \A q \in Proc \ {p} : brk'[q] = brk[q]
  BY <1>2, <1>4, <1>6 DEF Typed
<1>10. ASSUME NEW i \in Slot, ~(new <= i /\ i < old)
       PROVE  table'[p][i] = table[p][i] /\ OwnTable(p)'[i] = OwnTable(p)[i]
  BY <1>8, <1>10 DEF Cleared
<1>11. table'[p][0] = f
  BY <1>3, <1>5, <1>10
<1>12. Heap(p)'
  <2>1. ASSUME NEW i \in 0..(e - f - 1) PROVE table'[p][i] = f + i
    <3>1. i \in Slot /\ i < new /\ i \in 0..(brk[p].cur - f - 1) /\ i \in Nat
      BY <1>3, <1>4, <1>5 DEF new, old, Slot
    <3>2. QED
      BY <1>3, <1>5, <1>10, <3>1
  <2>2. e - f <= SlotMax /\ f < brk[p].base
    BY <1>3, <1>4, <1>5 DEF new, old
  <2>3. QED
    BY <1>3, <1>4, <1>9, <1>11, <2>1, <2>2 DEF Heap
<1>13. Mappings(p)'
  <2>1. ASSUME NEW m \in maps[p] PROVE \E s \in Slot : LiesAt(p, m, s)'
    <3>1. PICK s \in Slot : LiesAt(p, m, s)
      BY <1>2 DEF Mappings
    <3>2. old <= s /\ s \in Nat
      BY <1>2, <3>1, Numbers DEF LiesAt, old
    <3>3. ASSUME NEW k \in 0..(m.pages - 1)
          PROVE  s + k \in Slot /\ OwnTable(p)'[s + k] = m.base + k
      <4>1. s + k \in Slot /\ OwnTable(p)[s + k] = m.base + k
        BY <3>1 DEF LiesAt
      <4>2. ~(s + k < old)
        BY <1>5, <3>2
      <4>3. QED
        BY <1>10, <4>1, <4>2
    <3>4. e - f <= s
      BY <1>5, <3>2 DEF new
    <3>5. LiesAt(p, m, s)'
      BY <1>9, <1>11, <3>3, <3>4 DEF LiesAt
    <3>6. QED
      BY <3>5
  <2>2. QED
    BY <1>2, <1>6, <2>1 DEF Mappings
<1>14. maps' \in [Proc -> SUBSET BlockType] /\ \A q \in Proc \ {p} : maps'[q] = maps[q]
  BY <1>2, <1>6 DEF Typed
<1>15. /\ claim' = [claim EXCEPT ![p] = NoClaim] /\ drop[p] = << >> /\ pc[p] \in {"user", "grow"}
       /\ FreePages(pool') = FreePages(pool)
  BY <1>1, <1>2, <1>6, AtUser DEF Typed
<1>16. QED
  BY <1>1, <1>5, <1>6, <1>7, <1>9, <1>12, <1>13, <1>14, <1>15, ClearStep

\* The pages of a mapping are in own slots.
LEMMA MapPages ==
  ASSUME Sane, NEW p \in Proc, NEW m \in maps[p]
  PROVE  PagesOf(m) \subseteq Vals(OwnTable(p)) /\ m \in BlockType
<1>1. Typed /\ Mappings(p)
  BY DEF Sane, Kept
<1>2. m \in BlockType /\ m.base \in Nat /\ m.base > 0 /\ m.pages \in Nat /\ m.pages > 0
  BY <1>1, Numbers DEF Typed, BlockType, Page
<1>3. PICK s \in Slot : LiesAt(p, m, s)
  BY <1>1 DEF Mappings
<1>4. OwnTable(p) \in [Slot -> Val]
  BY <1>1, OwnFact
<1>5. ASSUME NEW g \in PagesOf(m) PROVE g \in Vals(OwnTable(p))
  <2>1. g - m.base \in 0..(m.pages - 1) /\ m.base + (g - m.base) = g /\ g # 0
    BY <1>2 DEF PagesOf, After
  <2>2. s + (g - m.base) \in Slot /\ OwnTable(p)[s + (g - m.base)] = g
    BY <1>3, <2>1 DEF LiesAt
  <2>3. QED
    BY <1>4, <2>1, <2>2 DEF Vals, NoPage
<1>6. QED
  BY <1>2, <1>5

\* Filling empty slots leaves the others alone.
LEMMA FillAt ==
  ASSUME NEW t \in [Slot -> Val], NEW lo \in Nat, NEW s \in Seq(Page), lo + Len(s) <= SlotMax,
         Vacant(t, lo, Len(s)), NEW i \in Slot, t[i] # NoPage
  PROVE  (i < lo \/ lo + Len(s) <= i) /\ Filled(t, lo, s)[i] = t[i]
<1>1. i \in Nat /\ Len(s) \in Nat
  BY Numbers
<1>2. i < lo \/ lo + Len(s) <= i
  BY <1>1 DEF Vacant
<1>3. QED
  BY <1>2, FilledFact

\* Consecutive pages put in empty slots and given to the program.
LEMMA MapStep ==
  ASSUME IInv, Sane, NEW p \in Proc, life[p] = "run", NEW s \in Seq(Page), NEW slot \in Nat,
         slot + Len(s) <= SlotMax, Once(s), Len(s) > 0, NEW g \in Page,
         \A i \in 1..Len(s) : s[i] = g + (i - 1),
         Vacant(table[p], slot, Len(s)),
         table' = [table EXCEPT ![p] = Filled(table[p], slot, s)],
         Vals(s) \cup FreePages(pool') = InCall(p) \cup FreePages(pool),
         Vals(s) \cap FreePages(pool') = {},
         hold[p] = NoHold, drop[p] = << >>, pc[p] \notin {"exit", "commit"},
         claim' = [claim EXCEPT ![p] = NoClaim], pc' = [pc EXCEPT ![p] = "user"],
         UNCHANGED <<brk, stack, text, vparent, life, hold, drop>>,
         maps' = [maps EXCEPT ![p] = @ \cup {Block(g, Len(s))}]
  PROVE  Sane'
<1> DEFINE n == Len(s)
           m0 == Block(g, n)
<1>1. /\ Typed /\ Apart(p) /\ Heap(p) /\ Mappings(p) /\ Mine(p) \cap FreePages(pool) = {}
      /\ pc \in [Proc -> Loading \cup {"user", "grow", "claim", "commit", "exit"}]
  BY DEF Sane, Kept, IInv, OneOwner
<1>2. Vals(s) \subseteq Mine(p) \cup FreePages(pool)
  BY DEF Mine
<1>3. /\ table'[p] = Filled(table[p], slot, s) /\ OwnTable(p)' = Filled(OwnTable(p), slot, s)
      /\ Vacant(OwnTable(p), slot, Len(s))
  BY <1>2, FillOwn
<1>4. table[p] \in [Slot -> Val] /\ OwnTable(p) \in [Slot -> Val]
  BY <1>1, OwnFact DEF Typed
<1>5. ASSUME NEW i \in Slot, table[p][i] # NoPage
      PROVE  table'[p][i] = table[p][i] /\ (i < slot \/ slot + n <= i)
  <2> DEFINE t == table[p]
  <2>1. t \in [Slot -> Val] /\ Vacant(t, slot, Len(s)) /\ t[i] # NoPage
    BY <1>4, <1>5
  <2>2. Filled(t, slot, s)[i] = t[i] /\ (i < slot \/ slot + Len(s) <= i)
    <3> HIDE DEF t
    <3>1. QED
      BY <2>1, FillAt
  <2>3. QED
    BY <1>3, <2>2
<1>6. ASSUME NEW i \in Slot, OwnTable(p)[i] # NoPage PROVE OwnTable(p)'[i] = OwnTable(p)[i]
  <2> DEFINE o == OwnTable(p)
  <2>1. o \in [Slot -> Val] /\ Vacant(o, slot, Len(s)) /\ o[i] # NoPage
    BY <1>3, <1>4, <1>6
  <2>2. Filled(o, slot, s)[i] = o[i]
    <3> HIDE DEF o
    <3>1. QED
      BY <2>1, FillAt
  <2>3. QED
    BY <1>3, <2>2
<1>7. n \in Nat /\ n > 0 /\ m0 \in BlockType /\ m0.base = g /\ m0.pages = n /\ g \in Nat /\ g > 0
  BY Numbers DEF Block, BlockType, Page
<1>8. /\ maps'[p] = maps[p] \cup {m0} /\ maps' \in [Proc -> SUBSET BlockType]
      /\ \A q \in Proc \ {p} : maps'[q] = maps[q]
  <2> HIDE DEF m0, n
  <2>1. maps' = [maps EXCEPT ![p] = @ \cup {m0}]
    BY DEF m0, n
  <2>2. maps \in [Proc -> SUBSET BlockType]
    BY <1>1 DEF Typed
  <2>3. QED
    BY <1>7, <2>1, <2>2
<1>9. /\ slot \in Slot
      /\ \A k \in 0..(n - 1) : slot + k \in Slot /\ OwnTable(p)'[slot + k] = g + k
  <2> DEFINE o == OwnTable(p)
  <2>1. o \in [Slot -> Val] /\ Vacant(o, slot, Len(s))
    BY <1>3, <1>4
  <2>2. \A i \in 1..Len(s) : slot + (i - 1) \in Slot /\ Filled(o, slot, s)[slot + (i - 1)] = s[i]
    <3> HIDE DEF o
    <3>1. QED
      BY <2>1, FilledFact
  <2>3. ASSUME NEW k \in 0..(n - 1) PROVE slot + k \in Slot /\ OwnTable(p)'[slot + k] = g + k
    <3>1. k + 1 \in 1..Len(s) /\ (k + 1) - 1 = k
      BY <1>7
    <3>2. QED
      BY <1>3, <2>2, <3>1
  <2>4. 0 \in 0..(n - 1) /\ slot + 0 = slot
    BY <1>7
  <2>5. QED
    BY <2>3, <2>4
<1>10. Settled(p)' <=> Settled(p)
  <2>1. pc'[p] = "user"
    BY <1>1
  <2>2. QED
    BY <2>1 DEF Settled
<1>11. ASSUME Settled(p)
       PROVE  /\ table'[p][0] = table[p][0] /\ brk[p].cur - table[p][0] <= slot
              /\ \A i \in 0..(brk[p].cur - table[p][0] - 1) : table'[p][i] = table[p][i]
  <2> DEFINE f == table[p][0]
             w == brk[p].cur - f
  <2>1. /\ f \in Page /\ 0 \in Slot /\ f < brk[p].base /\ brk[p].base <= brk[p].cur
        /\ w <= SlotMax /\ brk[p].base \in Nat /\ brk[p].cur \in Nat
        /\ \A i \in 0..(w - 1) : table[p][i] = f + i
    BY <1>1, <1>11, Page0Fact DEF Typed
  <2>2. f \in Nat /\ f > 0 /\ w \in Nat /\ w > 0 /\ SlotMax \in Nat
    <3>1. f \in Nat /\ f > 0
      BY <2>1 DEF Page
    <3> HIDE DEF f
    <3>2. QED
      BY <2>1, <3>1, Numbers
  <2> HIDE DEF w
  <2>3. ASSUME NEW i \in 0..(w - 1) PROVE i \in Slot /\ table[p][i] # NoPage
    <3>1. i \in Slot /\ f + i # 0
      BY <2>1, <2>2 DEF Slot
    <3>2. QED
      BY <2>1, <3>1 DEF NoPage
  <2>4. ~(slot < w)
    <3>1. SUFFICES ASSUME slot < w PROVE FALSE
      OBVIOUS
    <3>2. slot \in 0..(w - 1)
      BY <2>2, <3>1
    <3>3. QED
      BY <1>5, <1>7, <2>3, <3>2
  <2>5. QED
    BY <1>5, <2>1, <2>2, <2>3, <2>4 DEF w
<1>12. Heap(p)'
  BY <1>1, <1>10, <1>11 DEF Heap
<1>13. ASSUME NEW m \in maps'[p] PROVE \E a \in Slot : LiesAt(p, m, a)'
  <2>1. CASE m = m0
    <3>1. LiesAt(p, m, slot)'
      BY <1>7, <1>9, <1>10, <1>11, <2>1 DEF LiesAt
    <3>2. QED
      BY <1>9, <3>1
  <2>2. CASE m \in maps[p]
    <3>1. PICK a \in Slot : LiesAt(p, m, a)
      BY <1>1, <2>2 DEF Mappings
    <3>2. m \in BlockType /\ m.base \in Nat /\ m.base > 0
      <4>1. m \in BlockType
        BY <1>1, <2>2 DEF Typed
      <4>2. QED
        BY <4>1, Numbers DEF BlockType, Page
    <3>3. ASSUME NEW k \in 0..(m.pages - 1)
          PROVE  a + k \in Slot /\ OwnTable(p)'[a + k] = m.base + k
      <4>1. a + k \in Slot /\ OwnTable(p)[a + k] = m.base + k
        BY <3>1 DEF LiesAt
      <4>2. m.base + k # NoPage
        BY <3>2 DEF NoPage
      <4>3. QED
        BY <1>6, <4>1, <4>2
    <3>4. LiesAt(p, m, a)'
      BY <1>10, <1>11, <3>1, <3>3 DEF LiesAt
    <3>5. QED
      BY <3>4
  <2>3. QED
    BY <1>8, <2>1, <2>2
<1>14. ASSUME NEW m \in maps[p] PROVE PagesOf(m) \cap PagesOf(m0) = {}
  <2>1. PagesOf(m) \subseteq InImage(p)
    BY MapPages DEF InImage
  <2>2. Vals(s) \cap InImage(p) = {}
    BY <1>1 DEF Apart, Mine
  <2>3. PagesOf(m0) \subseteq Vals(s)
    <3>1. ASSUME NEW h \in PagesOf(m0) PROVE h \in Vals(s)
      <4>1. (h - g) + 1 \in 1..n /\ g + (((h - g) + 1) - 1) = h /\ h # 0
        BY <1>7 DEF PagesOf, After
      <4>2. s[(h - g) + 1] = h /\ (h - g) + 1 \in DOMAIN s
        BY <4>1
      <4>3. QED
        BY <4>1, <4>2 DEF Vals, NoPage
    <3>2. QED
      BY <3>1
  <2>4. QED
    BY <2>1, <2>2, <2>3
<1> HIDE DEF m0
<1>15. Mappings(p)'
  <2>1. \A m1, m2 \in maps'[p] : m1 = m2 \/ PagesOf(m1) \cap PagesOf(m2) = {}
    BY <1>1, <1>8, <1>14 DEF Mappings
  <2>2. QED
    BY <1>13, <2>1 DEF Mappings
<1>16. brk' \in [Proc -> [base : Nat, cur : Nat]] /\ \A q \in Proc \ {p} : brk'[q] = brk[q]
  BY <1>1 DEF Typed
<1>17. GoesOn(p) /\ pc'[p] = "user"
  BY <1>1, NothingHeld DEF Typed, GoesOn
<1>18. Claiming(p)'
  BY <1>17 DEF Claiming
<1>19. QED
  BY <1>8, <1>12, <1>15, <1>16, <1>17, <1>18, FillStep

LEMMA MmapKept ==
  ASSUME IInv, Sane, NEW p \in Proc, NEW n \in MapSizes, Mmap(p, n)
  PROVE  Sane'
<1> DEFINE slot == Max(FreeRuns(p, n))
           g == TakeN(pool, n).page
           s == Run(g, n)
<1>1. n \in Nat \ {0} /\ At(p, "user") /\ Typed /\ Well(pool)
      /\ pc \in [Proc -> Loading \cup {"user", "grow", "claim", "commit", "exit"}]
  BY MemoryAssumption DEF Mmap, Enter, Sane, IInv
<1>2. /\ life[p] = "run" /\ pc[p] = "user" /\ drop[p] = << >> /\ pc[p] \notin {"exit", "commit"}
      /\ hold[p] = NoHold /\ claim[p] = NoClaim /\ InCall(p) = {}
  BY <1>1, AtUser
<1>3. slot \in Nat /\ slot + n <= SlotMax /\ Vacant(table[p], slot, n)
  BY <1>1, RunFound DEF Mmap, Vacant
<1>4. /\ g # NoPage /\ pool' = TakeN(pool, n).pool
      /\ table' = [table EXCEPT ![p] = Filled(table[p], slot, s)]
      /\ maps' = [maps EXCEPT ![p] = @ \cup {Block(g, n)}]
      /\ UNCHANGED <<brk, stack, text, vparent, life, pc, hold, claim, drop>>
  BY DEF Mmap
<1> HIDE DEF slot
<1>5. /\ g \in Page /\ g + n <= PageCount + 1 /\ Span(g, n) \subseteq FreePages(pool)
      /\ FreePages(pool') = FreePages(pool) \ Span(g, n)
  BY <1>1, <1>4, TakeNCorrect
<1> HIDE DEF g
<1>6. /\ s \in Seq(Page) /\ Len(s) = n /\ Vals(s) = Span(g, n) /\ Once(s)
      /\ \A i \in 1..n : s[i] = g + (i - 1)
  BY <1>1, <1>5, RunFact
<1> HIDE DEF s
<1>7. claim' = [claim EXCEPT ![p] = NoClaim] /\ pc' = [pc EXCEPT ![p] = "user"]
  BY <1>1, <1>2, <1>4 DEF Typed
<1>8. /\ Vals(s) \cup FreePages(pool') = InCall(p) \cup FreePages(pool)
      /\ Vals(s) \cap FreePages(pool') = {}
  BY <1>2, <1>5, <1>6
<1>9. /\ slot + Len(s) <= SlotMax /\ Len(s) > 0 /\ Vacant(table[p], slot, Len(s))
      /\ \A i \in 1..Len(s) : s[i] = g + (i - 1)
      /\ maps' = [maps EXCEPT ![p] = @ \cup {Block(g, Len(s))}]
  BY <1>1, <1>3, <1>4, <1>6
<1>10. QED
  BY <1>2, <1>3, <1>4, <1>5, <1>6, <1>7, <1>8, <1>9, MapStep, ZenonT(40)

\* The pages MAP_FIXED took go to their slots.
LEMMA ClaimDoneKept ==
  ASSUME IInv, Sane, NEW p \in Proc, ClaimDone(p)
  PROVE  Sane'
<1> DEFINE c == claim[p]
           s == c.got
           slot == c.slot
<1>1. /\ Typed /\ Apart(p) /\ Phase(p) /\ Claiming(p)
      /\ Mine(p) \cap FreePages(pool) = {}
      /\ pc \in [Proc -> Loading \cup {"user", "grow", "claim", "commit", "exit"}]
  BY DEF Sane, Kept, IInv, OneOwner
<1>2. /\ life[p] = "run" /\ pc[p] = "claim" /\ drop[p] = << >> /\ Len(s) = c.n
      /\ table' = [table EXCEPT ![p] = Filled(table[p], slot, s)]
      /\ claim' = [claim EXCEPT ![p] = NoClaim] /\ pc' = [pc EXCEPT ![p] = "user"]
      /\ UNCHANGED <<pool, brk, stack, text, vparent, life, hold, drop>>
      /\ maps' = [maps EXCEPT ![p] = @ \cup {Block(c.at, c.n)}]
  BY DEF ClaimDone, At, Goto
<1>3. /\ c \in ClaimType /\ s \in Seq(Page) /\ c.at \in Nat /\ c.n \in Nat /\ slot \in Nat
      /\ Len(s) \in Nat
  BY <1>1 DEF Typed, ClaimType
<1>4. /\ Len(s) > 0 /\ slot + Len(s) <= SlotMax
      /\ \A i \in 1..Len(s) : s[i] = c.at + (i - 1)
      /\ Vacant(table[p], slot, Len(s))
  BY <1>1, <1>2 DEF Claiming, Vacant
<1>5. c.at \in Page
  <2>1. 1 \in 1..Len(s) /\ c.at + (1 - 1) = c.at
    BY <1>3, <1>4
  <2>2. s[1] \in Page
    BY <1>3, <2>1
  <2>3. QED
    BY <1>4, <2>1, <2>2
<1>6. hold[p] = NoHold /\ pc[p] \notin {"exit", "commit"} /\ InCall(p) = Vals(s)
  <2>1. hold[p] = NoHold
    BY <1>1, <1>2 DEF Phase, Loading
  <2>2. Vals(Held(p)) = {} /\ Vals(drop[p]) = {}
    BY <1>2, <2>1, NothingHeld, EmptyFact DEF Held, Cat
  <2>3. QED
    BY <1>2, <2>1, <2>2 DEF InCall
<1>7. Once(s) /\ Vals(s) \cap FreePages(pool) = {}
  BY <1>1, <1>6 DEF Apart, Mine
<1>8. /\ Vals(s) \cup FreePages(pool') = InCall(p) \cup FreePages(pool)
      /\ Vals(s) \cap FreePages(pool') = {}
  BY <1>2, <1>6, <1>7
<1>9. maps' = [maps EXCEPT ![p] = @ \cup {Block(c.at, Len(s))}]
  BY <1>2
<1> HIDE DEF c, s, slot
<1>10. QED
  BY <1>2, <1>3, <1>4, <1>5, <1>6, <1>7, <1>8, <1>9, MapStep

\* A growing heap: what is known of it, and of the call.
LEMMA GrowFact ==
  ASSUME IInv, Sane, NEW p \in Proc, At(p, "grow")
  PROVE  LET c == claim[p]
             f == table[p][0]
         IN  /\ life[p] = "run" /\ pc[p] = "grow" /\ drop[p] = << >> /\ hold[p] = NoHold
             /\ InCall(p) = {} /\ vparent[p] = NULL /\ OwnTable(p) = table[p] /\ Settled(p)
             /\ c \in ClaimType /\ c.got = << >> /\ c.at \in Nat /\ c.n \in Nat /\ c.slot \in Nat
             /\ c.slot + c.n <= SlotMax /\ c.at = f + c.slot
             /\ Page0(p) = f /\ f \in Nat /\ f > 0 /\ 0 \in Slot /\ brk[p].base \in Nat /\ brk[p].cur \in Nat
             /\ f < brk[p].base /\ brk[p].base <= brk[p].cur /\ brk[p].cur - f <= c.slot
             /\ brk[p].cur - f \in Nat /\ brk[p].cur - f > 0
             /\ \A i \in 0..(c.slot - 1) : table[p][i] = f + i
             /\ \A m \in maps[p] : \E s \in Slot : c.slot <= s /\ LiesAt(p, m, s)
<1>1. Typed /\ Phase(p) /\ Claiming(p) /\ life[p] = "run" /\ pc[p] = "grow" /\ drop[p] = << >>
  BY DEF Sane, Kept, At
<1>2. hold[p] = NoHold /\ Growing(p)
  BY <1>1 DEF Phase, Claiming, Loading
<1>3. claim[p] \in ClaimType /\ claim[p].at \in Nat /\ claim[p].n \in Nat /\ claim[p].slot \in Nat
  BY <1>1 DEF Typed, ClaimType
<1>4. vparent[p] = NULL /\ claim[p].got = << >> /\ OwnTable(p) = table[p]
  BY <1>1, <1>2, OwnFact DEF Growing
<1>5. InCall(p) = {}
  BY <1>1, <1>2, <1>4, NothingHeld, EmptyFact DEF InCall, Held, Cat
<1>6. Settled(p)
  BY <1>1, <1>4 DEF Settled
<1>7. /\ Page0(p) = table[p][0] /\ table[p][0] \in Page /\ 0 \in Slot
      /\ table[p][0] < brk[p].base /\ brk[p].base <= brk[p].cur
  BY <1>6, Page0Fact
<1>8. brk[p].base \in Nat /\ brk[p].cur \in Nat /\ table[p][0] \in Nat /\ table[p][0] > 0
  BY <1>1, <1>7, Numbers DEF Typed, Page
<1>9. brk[p].cur - table[p][0] \in Nat /\ brk[p].cur - table[p][0] > 0
  BY <1>7, <1>8
<1>10. QED
  BY <1>1, <1>2, <1>3, <1>4, <1>5, <1>6, <1>7, <1>8, <1>9 DEF Growing

\* The next page of a growing heap, in an empty slot.
LEMMA BrkTakes ==
  ASSUME IInv, Sane, NEW p \in Proc, BrkPage(p), TakeAt(pool, claim[p].at).page # NoPage
  PROVE  wild' \/ Sane'
<1> SUFFICES ASSUME ~wild' PROVE Sane'
  OBVIOUS
<1> DEFINE c == claim[p]
           f == table[p][0]
           a == TakeAt(pool, c.at)
           s == <<c.at>>
           d == [at |-> c.at + 1, n |-> c.n - 1, slot |-> c.slot + 1, got |-> << >>]
           t == table[p]
           x == Filled(t, c.slot, s)
<1>1. At(p, "grow")
  BY DEF BrkPage
<1>2. /\ life[p] = "run" /\ pc[p] = "grow" /\ drop[p] = << >> /\ hold[p] = NoHold
      /\ InCall(p) = {} /\ vparent[p] = NULL /\ OwnTable(p) = table[p] /\ Settled(p)
      /\ c.at \in Nat /\ c.n \in Nat /\ c.slot \in Nat
      /\ c.slot + c.n <= SlotMax /\ c.at = f + c.slot
      /\ f \in Nat /\ f > 0 /\ 0 \in Slot /\ brk[p].base \in Nat /\ brk[p].cur \in Nat
      /\ f < brk[p].base /\ brk[p].base <= brk[p].cur /\ brk[p].cur - f <= c.slot
      /\ brk[p].cur - f \in Nat /\ brk[p].cur - f > 0
      /\ \A i \in 0..(c.slot - 1) : table[p][i] = f + i
      /\ \A m \in maps[p] : \E k \in Slot : c.slot <= k /\ LiesAt(p, m, k)
  BY <1>1, GrowFact
<1>3. /\ Typed /\ Well(pool) /\ SlotMax \in Nat /\ NoPage \notin Page
      /\ pc \in [Proc -> Loading \cup {"user", "grow", "claim", "commit", "exit"}]
  BY Numbers DEF Sane, IInv
<1>4. /\ a.page = c.at /\ c.at \in Page /\ c.at \in FreePages(pool)
      /\ FreePages(pool') = FreePages(pool) \ {c.at}
  BY <1>3, TakeAtCorrect DEF BrkPage
<1>5. /\ c.n > 0 /\ table' = [table EXCEPT ![p] = x] /\ table[p][c.slot] = NoPage
      /\ claim' = [claim EXCEPT ![p] = d]
      /\ UNCHANGED <<brk, stack, text, vparent, life, hold, maps, pc, drop>>
  BY <1>4 DEF BrkPage
<1>6. s \in Seq(Page) /\ Len(s) = 1 /\ s[1] = c.at /\ Vals(s) = {c.at} /\ Once(s)
  <2>1. Vals(s) = {c.at} \ {NoPage} /\ Once(s)
    BY OneFact
  <2>2. c.at # NoPage
    BY <1>3, <1>4
  <2>3. QED
    BY <1>4, <2>1, <2>2
<1>7. Vacant(t, c.slot, Len(s)) /\ c.slot + Len(s) <= SlotMax /\ c.slot \in Slot
  <2>1. ASSUME NEW i \in Slot, c.slot <= i, i < c.slot + 1 PROVE i = c.slot
    <3>1. i \in Nat
      BY Numbers
    <3>2. QED
      BY <1>2, <2>1, <3>1
  <2>2. c.slot + 1 <= SlotMax /\ c.slot \in Slot
    BY <1>2, <1>3, <1>5 DEF Slot
  <2>3. QED
    BY <1>5, <1>6, <2>1, <2>2 DEF Vacant
<1>8. t \in [Slot -> Val]
  BY <1>3 DEF Typed
<1> HIDE DEF s, t, d
<1>9. /\ x[c.slot] = c.at
      /\ \A i \in Slot : i # c.slot => x[i] = t[i]
  <2>1. /\ \A i \in 1..Len(s) : c.slot + (i - 1) \in Slot /\ x[c.slot + (i - 1)] = s[i]
        /\ \A i \in Slot : i < c.slot \/ c.slot + Len(s) <= i => x[i] = t[i]
    BY <1>2, <1>6, <1>7, <1>8, FilledFact
  <2>2. 1 \in 1..Len(s) /\ c.slot + (1 - 1) = c.slot
    BY <1>2, <1>6
  <2>3. \A i \in Slot : i # c.slot => i < c.slot \/ c.slot + 1 <= i
    BY <1>2, Numbers
  <2>4. QED
    BY <1>6, <2>1, <2>2, <2>3
<1>10. table'[p] = x /\ OwnTable(p)' = x
  <2>1. Vals(s) \subseteq Mine(p) \cup FreePages(pool) /\ vparent' = vparent
    BY <1>4, <1>5, <1>6
  <2>2. table' = [table EXCEPT ![p] = Filled(table[p], c.slot, s)]
    BY <1>5 DEF t
  <2>3. Vacant(table[p], c.slot, Len(s))
    BY <1>7 DEF t
  <2>4. table'[p] = Filled(table[p], c.slot, s) /\ OwnTable(p)' = Filled(OwnTable(p), c.slot, s)
    <3> HIDE DEF c
    <3>1. QED
      BY <1>2, <1>6, <1>7, <2>1, <2>2, <2>3, FillOwn
  <2>5. QED
    BY <1>2, <2>4 DEF t
<1> HIDE DEF x
<1>11. x[0] = f
  BY <1>2, <1>9 DEF t
<1>12. /\ d \in ClaimType /\ d.got = << >> /\ d.at = c.at + 1 /\ d.n = c.n - 1 /\ d.slot = c.slot + 1
  <2>1. c.n - 1 \in Nat /\ c.at + 1 \in Nat /\ c.slot + 1 \in Nat
    BY <1>2, <1>5
  <2>2. QED
    BY <2>1 DEF d, ClaimType
<1>13. /\ claim' \in [Proc -> ClaimType] /\ claim'[p] = d /\ pc'[p] = "grow" /\ brk' = brk
       /\ \A q \in Proc \ {p} : claim'[q] = claim[q] /\ pc'[q] = pc[q]
  BY <1>2, <1>3, <1>5, <1>12 DEF Typed
<1>14. Heap(p)'
  <2>1. ASSUME NEW i \in 0..(brk[p].cur - f - 1) PROVE x[i] = f + i
    <3>1. i \in 0..(c.slot - 1) /\ i \in Slot /\ i # c.slot
      <4>1. c.slot \in Slot /\ brk[p].cur - f \in Nat /\ brk[p].cur - f <= c.slot
        BY <1>2, <1>7
      <4> HIDE DEF c, f
      <4>2. QED
        BY <1>3, <4>1 DEF Slot
    <3>2. QED
      BY <1>2, <1>9, <3>1 DEF t
  <2>2. brk[p].cur - f <= SlotMax /\ f \in Page
    BY <1>2, <1>3, Page0Fact
  <2>3. QED
    BY <1>2, <1>10, <1>11, <1>13, <2>1, <2>2 DEF Heap
<1>15. ASSUME NEW m \in maps[p] PROVE \E k \in Slot : c.slot + 1 <= k /\ LiesAt(p, m, k)'
  <2>1. PICK k \in Slot : c.slot <= k /\ LiesAt(p, m, k)
    BY <1>2
  <2>2. m.base \in Nat /\ m.base > 0 /\ m.pages \in Nat /\ m.pages > 0
    BY <1>3, Numbers DEF Typed, BlockType, Page
  <2>3. \A i \in 0..(m.pages - 1) : k + i \in Slot /\ t[k + i] = m.base + i
    BY <1>2, <2>1 DEF LiesAt, t
  <2>4. ASSUME NEW i \in 0..(m.pages - 1) PROVE k + i \in Slot /\ x[k + i] = m.base + i
    <3>1. m.base + i # NoPage
      BY <2>2 DEF NoPage
    <3>2. k + i # c.slot
      BY <1>5, <2>3, <3>1 DEF t
    <3>3. QED
      BY <1>9, <2>3, <3>2
  <2>5. k # c.slot
    <3>1. 0 \in 0..(m.pages - 1) /\ k + 0 = k /\ m.base + 0 # NoPage
      BY <2>2, Numbers DEF NoPage
    <3>2. QED
      BY <1>5, <2>3, <3>1 DEF t
  <2>6. c.slot + 1 <= k /\ brk[p].cur - f <= k
    BY <1>2, <2>1, <2>5, Numbers
  <2>7. LiesAt(p, m, k)'
    BY <1>10, <1>11, <1>13, <2>4, <2>6 DEF LiesAt
  <2>8. QED
    BY <2>6, <2>7
<1>16. Mappings(p)'
  <2>1. Mappings(p)
    BY DEF Sane, Kept
  <2>2. QED
    BY <1>5, <1>15, <2>1 DEF Mappings
<1>17. Claiming(p)'
  <2>1. ASSUME NEW i \in 0..((c.slot + 1) - 1) PROVE x[i] = f + i
    <3>1. CASE i = c.slot
      BY <1>2, <1>9, <3>1
    <3>2. CASE i # c.slot
      <4>1. i \in 0..(c.slot - 1) /\ i \in Slot
        BY <1>2, <1>3, <1>7, <3>2 DEF Slot
      <4>2. QED
        BY <1>2, <1>9, <3>2, <4>1 DEF t
    <3>3. QED
      BY <3>1, <3>2
  <2>2. /\ d.slot + d.n <= SlotMax /\ brk[p].cur - f <= d.slot /\ d.at = f + d.slot
    <3>1. /\ c.slot \in Nat /\ c.n \in Nat /\ f \in Nat /\ brk[p].cur \in Nat
          /\ c.slot + c.n <= SlotMax /\ c.at = f + c.slot /\ brk[p].cur - f <= c.slot
      BY <1>2
    <3> HIDE DEF c, f
    <3>2. QED
      BY <1>3, <1>12, <3>1
  <2>3. Growing(p)'
    BY <1>2, <1>5, <1>10, <1>11, <1>12, <1>13, <1>15, <2>1, <2>2 DEF Growing
  <2>4. QED
    BY <1>13, <2>3 DEF Claiming
<1>18. /\ Vals(s) \cup FreePages(pool') = InCall(p) \cup FreePages(pool)
       /\ Vals(s) \cap FreePages(pool') = {}
  BY <1>2, <1>4, <1>6
<1>19. /\ table' = [table EXCEPT ![p] = Filled(table[p], c.slot, s)] /\ Vacant(table[p], c.slot, Len(s))
       /\ pc[p] \notin {"exit", "commit"} /\ GoesOn(p)
       /\ brk' \in [Proc -> [base : Nat, cur : Nat]] /\ maps' \in [Proc -> SUBSET BlockType]
       /\ \A q \in Proc \ {p} : brk'[q] = brk[q] /\ maps'[q] = maps[q]
  BY <1>2, <1>3, <1>5, <1>7, <1>12, <1>13 DEF t, x, Typed, GoesOn
<1> HIDE DEF c
<1>20. QED
  BY <1>2, <1>5, <1>6, <1>7, <1>14, <1>16, <1>17, <1>18, <1>19, FillStep

\* A page of it that is not free: the others go back.
LEMMA BrkGivesUp ==
  ASSUME IInv, Sane, NEW p \in Proc, BrkPage(p), TakeAt(pool, claim[p].at).page = NoPage
  PROVE  Sane'
<1> DEFINE c == claim[p]
           f == table[p][0]
           old == brk[p].cur - f
           t == table[p]
           x == Cleared(t, old, c.slot)
<1>1. At(p, "grow")
  BY DEF BrkPage
<1>2. /\ life[p] = "run" /\ pc[p] = "grow" /\ drop[p] = << >>
      /\ vparent[p] = NULL /\ OwnTable(p) = table[p] /\ Settled(p)
      /\ c.at \in Nat /\ c.n \in Nat /\ c.slot \in Nat
      /\ c.slot + c.n <= SlotMax /\ Page0(p) = f
      /\ f \in Nat /\ f > 0 /\ 0 \in Slot /\ brk[p].base \in Nat /\ brk[p].cur \in Nat
      /\ f < brk[p].base /\ brk[p].base <= brk[p].cur /\ old <= c.slot
      /\ old \in Nat /\ old > 0
      /\ \A i \in 0..(c.slot - 1) : table[p][i] = f + i
      /\ \A m \in maps[p] : \E k \in Slot : c.slot <= k /\ LiesAt(p, m, k)
  BY <1>1, GrowFact
<1>3. /\ Typed /\ Well(pool) /\ SlotMax \in Nat
      /\ pc \in [Proc -> Loading \cup {"user", "grow", "claim", "commit", "exit"}]
  BY Numbers DEF Sane, IInv
<1>4. FreePages(pool') = FreePages(pool)
  <2>1. \/ TakeAt(pool, c.at).pool = pool
        \/ TakeAt(pool, c.at).page \in Page
    BY <1>3, TakeAtCorrect
  <2>2. QED
    BY <2>1, Numbers DEF BrkPage
<1>5. /\ table' = [table EXCEPT ![p] = x] /\ drop' = [drop EXCEPT ![p] = Tracked(t, old, c.slot)]
      /\ claim' = [claim EXCEPT ![p] = NoClaim] /\ pc' = [pc EXCEPT ![p] = "user"]
      /\ UNCHANGED <<brk, stack, text, vparent, life, hold, maps>>
  BY <1>2 DEF BrkPage, FreeThen, Goto
<1>6. c.slot <= SlotMax
  BY <1>2, <1>3
<1>7. OwnSlots(p, old, c.slot)
  BY <1>2 DEF OwnSlots
<1> HIDE DEF old
<1>8. table'[p] = x /\ OwnTable(p)' = x
  <2>1. Clears(p, old, c.slot)
    BY <1>5 DEF Clears
  <2>2. table'[p] = x /\ OwnTable(p)' = Cleared(OwnTable(p), old, c.slot)
    BY <1>2, <1>6, <1>7, <2>1, ClearOwn
  <2>3. QED
    BY <1>2, <2>2
<1>9. \A i \in Slot : ~(old <= i /\ i < c.slot) => x[i] = t[i]
  BY DEF Cleared
<1>10. x[0] = f
  BY <1>2, <1>9
<1> HIDE DEF x, t
<1>11. Heap(p)'
  <2>1. ASSUME NEW i \in 0..(old - 1) PROVE x[i] = f + i
    <3>1. i \in 0..(c.slot - 1) /\ i \in Slot /\ ~(old <= i)
      BY <1>2, <1>3, <1>6 DEF Slot
    <3>2. QED
      BY <1>2, <1>9, <3>1 DEF t
  <2>2. brk[p].cur - f <= SlotMax /\ f \in Page
    BY <1>2, Page0Fact
  <2>3. QED
    BY <1>2, <1>5, <1>8, <1>10, <2>1, <2>2 DEF Heap, old
<1>12. ASSUME NEW m \in maps[p] PROVE \E k \in Slot : LiesAt(p, m, k)'
  <2>1. PICK k \in Slot : c.slot <= k /\ LiesAt(p, m, k)
    BY <1>2
  <2>2. m.pages \in Nat /\ k \in Nat
    BY <1>3, Numbers DEF Typed, BlockType
  <2>3. ASSUME NEW i \in 0..(m.pages - 1) PROVE k + i \in Slot /\ x[k + i] = m.base + i
    <3>1. k + i \in Slot /\ t[k + i] = m.base + i
      BY <1>2, <2>1 DEF LiesAt, t
    <3>2. ~(k + i < c.slot)
      BY <1>2, <2>1, <2>2
    <3>3. QED
      BY <1>9, <3>1, <3>2
  <2>4. brk[p].cur - f <= k
    BY <1>2, <2>1, <2>2 DEF old
  <2>5. LiesAt(p, m, k)'
    BY <1>5, <1>8, <1>10, <2>3, <2>4 DEF LiesAt
  <2>6. QED
    BY <2>5
<1>13. Mappings(p)'
  <2>1. Mappings(p)
    BY DEF Sane, Kept
  <2>2. QED
    BY <1>5, <1>12, <2>1 DEF Mappings
<1>14. /\ brk' \in [Proc -> [base : Nat, cur : Nat]] /\ maps' \in [Proc -> SUBSET BlockType]
       /\ \A q \in Proc \ {p} : brk'[q] = brk[q] /\ maps'[q] = maps[q]
       /\ table' = [table EXCEPT ![p] = Cleared(table[p], old, c.slot)]
       /\ drop' = [drop EXCEPT ![p] = Tracked(table[p], old, c.slot)]
       /\ pc[p] \in {"user", "grow"}
  BY <1>2, <1>3, <1>5 DEF Typed, x, t
<1> HIDE DEF c
<1>15. QED
  BY <1>2, <1>4, <1>5, <1>6, <1>7, <1>11, <1>13, <1>14, ClearStep

\* The heap has grown: the break moves.
LEMMA BrkDoneKept ==
  ASSUME IInv, Sane, NEW p \in Proc, BrkDone(p)
  PROVE  Sane'
<1> DEFINE c == claim[p]
           f == table[p][0]
           e == c.at
<1>1. At(p, "grow")
  BY DEF BrkDone
<1>2. /\ life[p] = "run" /\ pc[p] = "grow" /\ drop[p] = << >> /\ hold[p] = NoHold
      /\ InCall(p) = {} /\ vparent[p] = NULL /\ OwnTable(p) = table[p] /\ Settled(p)
      /\ c.at \in Nat /\ c.n \in Nat /\ c.slot \in Nat
      /\ c.slot + c.n <= SlotMax /\ c.at = f + c.slot
      /\ f \in Nat /\ f > 0 /\ 0 \in Slot /\ brk[p].base \in Nat /\ brk[p].cur \in Nat
      /\ f < brk[p].base /\ brk[p].base <= brk[p].cur /\ brk[p].cur - f <= c.slot
      /\ \A i \in 0..(c.slot - 1) : table[p][i] = f + i
      /\ \A m \in maps[p] : \E k \in Slot : c.slot <= k /\ LiesAt(p, m, k)
  BY <1>1, GrowFact
<1>3. /\ Typed /\ SlotMax \in Nat /\ f \in Page
      /\ pc \in [Proc -> Loading \cup {"user", "grow", "claim", "commit", "exit"}]
  BY <1>2, Page0Fact, Numbers DEF Sane, IInv
<1>4. /\ brk' = [brk EXCEPT ![p].cur = e] /\ claim' = [claim EXCEPT ![p] = NoClaim]
      /\ pc' = [pc EXCEPT ![p] = "user"]
      /\ UNCHANGED <<pool, table, stack, text, vparent, life, hold, drop, maps>>
  BY DEF BrkDone, Goto
<1> HIDE DEF e
<1>5. /\ brk' \in [Proc -> [base : Nat, cur : Nat]] /\ brk'[p].base = brk[p].base /\ brk'[p].cur = e
      /\ \A q \in Proc \ {p} : brk'[q] = brk[q]
  <2>1. e \in Nat
    BY <1>2 DEF e
  <2>2. QED
    BY <1>3, <1>4, <2>1, ZenonT(40) DEF Typed
<1>6. e - f = c.slot /\ brk[p].base <= e /\ c.slot <= SlotMax
  BY <1>2, <1>3 DEF e
<1>7. OwnTable(p)' = table[p] /\ table'[p][0] = f
  BY <1>2, <1>4 DEF OwnTable
<1>8. Heap(p)'
  BY <1>2, <1>3, <1>4, <1>5, <1>6 DEF Heap
<1>9. Mappings(p)'
  <2>1. ASSUME NEW m \in maps[p] PROVE \E k \in Slot : LiesAt(p, m, k)'
    <3>1. PICK k \in Slot : c.slot <= k /\ LiesAt(p, m, k)
      BY <1>2
    <3>2. LiesAt(p, m, k)'
      BY <1>2, <1>5, <1>6, <1>7, <3>1 DEF LiesAt
    <3>3. QED
      BY <3>2
  <2>2. Mappings(p)
    BY DEF Sane, Kept
  <2>3. QED
    BY <1>4, <2>1, <2>2 DEF Mappings
<1>10. /\ GoesOn(p) /\ pc'[p] = "user"
       /\ maps' \in [Proc -> SUBSET BlockType] /\ \A q \in Proc \ {p} : maps'[q] = maps[q]
  BY <1>3, <1>4, NothingHeld DEF Typed, GoesOn
<1>11. Claiming(p)'
  BY <1>10 DEF Claiming
<1> DEFINE s == << >>
<1>12. /\ s \in Seq(Page) /\ Len(s) = 0 /\ Vals(s) = {} /\ Once(s) /\ c.slot + Len(s) <= SlotMax
       /\ Vacant(table[p], c.slot, Len(s))
  <2>1. s \in Seq(Page) /\ Len(s) = 0
    OBVIOUS
  <2>2. Vals(s) = {} /\ Once(s)
    BY EmptyFact
  <2>3. c.slot \in Nat /\ c.slot <= SlotMax
    BY <1>2, <1>6
  <2> HIDE DEF s
  <2>4. c.slot + Len(s) = c.slot
    BY <2>1, <2>3
  <2>5. Vacant(table[p], c.slot, Len(s))
    BY <2>3, <2>4, Numbers DEF Vacant
  <2>6. QED
    BY <2>1, <2>2, <2>3, <2>4, <2>5
<1>13. table' = [table EXCEPT ![p] = Filled(table[p], c.slot, s)]
  <2>1. table[p] \in [Slot -> Val] /\ table \in [Proc -> [Slot -> Val]] /\ DOMAIN s = {}
    BY <1>3 DEF Typed
  <2>2. Filled(table[p], c.slot, s) = table[p]
    BY <2>1 DEF Filled
  <2>3. QED
    BY <1>4, <2>1, <2>2
<1>14. /\ Vals(s) \cup FreePages(pool') = InCall(p) \cup FreePages(pool)
       /\ Vals(s) \cap FreePages(pool') = {} /\ pc[p] \notin {"exit", "commit"}
  BY <1>2, <1>4, <1>12
<1> HIDE DEF s, c
<1>15. QED
  BY <1>2, <1>4, <1>5, <1>8, <1>9, <1>10, <1>11, <1>12, <1>13, <1>14, FillStep

\* sys_munmap looks up the slot of b: it is where the mapping lies, and the n
\* slots from there on are all in use.
LEMMA SlotFound ==
  ASSUME Sane, NEW p \in Proc, life[p] = "run", NEW m \in maps[p], NEW a \in Slot, LiesAt(p, m, a),
         NEW b \in PagesOf(m), NEW n \in 1..(After(m) - b)
  PROVE  LET i == Min({j \in Slot : table[p][j] = b})
             full == {k \in i..SlotMax : \A j \in i..(k - 1) : table[p][j] # NoPage}
         IN  /\ i = a + (b - m.base) /\ i \in Nat /\ i + n \in Nat /\ i + n <= SlotMax
             /\ OwnSlots(p, i, i + n) /\ Min({i + n, Max(full)}) = i + n
<1> DEFINE S == {j \in Slot : table[p][j] = b}
           i == Min(S)
           full == {k \in i..SlotMax : \A j \in i..(k - 1) : table[p][j] # NoPage}
           k0 == b - m.base
<1>1. Typed /\ Apart(p) /\ OwnTable(p) \in [Slot -> Val] /\ SlotMax \in Nat /\ a \in Nat
  BY OwnFact, Numbers DEF Sane, Kept
<1>2. m \in BlockType /\ m.base \in Nat /\ m.base > 0 /\ m.pages \in Nat /\ m.pages > 0
  BY <1>1, Numbers DEF Typed, BlockType, Page
<1>3. /\ b \in Nat /\ n \in Nat /\ n > 0 /\ k0 \in Nat /\ k0 + n <= m.pages /\ m.base + k0 = b
      /\ k0 \in 0..(m.pages - 1)
  BY <1>2 DEF PagesOf, After
<1> HIDE DEF k0
<1>4. ASSUME NEW k \in 0..(m.pages - 1)
      PROVE  /\ a + k \in Slot /\ OwnTable(p)[a + k] = m.base + k
             /\ table[p][a + k] = m.base + k /\ m.base + k # NoPage
  <2>1. a + k \in Slot /\ OwnTable(p)[a + k] = m.base + k
    BY DEF LiesAt
  <2>2. m.base + k # NoPage
    BY <1>2 DEF NoPage
  <2>3. QED
    BY <1>1, <2>1, <2>2, OwnFact
<1>5. i \in S
  <2>1. a + k0 \in S
    BY <1>3, <1>4
  <2>2. S \in SUBSET Nat
    BY Numbers
  <2> HIDE DEF S
  <2>3. QED
    BY <2>1, <2>2, MinFact
<1>6. i = a + k0
  <2>1. /\ i \in Slot /\ table[p][i] = b /\ b # NoPage /\ a + k0 \in Slot
        /\ OwnTable(p)[a + k0] = b
    BY <1>3, <1>4, <1>5
  <2> HIDE DEF i
  <2>2. b \in Mine(p)
    BY <1>1, <2>1 DEF Mine, InImage, Vals
  <2>3. OwnTable(p)[i] = b
    BY <2>1, <2>2, OwnEverywhere
  <2>4. QED
    BY <1>1, <2>1, <2>3 DEF Apart, Once
<1> HIDE DEF i
<1>7. ASSUME NEW j, j \in Nat, i <= j, j < i + n
      PROVE  j \in Slot /\ OwnTable(p)[j] = table[p][j] /\ table[p][j] # NoPage
  <2>1. j - a \in 0..(m.pages - 1) /\ a + (j - a) = j
    BY <1>1, <1>2, <1>3, <1>6, <1>7
  <2>2. QED
    BY <1>4, <2>1
<1>8. i \in Nat /\ i + n \in Nat /\ i + n <= SlotMax
  <2>1. i \in Nat /\ i + n \in Nat
    BY <1>1, <1>3, <1>6
  <2>2. (i + n) - 1 \in Nat /\ i <= (i + n) - 1 /\ (i + n) - 1 < i + n
    BY <1>3, <2>1
  <2>3. (i + n) - 1 \in Slot
    BY <1>7, <2>2
  <2>4. QED
    BY <1>1, <2>1, <2>3 DEF Slot
<1>9. OwnSlots(p, i, i + n)
  BY <1>7, Numbers DEF OwnSlots
<1>10. i + n \in full
  <2>1. i + n \in i..SlotMax
    BY <1>1, <1>3, <1>8
  <2>2. ASSUME NEW j \in i..((i + n) - 1) PROVE table[p][j] # NoPage
    <3>1. j \in Nat /\ i <= j /\ j < i + n
      BY <1>8
    <3>2. QED
      BY <1>7, <3>1
  <2>3. QED
    BY <2>1, <2>2
<1>11. full \in SUBSET (0..SlotMax)
  BY <1>1, <1>8
<1> HIDE DEF full
<1> DEFINE M == Max(full)
<1>12. M \in full /\ i + n <= M /\ M \in Nat
  <2>1. full # {}
    BY <1>10
  <2>2. M \in full /\ \A y \in full : y <= M
    BY <1>11, <2>1, MaxFact
  <2>3. M \in Nat
    <3> HIDE DEF M
    <3>1. M \in 0..SlotMax
      BY <1>11, <2>2
    <3>2. QED
      BY <1>1, <3>1
  <2>4. QED
    BY <1>10, <2>2, <2>3
<1> HIDE DEF M
<1>13. Min({i + n, M}) = i + n
  <2>1. {i + n, M} \in SUBSET Nat /\ {i + n, M} # {}
    BY <1>8, <1>12
  <2>2. Min({i + n, M}) \in {i + n, M} /\ Min({i + n, M}) <= i + n
    BY <2>1, MinFact
  <2> DEFINE x == Min({i + n, M})
  <2> HIDE DEF x
  <2>3. x \in {i + n, M} /\ x <= i + n
    BY <2>2 DEF x
  <2>4. x = i + n
    BY <1>8, <1>12, <2>3
  <2>5. QED
    BY <2>4 DEF x
<1>14. QED
  BY <1>6, <1>8, <1>9, <1>13 DEF i, full, M, k0

LEMMA MunmapKept ==
  ASSUME IInv, Sane, NEW p \in Proc, NEW m \in maps[p], NEW b \in PagesOf(m),
         NEW n \in 1..(After(m) - b), Munmap(p, m, b, n)
  PROVE  Sane'
<1> DEFINE i == Min({j \in Slot : table[p][j] = b})
           r1 == Block(m.base, b - m.base)
           r2 == Block(b + n, After(m) - b - n)
           f == table[p][0]
           w == brk[p].cur - f
<1>1. /\ Typed /\ Apart(p) /\ Heap(p) /\ Mappings(p)
      /\ pc \in [Proc -> Loading \cup {"user", "grow", "claim", "commit", "exit"}]
  BY DEF Sane, Kept, IInv
<1>2. At(p, "user") /\ life[p] = "run" /\ pc[p] = "user"
  BY DEF Munmap, Enter, At
<1>3. PICK a \in Slot : LiesAt(p, m, a)
  BY <1>1 DEF Mappings
<1>4. /\ m \in BlockType /\ m.base \in Page /\ m.base \in Nat /\ m.base > 0
      /\ m.pages \in Nat /\ m.pages > 0 /\ a \in Nat /\ SlotMax \in Nat
  BY <1>1, Numbers DEF Typed, BlockType, Page
<1>5. /\ b \in Nat /\ n \in Nat /\ n > 0 /\ m.base <= b /\ b + n <= m.base + m.pages
  BY <1>4 DEF PagesOf, After
<1>6. /\ i = a + (b - m.base) /\ i \in Nat /\ i + n \in Nat /\ i + n <= SlotMax
      /\ OwnSlots(p, i, i + n)
      /\ drop' = [drop EXCEPT ![p] = Tracked(table[p], i, i + n)]
      /\ pc' = [pc EXCEPT ![p] = "user"]
      /\ table' = [table EXCEPT ![p] = Cleared(table[p], i, i + n)]
      /\ maps' = [maps EXCEPT ![p] = (maps[p] \ {m}) \cup {r \in {r1, r2} : r.pages > 0}]
      /\ UNCHANGED <<pool, brk, stack, text, vparent, life, hold, claim>>
  <2> DEFINE full == {k \in i..SlotMax : \A j \in i..(k - 1) : table[p][j] # NoPage}
             to == Min({i + n, Max(full)})
  <2>1. /\ drop' = [drop EXCEPT ![p] = Tracked(table[p], i, to)]
        /\ pc' = [pc EXCEPT ![p] = "user"]
        /\ table' = [table EXCEPT ![p] = Cleared(table[p], i, to)]
        /\ maps' = [maps EXCEPT ![p] = (maps[p] \ {m}) \cup {r \in {r1, r2} : r.pages > 0}]
        /\ UNCHANGED <<pool, brk, stack, text, vparent, life, hold, claim>>
    BY DEF Munmap, FreeThen, Goto
  <2>2. /\ i = a + (b - m.base) /\ i \in Nat /\ i + n \in Nat /\ i + n <= SlotMax
        /\ OwnSlots(p, i, i + n) /\ to = i + n
    BY <1>2, <1>3, SlotFound
  <2> HIDE DEF to, i
  <2>3. QED
    BY <2>1, <2>2
<1> HIDE DEF i
<1>7. table'[p] = Cleared(table[p], i, i + n) /\ OwnTable(p)' = Cleared(OwnTable(p), i, i + n)
  <2>1. Clears(p, i, i + n) /\ OwnSlots(p, i, i + n) /\ i \in Nat /\ i + n \in Nat /\ i + n <= SlotMax
    BY <1>6 DEF Clears
  <2>2. QED
    BY <1>2, <2>1, ClearOwn
<1>8. ASSUME NEW j \in Slot, ~(i <= j /\ j < i + n)
      PROVE  table'[p][j] = table[p][j] /\ OwnTable(p)'[j] = OwnTable(p)[j]
  BY <1>7, <1>8 DEF Cleared
<1>9. Settled(p)' <=> Settled(p)
  <2>1. pc'[p] = "user"
    BY <1>1, <1>6
  <2>2. QED
    BY <1>2, <1>6, <2>1 DEF Settled
<1>10. ASSUME Settled(p)
       PROVE  /\ w <= a /\ table'[p][0] = f
              /\ \A j \in 0..(brk[p].cur - f - 1) : table'[p][j] = table[p][j]
  <2>1. /\ f \in Page /\ 0 \in Slot /\ f < brk[p].base /\ brk[p].base <= brk[p].cur
        /\ w <= SlotMax /\ brk[p].base \in Nat /\ brk[p].cur \in Nat
    BY <1>1, <1>10, Page0Fact DEF Typed
  <2>2. f \in Nat /\ w \in Nat /\ w > 0
    BY <2>1 DEF Page
  <2>3. w <= a
    BY <1>3, <1>10 DEF LiesAt
  <2> HIDE DEF w
  <2>4. w <= i
    BY <1>4, <1>5, <1>6, <2>2, <2>3
  <2>5. ASSUME NEW j \in 0..(w - 1) PROVE table'[p][j] = table[p][j]
    <3>1. j \in Slot /\ ~(i <= j)
      BY <1>4, <1>6, <2>1, <2>2, <2>4 DEF Slot
    <3>2. QED
      BY <1>8, <3>1
  <2>6. 0 \in 0..(w - 1)
    BY <2>2
  <2>7. QED
    BY <2>3, <2>5, <2>6 DEF w
<1>11. Heap(p)'
  BY <1>1, <1>6, <1>9, <1>10 DEF Heap
<1>12. ASSUME NEW k \in 0..(m.pages - 1) PROVE a + k \in Slot /\ OwnTable(p)[a + k] = m.base + k
  BY <1>3 DEF LiesAt
<1>13. ASSUME NEW x \in maps[p] \ {m} PROVE \E s \in Slot : LiesAt(p, x, s)'
  <2>1. PICK s \in Slot : LiesAt(p, x, s)
    BY <1>1 DEF Mappings
  <2>2. PagesOf(x) \cap PagesOf(m) = {}
    BY <1>1, <1>13 DEF Mappings
  <2>3. x \in BlockType /\ x.base \in Nat /\ x.pages \in Nat
    BY <1>1, Numbers DEF Typed, BlockType, Page
  <2>4. ASSUME NEW k \in 0..(x.pages - 1) PROVE s + k \in Slot /\ OwnTable(p)'[s + k] = x.base + k
    <3>1. s + k \in Slot /\ OwnTable(p)[s + k] = x.base + k /\ s + k \in Nat
      BY <2>1, Numbers DEF LiesAt
    <3>2. ASSUME i <= s + k, s + k < i + n PROVE FALSE
      <4> DEFINE d == (s + k) - a
      <4>1. d \in 0..(m.pages - 1) /\ a + d = s + k
        BY <1>4, <1>5, <1>6, <3>1, <3>2
      <4> HIDE DEF d
      <4>2. x.base + k = m.base + d
        BY <1>12, <3>1, <4>1
      <4>3. m.base + d \in PagesOf(m)
        BY <1>4, <4>1 DEF PagesOf, After
      <4>4. x.base + k \in PagesOf(x)
        BY <2>3 DEF PagesOf, After
      <4>5. QED
        BY <2>2, <4>2, <4>3, <4>4
    <3>3. QED
      BY <1>8, <3>1, <3>2
  <2>5. LiesAt(p, x, s)'
    BY <1>6, <1>9, <1>10, <2>1, <2>4 DEF LiesAt
  <2>6. QED
    BY <2>5
<1>14. ASSUME r1.pages > 0
       PROVE  LiesAt(p, r1, a)' /\ r1 \in BlockType /\ PagesOf(r1) \subseteq PagesOf(m)
  <2>1. r1.base = m.base /\ r1.pages = b - m.base /\ b - m.base \in Nat /\ b - m.base > 0
    BY <1>4, <1>5, <1>14 DEF Block
  <2>2. ASSUME NEW k \in 0..(r1.pages - 1)
        PROVE  a + k \in Slot /\ OwnTable(p)'[a + k] = r1.base + k
    <3>1. k \in 0..(m.pages - 1) /\ ~(i <= a + k)
      BY <1>4, <1>5, <1>6, <2>1
    <3>2. QED
      BY <1>8, <1>12, <2>1, <3>1
  <2>3. LiesAt(p, r1, a)'
    BY <1>6, <1>9, <1>10, <2>2 DEF LiesAt
  <2>4. r1 \in BlockType
    BY <1>4, <2>1 DEF Block, BlockType
  <2> HIDE DEF r1
  <2>5. PagesOf(r1) \subseteq PagesOf(m)
    BY <1>4, <1>5, <2>1 DEF PagesOf, After
  <2>6. QED
    BY <2>3, <2>4, <2>5
<1> DEFINE c == a + ((b - m.base) + n)
<1>15. ASSUME r2.pages > 0
       PROVE  /\ c \in Slot /\ LiesAt(p, r2, c)' /\ r2 \in BlockType
              /\ PagesOf(r2) \subseteq PagesOf(m)
  <2> DEFINE z == (m.base + m.pages) - (b + n)
  <2>1. r2.base = b + n /\ r2.pages = z /\ z \in Nat /\ z > 0
    BY <1>4, <1>5, <1>15 DEF Block, After
  <2>2. ASSUME NEW k \in 0..(r2.pages - 1)
        PROVE  c + k \in Slot /\ OwnTable(p)'[c + k] = r2.base + k
    <3> DEFINE d == ((b - m.base) + n) + k
    <3>1. d \in 0..(m.pages - 1) /\ a + d = c + k /\ m.base + d = r2.base + k
      BY <1>4, <1>5, <1>6, <2>1
    <3>2. ~(c + k < i + n)
      BY <1>4, <1>5, <1>6, <2>1
    <3> HIDE DEF d
    <3>3. QED
      BY <1>8, <1>12, <3>1, <3>2
  <2>3. c \in Slot
    <3>1. 0 \in 0..(r2.pages - 1) /\ c + 0 = c
      BY <1>4, <1>5, <2>1
    <3>2. QED
      BY <2>2, <3>1
  <2>4. ASSUME Settled(p) PROVE w <= c
    <3>1. w <= a /\ w \in Int
      <4>1. w \in Int
        <5>1. f \in Page /\ brk[p].cur \in Nat
          BY <1>1, <2>4, Page0Fact DEF Typed
        <5>2. QED
          BY <5>1 DEF Page
      <4>2. QED
        BY <1>10, <2>4, <4>1
    <3> HIDE DEF w
    <3>2. QED
      BY <1>4, <1>5, <3>1
  <2>5. LiesAt(p, r2, c)'
    BY <1>6, <1>9, <1>10, <2>2, <2>4 DEF LiesAt
  <2>6. r2 \in BlockType
    <3>1. b + n \in PagesOf(m)
      BY <1>4, <1>5, <2>1 DEF PagesOf, After
    <3>2. b + n \in Page
      BY <1>1, <3>1, MapPages, MineInPool DEF Mine, InImage
    <3> HIDE DEF z
    <3>3. QED
      BY <2>1, <3>2 DEF Block, BlockType
  <2> HIDE DEF r2
  <2>7. PagesOf(r2) \subseteq PagesOf(m)
    BY <1>4, <1>5, <2>1 DEF PagesOf, After
  <2>8. QED
    BY <2>3, <2>5, <2>6, <2>7
<1>16. ASSUME r1.pages > 0, r2.pages > 0 PROVE PagesOf(r1) \cap PagesOf(r2) = {}
  <2>1. r1.base = m.base /\ r1.pages = b - m.base /\ r2.base = b + n
    BY DEF Block
  <2> HIDE DEF r1, r2
  <2>2. PagesOf(r1) \subseteq m.base..(b - 1)
    BY <1>4, <1>5, <2>1 DEF PagesOf, After
  <2>3. \A g \in PagesOf(r2) : b + n <= g /\ g \in Int
    <3>1. r2 \in BlockType
      BY <1>15, <1>16
    <3>2. QED
      BY <1>5, <2>1, <3>1 DEF PagesOf, After, BlockType
  <2>4. QED
    BY <1>4, <1>5, <2>2, <2>3
<1> DEFINE R == {r \in {r1, r2} : r.pages > 0}
<1>17. /\ R \in SUBSET BlockType /\ \A r \in R : PagesOf(r) \subseteq PagesOf(m)
       /\ \A r \in R : \E s \in Slot : LiesAt(p, r, s)'
       /\ \A x, y \in R : x = y \/ PagesOf(x) \cap PagesOf(y) = {}
  <2>1. ASSUME NEW r \in R
        PROVE  r \in BlockType /\ PagesOf(r) \subseteq PagesOf(m) /\ \E s \in Slot : LiesAt(p, r, s)'
    <3>1. CASE r = r1
      BY <1>14, <3>1
    <3>2. CASE r = r2
      BY <1>15, <3>2
    <3>3. QED
      BY <3>1, <3>2
  <2>2. \A x, y \in R : x = y \/ PagesOf(x) \cap PagesOf(y) = {}
    <3> HIDE DEF r1, r2
    <3>1. QED
      BY <1>16
  <2> HIDE DEF R
  <2>3. QED
    BY <2>1, <2>2
<1> HIDE DEF r1, r2
<1>18. maps'[p] = (maps[p] \ {m}) \cup R
  BY <1>1, <1>6 DEF Typed
<1> HIDE DEF R
<1>19. maps' \in [Proc -> SUBSET BlockType] /\ \A q \in Proc \ {p} : maps'[q] = maps[q]
  <2>1. maps' = [maps EXCEPT ![p] = (maps[p] \ {m}) \cup R] /\ maps \in [Proc -> SUBSET BlockType]
    BY <1>1, <1>6 DEF R, Typed
  <2>2. (maps[p] \ {m}) \cup R \in SUBSET BlockType
    BY <1>17, <2>1
  <2>3. QED
    BY <2>1, <2>2
<1>20. Mappings(p)'
  <2>1. \A x \in maps'[p] : \E s \in Slot : LiesAt(p, x, s)'
    BY <1>13, <1>17, <1>18
  <2>2. ASSUME NEW x \in maps[p] \ {m}, NEW y \in R PROVE PagesOf(x) \cap PagesOf(y) = {}
    <3>1. PagesOf(x) \cap PagesOf(m) = {}
      BY <1>1, <2>2 DEF Mappings
    <3>2. QED
      BY <1>17, <3>1
  <2>3. \A x, y \in maps'[p] : x = y \/ PagesOf(x) \cap PagesOf(y) = {}
    BY <1>1, <1>17, <1>18, <2>2 DEF Mappings
  <2>4. QED
    BY <2>1, <2>3 DEF Mappings
<1>21. brk' \in [Proc -> [base : Nat, cur : Nat]] /\ \A q \in Proc \ {p} : brk'[q] = brk[q]
  BY <1>1, <1>6 DEF Typed
<1>22. /\ claim' = [claim EXCEPT ![p] = NoClaim] /\ drop[p] = << >> /\ pc[p] \in {"user", "grow"}
       /\ FreePages(pool') = FreePages(pool)
  BY <1>1, <1>2, <1>6, AtUser DEF Typed
<1>23. QED
  BY <1>2, <1>6, <1>11, <1>19, <1>20, <1>21, <1>22, ClearStep

-----------------------------------------------------------------------------
(* An image left, an image taken *)

LEMMA EmptyImage ==
  /\ EmptyTable \in [Slot -> Val] /\ \A i \in Slot : EmptyTable[i] = NoPage
  /\ Vals(EmptyTable) = {} /\ Once(EmptyTable) /\ Vals(<<NoPage>>) = {}
<1>1. EmptyTable \in [Slot -> Val] /\ \A i \in Slot : EmptyTable[i] = NoPage
  BY DEF EmptyTable, Val
<1>2. Vals(<<NoPage>>) = {}
  BY OneFact
<1>3. QED
  BY <1>1, <1>2 DEF Vals, Once

\* All slots of a table.
LEMMA AllTracked ==
  ASSUME NEW t \in [Slot -> Val], Once(t)
  PROVE  /\ Tracked(t, 0, SlotMax) \in Seq(Val) /\ Once(Tracked(t, 0, SlotMax))
         /\ Vals(Tracked(t, 0, SlotMax)) = Vals(t)
<1>1. 0 \in Nat /\ SlotMax \in Nat /\ SlotMax <= SlotMax
  BY Numbers
<1>2. /\ Tracked(t, 0, SlotMax) \in Seq(Val) /\ Once(Tracked(t, 0, SlotMax))
      /\ Vals(Tracked(t, 0, SlotMax)) = {t[i] : i \in {i \in Slot : 0 <= i /\ i < SlotMax}} \ {NoPage}
  BY <1>1, TrackedFact
<1>3. {i \in Slot : 0 <= i /\ i < SlotMax} = Slot
  BY <1>1 DEF Slot
<1>4. Vals(t) = {t[i] : i \in Slot} \ {NoPage}
  BY DEF Vals
<1>5. QED
  BY <1>2, <1>3, <1>4

\* What a process frees when it leaves its image is what it has of it.
LEMMA OldImageFact ==
  ASSUME Sane, NEW p \in Proc, pc[p] \notin {"exit", "commit"}
  PROVE  OldImage(p) \in Seq(Val) /\ Once(OldImage(p)) /\ Vals(OldImage(p)) = InImage(p)
<1>1. Typed /\ Apart(p) /\ Phase(p)
  BY DEF Sane, Kept
<1>2. OwnTable(p) \in [Slot -> Val] /\ Once(OwnTable(p)) /\ OwnStack(p) \in Val
  BY <1>1, OwnFact DEF Apart
<1> DEFINE o == OwnTable(p)
           k == Tracked(o, 0, SlotMax)
           e == IF stack[p] = NoPage THEN << >> ELSE <<stack[p]>>
           x == text[p]
<1>3. k \in Seq(Val) /\ Once(k) /\ Vals(k) = Vals(o)
  <2> HIDE DEF o
  <2>1. QED
    BY <1>2, AllTracked DEF o
<1>4. CASE vparent[p] # NULL
  <2>1. OldImage(p) = k
    BY <1>4 DEF OldImage
  <2>2. text[p] = << >> /\ OwnStack(p) = NoPage
    BY <1>1, <1>4 DEF Phase, OwnStack
  <2>3. Vals(text[p]) = {} /\ Vals(<<OwnStack(p)>>) = {}
    BY <2>2, EmptyFact, OneFact
  <2>4. QED
    BY <1>3, <2>1, <2>3 DEF InImage
<1>5. CASE vparent[p] = NULL
  <2>1. o = table[p] /\ OwnStack(p) = stack[p] /\ stack[p] \in Val
    BY <1>1, <1>2, <1>5, OwnFact
  <2>2. OldImage(p) = (x \o k) \o e
    BY <1>5, <2>1 DEF OldImage
  <2>3. e \in Seq(Val) /\ Once(e) /\ Vals(e) = Vals(<<OwnStack(p)>>)
    <3>1. CASE stack[p] = NoPage
      <4>1. e = << >> /\ Vals(<<OwnStack(p)>>) = {}
        BY <2>1, <3>1, EmptyImage
      <4>2. << >> \in Seq(Val)
        OBVIOUS
      <4> HIDE DEF e
      <4>3. QED
        BY <4>1, <4>2, EmptyFact
    <3>2. CASE stack[p] # NoPage
      BY <2>1, <3>2, OneFact
    <3>3. QED
      BY <3>1, <3>2
  <2>4. /\ x \in Seq(Val) /\ Once(x) /\ Vals(o) \cap Vals(x) = {}
        /\ Vals(<<OwnStack(p)>>) \cap (Vals(o) \cup Vals(x)) = {}
    <3>1. x \in Seq(Page) /\ Page \subseteq Val
      BY <1>1 DEF Typed, Val
    <3>2. x \in Seq(Val)
      BY <3>1
    <3>3. QED
      BY <1>1, <3>2 DEF Apart
  <2>5. InImage(p) = Vals(o) \cup Vals(<<OwnStack(p)>>) \cup Vals(x)
    BY DEF InImage
  <2> HIDE DEF k, e, x, o
  <2>6. /\ x \o k \in Seq(Val) /\ Vals(x \o k) = Vals(x) \cup Vals(k)
        /\ Once(x \o k) <=> Once(x) /\ Once(k) /\ Vals(x) \cap Vals(k) = {}
    BY <1>3, <2>4, CatFact
  <2> DEFINE y == x \o k
  <2> HIDE DEF y
  <2>7. y \in Seq(Val) /\ Vals(y) = Vals(x) \cup Vals(o) /\ Once(y)
    BY <1>3, <2>4, <2>6 DEF y
  <2>8. /\ y \o e \in Seq(Val) /\ Vals(y \o e) = Vals(y) \cup Vals(e)
        /\ Once(y \o e) <=> Once(y) /\ Once(e) /\ Vals(y) \cap Vals(e) = {}
    BY <2>3, <2>7, CatFact
  <2>9. Vals(y \o e) = InImage(p) /\ Once(y \o e)
    BY <2>3, <2>4, <2>5, <2>7, <2>8
  <2>10. QED
    BY <2>2, <2>8, <2>9 DEF y
<1>6. QED
  BY <1>4, <1>5

LEMMA ExitKept ==
  ASSUME IInv, Sane, NEW p \in Proc, Exit(p)
  PROVE  Sane'
<1>1. /\ Typed /\ Mine(p) \cap FreePages(pool) = {}
      /\ pc \in [Proc -> Loading \cup {"user", "grow", "claim", "commit", "exit"}]
  BY DEF Sane, IInv, OneOwner
<1>2. At(p, "user")
  BY DEF Exit, Enter
<1>3. /\ life[p] = "run" /\ pc[p] = "user" /\ drop[p] = << >> /\ hold[p] = NoHold
      /\ claim[p] = NoClaim /\ InCall(p) = {}
  BY <1>2, AtUser
<1>4. OldImage(p) \in Seq(Val) /\ Once(OldImage(p)) /\ Vals(OldImage(p)) = InImage(p)
  BY <1>3, OldImageFact
<1>5. /\ drop' = [drop EXCEPT ![p] = OldImage(p)] /\ pc' = [pc EXCEPT ![p] = "exit"]
      /\ table' = [table EXCEPT ![p] = EmptyTable] /\ brk' = [brk EXCEPT ![p] = NoBrk]
      /\ stack' = [stack EXCEPT ![p] = NoPage] /\ text' = [text EXCEPT ![p] = << >>]
      /\ maps' = [maps EXCEPT ![p] = {}]
      /\ UNCHANGED <<pool, vparent, life, hold, claim>>
  BY DEF Exit, FreeThen, Goto
<1>6. /\ drop'[p] = OldImage(p) /\ pc'[p] = "exit" /\ table'[p] = EmptyTable
      /\ stack'[p] = NoPage /\ text'[p] = << >> /\ maps'[p] = {} /\ Only(p)
  BY <1>1, <1>5 DEF Typed, Only
<1>7. Typed'
  <2>1. NoBrk \in [base : Nat, cur : Nat] /\ EmptyTable \in [Slot -> Val] /\ NoPage \in Val
    BY EmptyImage DEF NoBrk, Val
  <2>2. QED
    BY <1>1, <1>4, <1>5, <2>1 DEF Typed
<1>8. OwnTable(p)' = EmptyTable /\ OwnStack(p)' = NoPage
  BY <1>6 DEF OwnTable, OwnStack, EmptyTable
<1>9. Vals(OwnTable(p)') = {} /\ Vals(<<OwnStack(p)'>>) = {} /\ Vals(text'[p]) = {} /\ InImage(p)' = {}
  <2>1. Vals(OwnTable(p)') = {} /\ Vals(<<OwnStack(p)'>>) = {} /\ Vals(text'[p]) = {}
    BY <1>6, <1>8, EmptyImage, EmptyFact
  <2>2. QED
    BY <2>1 DEF InImage
<1>10. InCall(p)' = InImage(p) /\ Once(Held(p)') /\ Once(claim'[p].got) /\ Once(drop'[p])
  <2>1. Vals(Held(p)') = {} /\ Once(Held(p)')
    BY <1>3, <1>5, NothingHeld DEF Held, Cat
  <2>2. Vals(claim'[p].got) = {} /\ Once(claim'[p].got)
    BY <1>3, <1>5, NothingHeld, EmptyFact
  <2>3. QED
    BY <1>4, <1>6, <2>1, <2>2 DEF InCall
<1>11. Mine(p)' = Mine(p)
  BY <1>3, <1>9, <1>10 DEF Mine
<1>12. Apart(p)'
  BY <1>6, <1>8, <1>9, <1>10, EmptyImage, EmptyFact DEF Apart
<1>13. Phase(p)'
  BY <1>3, <1>5, <1>6, <1>8 DEF Phase, Loading
<1>14. Stages(p)' /\ Claiming(p)' /\ Heap(p)' /\ Mappings(p)'
  BY <1>6 DEF Stages, Claiming, Heap, Settled, Mappings
<1>15. Kept(p)'
  BY <1>12, <1>13, <1>14 DEF Kept
<1>16. (\A i \in Slot : table'[p][i] = NoPage) /\ stack'[p] = NoPage
  BY <1>6, EmptyImage
<1>17. QED
  BY <1>1, <1>3, <1>5, <1>6, <1>7, <1>11, <1>15, <1>16, StepKept

\* The new image is complete: it takes the place of the old one, which is to be
\* freed with the pages the load needed.
LEMMA ExecCommitKept ==
  ASSUME IInv, Sane, NEW p \in Proc, ExecCommit(p)
  PROVE  Sane'
<1> DEFINE h == hold[p]
           b == h.data[1]
           n == Len(h.data)
           r == Filled(EmptyTable, 0, h.data)
           u == vparent[p]
           old == OldImage(p)
           d == h.stage \o h.args \o old \o h.snap
<1>1. /\ Typed /\ Apart(p) /\ Phase(p) /\ Stages(p) /\ Mine(p) \cap FreePages(pool) = {}
      /\ pc \in [Proc -> Loading \cup {"user", "grow", "claim", "commit", "exit"}]
  BY DEF Sane, Kept, IInv, OneOwner
<1>2. At(p, "reloc") /\ "reloc" \in Loading
  BY DEF ExecCommit, Loading
<1>3. /\ life[p] = "run" /\ pc[p] = "reloc" /\ drop[p] = << >> /\ claim[p] = NoClaim
      /\ h \in [Parts -> Seq(Page)] /\ InCall(p) = Vals(Cat(h)) /\ Once(Cat(h))
  BY <1>2, AtLoading
<1>4. /\ table' = [table EXCEPT ![p] = r]
      /\ brk' = [brk EXCEPT ![p] = [base |-> b + n, cur |-> b + n]]
      /\ stack' = [stack EXCEPT ![p] = h.stack[1]] /\ text' = [text EXCEPT ![p] = h.text]
      /\ drop' = [drop EXCEPT ![p] = d] /\ pc' = [pc EXCEPT ![p] = "commit"]
      /\ hold' = [hold EXCEPT ![p] = NoHold] /\ maps' = [maps EXCEPT ![p] = {}]
      /\ UNCHANGED <<pool, vparent, life, claim>>
  BY DEF ExecCommit, FreeThen, Goto
<1>5. /\ Len(h.stack) = 1 /\ 1 <= n /\ n <= SlotMax
      /\ \A i \in 1..n : h.data[i] = b + (i - 1)
  BY <1>1, <1>3 DEF Stages
<1>6. /\ h.data \in Seq(Page) /\ h.text \in Seq(Page) /\ h.stack \in Seq(Page)
      /\ h.stage \in Seq(Page) /\ h.snap \in Seq(Page) /\ h.args \in Seq(Page)
      /\ {"data", "text", "stack", "stage", "snap", "args"} = Parts
  BY <1>3 DEF Parts
<1>7. old \in Seq(Val) /\ Once(old) /\ Vals(old) = InImage(p)
  BY <1>3, OldImageFact
<1> HIDE DEF h, old
<1> DEFINE vd == Vals(h.data)
           vt == Vals(h.text)
           vk == Vals(h.stack)
           vg == Vals(h.stage)
           vs == Vals(h.snap)
           va == Vals(h.args)
<1>8. InCall(p) = vd \cup vt \cup vk \cup vg \cup vs \cup va
  <2>1. Vals(Cat(h)) = UNION {Vals(h[f]) : f \in Parts}
    BY <1>3, HeldFact
  <2>2. \A f \in Parts : f \in {"data", "text", "stack", "stage", "snap", "args"}
    BY <1>6
  <2>3. {"data", "text", "stack", "stage", "snap", "args"} \subseteq Parts
    BY <1>6
  <2>4. InCall(p) \subseteq vd \cup vt \cup vk \cup vg \cup vs \cup va
    <3>1. SUFFICES ASSUME NEW x \in InCall(p)
                   PROVE  x \in vd \cup vt \cup vk \cup vg \cup vs \cup va
      OBVIOUS
    <3>2. PICK f \in Parts : x \in Vals(h[f])
      BY <1>3, <2>1
    <3>3. f \in {"data", "text", "stack", "stage", "snap", "args"}
      BY <2>2
    <3>4. QED
      BY <3>2, <3>3
  <2>5. vd \cup vt \cup vk \cup vg \cup vs \cup va \subseteq InCall(p)
    BY <1>3, <2>1, <2>3
  <2>6. QED
    BY <2>4, <2>5
<1>9. /\ Once(h.data) /\ Once(h.text) /\ Once(h.stage) /\ Once(h.snap) /\ Once(h.args)
      /\ vd \cap vt = {} /\ vd \cap vk = {} /\ vt \cap vk = {}
      /\ (vd \cup vt \cup vk) \cap (vg \cup vs \cup va) = {}
      /\ vg \cap vs = {} /\ vg \cap va = {} /\ vs \cap va = {}
  <2>1. /\ \A f \in Parts : Once(h[f])
        /\ \A f, g \in Parts : f # g => Vals(h[f]) \cap Vals(h[g]) = {}
    BY <1>3, HeldFact
  <2>2. ASSUME NEW f \in Parts, NEW g \in Parts, f # g PROVE Vals(h[f]) \cap Vals(h[g]) = {}
    BY <2>1, <2>2
  <2>3. /\ vd \cap vt = {} /\ vd \cap vk = {} /\ vt \cap vk = {}
        /\ vg \cap vs = {} /\ vg \cap va = {} /\ vs \cap va = {}
    BY <2>2 DEF Parts
  <2>4. /\ vd \cap vg = {} /\ vd \cap vs = {} /\ vd \cap va = {}
        /\ vt \cap vg = {} /\ vt \cap vs = {} /\ vt \cap va = {}
        /\ vk \cap vg = {} /\ vk \cap vs = {} /\ vk \cap va = {}
    BY <2>2 DEF Parts
  <2>5. Once(h.data) /\ Once(h.text) /\ Once(h.stage) /\ Once(h.snap) /\ Once(h.args)
    BY <2>1 DEF Parts
  <2> HIDE DEF vd, vt, vk, vg, vs, va
  <2>6. QED
    BY <2>3, <2>4, <2>5
<1>10. InImage(p) \cap InCall(p) = {}
  BY <1>1 DEF Apart
<1>11. d \in Seq(Val) /\ Vals(d) = vg \cup va \cup InImage(p) \cup vs /\ Once(d)
  <2>1. h.stage \in Seq(Val) /\ h.args \in Seq(Val) /\ h.snap \in Seq(Val)
    BY <1>6 DEF Val
  <2> DEFINE y == h.stage \o h.args
             z == y \o old
  <2>2. y \in Seq(Val) /\ Vals(y) = vg \cup va /\ Once(y)
    BY <1>9, <2>1, CatFact
  <2> HIDE DEF y
  <2>3. z \in Seq(Val) /\ Vals(z) = Vals(y) \cup Vals(old)
        /\ (Once(z) <=> Once(y) /\ Once(old) /\ Vals(y) \cap Vals(old) = {})
    BY <1>7, <2>2, CatFact
  <2> HIDE DEF vd, vt, vk, vg, vs, va
  <2>4. Vals(z) = vg \cup va \cup InImage(p) /\ Once(z)
    BY <1>7, <1>8, <1>10, <2>2, <2>3
  <2> HIDE DEF z
  <2> DEFINE e == h.snap
  <2>5. e \in Seq(Val) /\ Once(e) /\ Vals(e) = vs
    BY <1>9, <2>1 DEF vs
  <2> HIDE DEF e
  <2>6. /\ z \o e \in Seq(Val) /\ Vals(z \o e) = Vals(z) \cup Vals(e)
        /\ (Once(z \o e) <=> Once(z) /\ Once(e) /\ Vals(z) \cap Vals(e) = {})
    BY <2>3, <2>5, CatFact
  <2>7. Vals(z) \cap Vals(e) = {}
    BY <1>8, <1>9, <1>10, <2>4, <2>5
  <2>8. d = z \o e
    BY DEF z, y, e
  <2> HIDE DEF d
  <2>9. QED
    BY <2>4, <2>5, <2>6, <2>7, <2>8
<1> HIDE DEF d
\* The table
<1>12. /\ r \in [Slot -> Val] /\ Vals(r) = vd /\ Once(r)
       /\ \A i \in 1..n : 0 + (i - 1) \in Slot /\ r[0 + (i - 1)] = h.data[i]
  <2> DEFINE s == h.data
  <2>1. /\ 0 + Len(s) <= SlotMax /\ Vacant(EmptyTable, 0, Len(s)) /\ 0 \in Nat /\ s \in Seq(Page)
        /\ EmptyTable \in [Slot -> Val] /\ Vals(EmptyTable) = {} /\ Once(EmptyTable) /\ Once(s)
    BY <1>5, <1>6, <1>9, EmptyImage DEF Vacant
  <2> HIDE DEF s
  <2>2. /\ Filled(EmptyTable, 0, s) \in [Slot -> Val]
        /\ \A i \in 1..Len(s) : 0 + (i - 1) \in Slot /\ Filled(EmptyTable, 0, s)[0 + (i - 1)] = s[i]
        /\ Vals(Filled(EmptyTable, 0, s)) = Vals(EmptyTable) \cup Vals(s)
        /\ Once(Filled(EmptyTable, 0, s))
    BY <2>1, FilledFact, ZenonT(40)
  <2>3. QED
    BY <2>1, <2>2 DEF s
<1> HIDE DEF r
<1>13. h.stack[1] \in Page /\ vk = {h.stack[1]} /\ Vals(<<h.stack[1]>>) = vk
  <2>1. DOMAIN h.stack = {1} /\ h.stack[1] \in Page
    BY <1>5, <1>6
  <2>2. Vals(h.stack) = {h.stack[1]}
    BY <2>1, Numbers DEF Vals
  <2>3. QED
    BY <2>1, <2>2, OneFact, Numbers
<1>14. /\ table'[p] = r /\ stack'[p] = h.stack[1] /\ text'[p] = h.text /\ drop'[p] = d
       /\ pc'[p] = "commit" /\ hold'[p] = NoHold /\ maps'[p] = {} /\ claim'[p] = NoClaim /\ Only(p)
       /\ brk'[p] = [base |-> b + n, cur |-> b + n]
  BY <1>1, <1>3, <1>4 DEF Typed, Only
<1>15. b \in Page /\ b \in Nat /\ n \in Nat
  <2>1. n \in Nat /\ h.data[1] \in Page
    BY <1>5, <1>6
  <2>2. Page \subseteq Nat
    BY DEF Page
  <2>3. QED
    BY <2>1, <2>2
<1>16. Typed'
  <2>1. [base |-> b + n, cur |-> b + n] \in [base : Nat, cur : Nat] /\ NoHold \in [Parts -> Seq(Page)]
    BY <1>15, NothingHeld
  <2>2. h.stack[1] \in Val
    BY <1>13 DEF Val
  <2> HIDE DEF b, n
  <2>3. QED
    BY <1>1, <1>4, <1>6, <1>11, <1>12, <2>1, <2>2 DEF Typed
<1>17. PICK anc \in [Proc -> SUBSET Proc] : Ancestry(anc)
  BY DEF Sane
<1>18. u # NULL => u \in Proc /\ table'[u] = table[u] /\ stack'[u] = stack[u]
  <2>1. u # NULL => u \in Proc \ {p}
    BY <1>1, <1>3, <1>17, RunsAlone, OwnFact
  <2>2. QED
    BY <1>14, <2>1 DEF Only
<1>19. OwnStack(p)' = stack'[p]
  <2>1. u # NULL => stack[u] # h.stack[1]
    <3>1. h.stack[1] \in Mine(p) /\ h.stack[1] # NoPage
      BY <1>8, <1>13, Numbers DEF Mine
    <3>2. QED
      BY <1>3, <3>1, NotAbove
  <2>2. QED
    BY <1>4, <1>14, <1>18, <2>1 DEF OwnStack
<1>20. OwnTable(p)' = r
  <2>1. CASE u = NULL
    BY <1>4, <1>14, <2>1 DEF OwnTable
  <2>2. CASE u # NULL
    <3>1. OwnTable(p)' = [i \in Slot |-> IF r[i] = table[u][i] THEN NoPage ELSE r[i]]
      BY <1>4, <1>14, <1>18, <2>2 DEF OwnTable
    <3>2. ASSUME NEW i \in Slot PROVE r[i] = NoPage \/ r[i] # table[u][i]
      <4>1. r[i] = NoPage \/ r[i] \in Vals(r)
        BY <1>12 DEF Vals
      <4>2. r[i] # NoPage => r[i] \in Mine(p)
        BY <1>8, <1>12, <4>1 DEF Mine
      <4>3. QED
        BY <1>3, <2>2, <4>2, NotAbove
    <3>3. QED
      BY <1>12, <3>1, <3>2
  <2>3. QED
    BY <2>1, <2>2
<1>21. InImage(p)' = vd \cup vk \cup vt
  BY <1>12, <1>13, <1>14, <1>19, <1>20 DEF InImage
<1>22. InCall(p)' = Vals(d) /\ Once(Held(p)') /\ Once(claim'[p].got) /\ Once(drop'[p])
  <2>1. Vals(Held(p)') = {} /\ Once(Held(p)')
    BY <1>14, NothingHeld DEF Held, Cat
  <2>2. Vals(claim'[p].got) = {} /\ Once(claim'[p].got)
    BY <1>14, NothingHeld, EmptyFact
  <2>3. QED
    BY <1>11, <1>14, <2>1, <2>2 DEF InCall
<1>23. Mine(p)' = Mine(p) /\ InImage(p)' \cap InCall(p)' = {}
  <2> HIDE DEF vd, vt, vk, vg, vs, va
  <2>1. Mine(p)' = Mine(p)
    BY <1>8, <1>11, <1>21, <1>22 DEF Mine
  <2>2. QED
    BY <1>8, <1>9, <1>10, <1>11, <1>21, <1>22, <2>1
<1>24. Apart(p)'
  <2>1. /\ Vals(OwnTable(p)') = vd /\ Vals(text'[p]) = vt /\ Vals(<<OwnStack(p)'>>) = vk
        /\ Once(OwnTable(p)') /\ Once(text'[p])
    BY <1>9, <1>12, <1>13, <1>14, <1>19, <1>20
  <2> HIDE DEF vd, vt, vk, vg, vs, va
  <2>2. QED
    BY <1>9, <1>22, <1>23, <2>1 DEF Apart
<1>25. Phase(p)'
  BY <1>3, <1>4, <1>14, <1>19, <1>20 DEF Phase, Loading
<1>26. Heap(p)'
  <2>1. 1 \in 1..n /\ 0 + (1 - 1) = 0
    BY <1>5, <1>15
  <2>2. table'[p][0] = b
    BY <1>12, <1>14, <2>1
  <2>3. ASSUME NEW i \in 0..((b + n) - b - 1) PROVE table'[p][i] = b + i
    <3>1. i + 1 \in 1..n /\ 0 + ((i + 1) - 1) = i /\ (i + 1) - 1 = i
      BY <1>15
    <3>2. QED
      BY <1>5, <1>12, <1>14, <3>1
  <2>4. brk'[p].base = b + n /\ brk'[p].cur = b + n
    BY <1>14
  <2>5. b < b + n /\ b + n <= b + n /\ (b + n) - b <= SlotMax
    BY <1>5, <1>15, Numbers
  <2> HIDE DEF b, n
  <2>6. QED
    BY <1>15, <2>2, <2>3, <2>4, <2>5 DEF Heap
<1>27. Stages(p)' /\ Claiming(p)' /\ Mappings(p)'
  BY <1>14 DEF Stages, Claiming, Mappings
<1>28. Kept(p)'
  BY <1>24, <1>25, <1>26, <1>27 DEF Kept
<1>29. \A i \in Slot : OwnTable(p)'[i] = table'[p][i]
  BY <1>14, <1>20
<1>30. QED
  BY <1>1, <1>3, <1>4, <1>14, <1>16, <1>19, <1>23, <1>28, <1>29, StepKept

-----------------------------------------------------------------------------
(* A child is made, and leaves its parent's memory *)

\* Nobody's pages change.
LEMMA OwnersKept ==
  ASSUME OneOwner, \A q \in Proc : Mine(q)' = Mine(q), pool' = pool
  PROVE  OneOwner'
  BY DEF OneOwner

LEMMA VforkKept ==
  ASSUME IInv, Sane, NEW p \in Proc, NEW c \in Proc, Vfork(p, c)
  PROVE  Sane'
<1>1. Typed /\ OneOwner /\ Phase(p) /\ \A q \in Proc : Kept(q)
  BY DEF Sane, Kept
<1>2. PICK anc \in [Proc -> SUBSET Proc] : Ancestry(anc)
  BY DEF Sane
<1>3. At(p, "user")
  BY DEF Vfork, Enter
<1>4. life[p] = "run" /\ pc[p] = "user" /\ drop[p] = << >>
  BY <1>3, AtUser
<1>5. /\ life[c] = "free" /\ c # p
      /\ life' = [life EXCEPT ![p] = "vfork", ![c] = "run"]
      /\ vparent' = [vparent EXCEPT ![c] = p]
      /\ table' = [table EXCEPT ![c] = table[p]] /\ stack' = [stack EXCEPT ![c] = stack[p]]
      /\ UNCHANGED <<pool, brk, text, pc, hold, claim, drop, maps>>
  BY <1>4 DEF Vfork
<1>6. /\ life'[p] = "vfork" /\ life'[c] = "run" /\ vparent'[c] = p /\ table'[c] = table[p]
      /\ stack'[c] = stack[p]
      /\ \A q \in Proc \ {c} : /\ vparent'[q] = vparent[q] /\ table'[q] = table[q] /\ stack'[q] = stack[q]
                               /\ q # p => life'[q] = life[q]
  BY <1>1, <1>5 DEF Typed
<1>7. \A q \in Proc : /\ vparent[q] # c /\ c \notin anc[q] /\ vparent[q] # p /\ p \notin anc[q]
                      /\ (vparent[q] # NULL => vparent[q] \in Proc)
  <2>1. ASSUME NEW q \in Proc PROVE vparent[q] # p /\ p \notin anc[q]
    BY <1>1, <1>2, <1>4, RunsAlone
  <2>2. ASSUME NEW q \in Proc PROVE c \notin anc[q]
    BY <1>2, <1>5 DEF Ancestry
  <2>3. ASSUME NEW q \in Proc, vparent[q] = c PROVE FALSE
    <3>1. vparent[q] # NULL
      BY <2>3, MemoryAssumption
    <3>2. QED
      BY <1>2, <2>2, <2>3, <3>1 DEF Ancestry
  <2>4. QED
    BY <1>1, <2>1, <2>2, <2>3, OwnFact
\* The child: nothing of what it has is its own.
<1>8. /\ pc[c] = "user" /\ drop[c] = << >> /\ vparent[c] = NULL /\ table[c] = EmptyTable
      /\ text[c] = << >> /\ stack[c] = NoPage /\ maps[c] = {} /\ hold[c] = NoHold /\ claim[c] = NoClaim
  BY <1>1, <1>5 DEF Kept, Phase, Loading
<1>9. Vals(Held(c)) = {} /\ Once(Held(c)) /\ Vals(claim[c].got) = {} /\ Once(claim[c].got)
      /\ Vals(drop[c]) = {} /\ Once(drop[c]) /\ InCall(c) = {}
  <2>1. Vals(Held(c)) = {} /\ Once(Held(c)) /\ Vals(claim[c].got) = {} /\ Once(claim[c].got)
        /\ Vals(drop[c]) = {} /\ Once(drop[c])
    BY <1>8, NothingHeld, EmptyFact DEF Held, Cat
  <2>2. QED
    BY <2>1 DEF InCall
<1>10. Mine(c) = {}
  <2>1. OwnTable(c) = EmptyTable /\ OwnStack(c) = NoPage
    BY <1>1, <1>8, OwnFact
  <2>2. QED
    BY <1>8, <1>9, <2>1, EmptyImage, EmptyFact DEF Mine, InImage
<1>11. p # NULL /\ OwnTable(c)' = EmptyTable /\ OwnStack(c)' = NoPage
  <2>1. p # NULL
    BY MemoryAssumption
  <2>2. table'[p] = table[p] /\ stack'[p] = stack[p]
    BY <1>5, <1>6
  <2>3. QED
    BY <1>6, <2>1, <2>2 DEF OwnTable, OwnStack, EmptyTable
<1>12. /\ Vals(OwnTable(c)') = {} /\ Once(OwnTable(c)') /\ Vals(<<OwnStack(c)'>>) = {}
       /\ Vals(text'[c]) = {} /\ Once(text'[c]) /\ InImage(c)' = {}
  <2>1. /\ Vals(OwnTable(c)') = {} /\ Once(OwnTable(c)') /\ Vals(<<OwnStack(c)'>>) = {}
        /\ Vals(text'[c]) = {} /\ Once(text'[c])
    BY <1>5, <1>8, <1>11, EmptyImage, EmptyFact
  <2>2. QED
    BY <2>1 DEF InImage
<1>13. Held(c)' = Held(c) /\ InCall(c)' = {}
  <2>1. Held(c)' = Held(c)
    BY <1>5 DEF Held
  <2>2. QED
    BY <1>5, <1>9, <2>1 DEF InCall
<1>14. Mine(c)' = {}
  BY <1>12, <1>13 DEF Mine
<1>15. Kept(c)'
  <2>1. Apart(c)'
    BY <1>5, <1>9, <1>12, <1>13 DEF Apart
  <2>2. Phase(c)'
    BY <1>5, <1>6, <1>8, <1>11 DEF Phase, Loading
  <2>3. Stages(c)' /\ Heap(c)' /\ Mappings(c)' /\ Claiming(c)'
    BY <1>5, <1>6, <1>8, <1>11 DEF Stages, Heap, Settled, Mappings, Claiming
  <2>4. QED
    BY <2>1, <2>2, <2>3 DEF Kept
\* The others
<1>16. ASSUME NEW q \in Proc \ {c}
       PROVE  /\ OwnTable(q)' = OwnTable(q) /\ OwnStack(q)' = OwnStack(q)
              /\ Mine(q)' = Mine(q) /\ Kept(q)'
  <2>1. /\ vparent'[q] = vparent[q] /\ table'[q] = table[q] /\ stack'[q] = stack[q] /\ Kept(q)
        /\ brk'[q] = brk[q] /\ text'[q] = text[q] /\ pc'[q] = pc[q] /\ hold'[q] = hold[q]
        /\ claim'[q] = claim[q] /\ drop'[q] = drop[q] /\ maps'[q] = maps[q]
    BY <1>1, <1>5, <1>6
  <2>2. LifeKept(q)
    BY <1>4, <1>6 DEF LifeKept
  <2>3. vparent[q] # NULL => /\ table'[vparent[q]] = table[vparent[q]]
                             /\ stack'[vparent[q]] = stack[vparent[q]]
    BY <1>6, <1>7
  <2>4. QED
    BY <1>1, <2>1, <2>2, <2>3, OthersKept
<1>17. OneOwner'
  BY <1>1, <1>5, <1>10, <1>14, <1>16, OwnersKept
<1>18. Typed'
  BY <1>1, <1>5 DEF Typed
<1> DEFINE anc2 == [anc EXCEPT ![c] = {p} \cup anc[p]]
<1>19. /\ anc2 \in [Proc -> SUBSET Proc] /\ anc2[c] = {p} \cup anc[p]
       /\ \A q \in Proc \ {c} : anc2[q] = anc[q]
  OBVIOUS
<1> HIDE DEF anc2
<1>20. \A q \in Proc : anc2[q] = IF vparent'[q] = NULL THEN {} ELSE {vparent'[q]} \cup anc2[vparent'[q]]
  <2>1. anc2[c] = {vparent'[c]} \cup anc2[vparent'[c]] /\ vparent'[c] # NULL
    BY <1>5, <1>6, <1>11, <1>19
  <2>2. ASSUME NEW q \in Proc \ {c}
        PROVE  anc2[q] = IF vparent'[q] = NULL THEN {} ELSE {vparent'[q]} \cup anc2[vparent'[q]]
    <3>1. anc[q] = IF vparent[q] = NULL THEN {} ELSE {vparent[q]} \cup anc[vparent[q]]
      BY <1>2 DEF Ancestry
    <3>2. vparent[q] # NULL => anc2[vparent[q]] = anc[vparent[q]]
      BY <1>7, <1>19
    <3>3. QED
      BY <1>6, <1>19, <3>1, <3>2
  <2>3. QED
    BY <2>1, <2>2
<1>21. ASSUME NEW q \in Proc, NEW r \in anc2[q] PROVE life'[r] = "vfork" /\ r \in Proc \ {c}
  <2>1. r = p \/ \E x \in Proc : r \in anc[x]
    BY <1>19
  <2>2. r \in Proc /\ (r = p \/ (life[r] = "vfork" /\ r # p))
    BY <1>2, <1>4, <1>19, <2>1 DEF Ancestry
  <2>3. QED
    BY <1>5, <1>6, <2>2
<1>22. ASSUME NEW x \in Proc, NEW q \in Proc, vparent'[x] # NULL, vparent'[x] \in anc2[q]
       PROVE  x = q \/ x \in anc2[q]
  <2>1. CASE x = c
    <3>1. p \in anc2[q]
      BY <1>6, <1>22, <2>1
    <3>2. q = c
      BY <1>7, <1>19, <3>1
    <3>3. QED
      BY <2>1, <3>2
  <2>2. CASE x # c /\ q # c
    <3>1. vparent[x] # NULL /\ vparent[x] \in anc[q]
      BY <1>6, <1>19, <1>22, <2>2
    <3>2. x = q \/ x \in anc[q]
      BY <1>2, <3>1 DEF Ancestry
    <3>3. QED
      BY <1>19, <2>2, <3>2
  <2>3. CASE x # c /\ q = c
    <3>1. vparent[x] # NULL /\ vparent[x] \in anc[p]
      BY <1>6, <1>7, <1>19, <1>22, <2>3
    <3>2. x = p \/ x \in anc[p]
      BY <1>2, <3>1 DEF Ancestry
    <3>3. QED
      BY <1>19, <2>3, <3>2
  <2>4. QED
    BY <2>1, <2>2, <2>3
<1>23. ASSUME NEW q \in Proc
       PROVE  \E x \in Proc \ {c} : /\ table'[q] = table[x] /\ stack'[q] = stack[x]
                                    /\ anc[x] \cup {x} \subseteq anc2[q] \cup {q}
  <2>1. CASE q = c
    BY <1>5, <1>6, <1>19, <2>1
  <2>2. CASE q # c
    BY <1>6, <1>19, <2>2
  <2>3. QED
    BY <2>1, <2>2
<1>24. ASSUME NEW x \in Proc \ {c}, NEW r \in anc[x] \cup {x}
       PROVE  OwnTable(r)' = OwnTable(r) /\ OwnStack(r)' = OwnStack(r)
  <2>1. r \in Proc \ {c}
    BY <1>7, <1>24
  <2>2. QED
    BY <1>16, <2>1
<1>25. ASSUME NEW q \in Proc, NEW i \in Slot
       PROVE  table'[q][i] = NoPage \/ \E r \in anc2[q] \cup {q} : OwnTable(r)'[i] = table'[q][i]
  <2>1. PICK x \in Proc \ {c} : /\ table'[q] = table[x] /\ stack'[q] = stack[x]
                                /\ anc[x] \cup {x} \subseteq anc2[q] \cup {q}
    BY <1>23
  <2>2. table[x][i] = NoPage \/ \E r \in anc[x] \cup {x} : OwnTable(r)[i] = table[x][i]
    BY <1>2 DEF Ancestry
  <2>3. QED
    BY <1>24, <2>1, <2>2
<1>26. ASSUME NEW q \in Proc
       PROVE  stack'[q] = NoPage \/ \E r \in anc2[q] \cup {q} : OwnStack(r)' = stack'[q]
  <2>1. PICK x \in Proc \ {c} : /\ table'[q] = table[x] /\ stack'[q] = stack[x]
                                /\ anc[x] \cup {x} \subseteq anc2[q] \cup {q}
    BY <1>23
  <2>2. stack[x] = NoPage \/ \E r \in anc[x] \cup {x} : OwnStack(r) = stack[x]
    BY <1>2 DEF Ancestry
  <2>3. QED
    BY <1>24, <2>1, <2>2
<1>27. PICK new \in [Proc -> SUBSET Proc] : new = anc2
  BY <1>19
<1>28. Ancestry(new)'
  BY <1>20, <1>21, <1>22, <1>25, <1>26, <1>27 DEF Ancestry
<1>29. QED
  BY <1>15, <1>16, <1>17, <1>18, <1>28 DEF Sane

\* A vfork child leaves its parent's memory; another process just goes on, or is
\* gone.
LEMMA LeaveKept ==
  ASSUME IInv, Sane, NEW p \in Proc, pc[p] \in {"commit", "exit"}, life[p] = "run", drop[p] = << >>,
         Leave(p), UNCHANGED <<pool, table, brk, stack, text, hold, claim, drop, maps>>
  PROVE  Sane'
<1> DEFINE u == vparent[p]
<1>1. /\ Typed /\ OneOwner /\ Phase(p) /\ \A q \in Proc : Kept(q)
      /\ pc \in [Proc -> Loading \cup {"user", "grow", "claim", "commit", "exit"}]
  BY DEF Sane, Kept, IInv
<1>2. PICK anc \in [Proc -> SUBSET Proc] : Ancestry(anc)
  BY DEF Sane
<1>3. /\ life' = [q \in Proc |-> IF q = u THEN "run" ELSE IF q = p /\ pc[p] = "exit" THEN "free" ELSE life[q]]
      /\ vparent' = [vparent EXCEPT ![p] = NULL] /\ pc' = [pc EXCEPT ![p] = "user"]
  BY DEF Leave, Goto
<1>4. \A q \in Proc : vparent[q] # p /\ p \notin anc[q] /\ (vparent[q] # NULL => vparent[q] \in Proc)
  BY <1>1, <1>2, RunsAlone, OwnFact
<1>5. /\ vparent'[p] = NULL /\ pc'[p] = "user" /\ life'[p] = IF pc[p] = "exit" THEN "free" ELSE "run"
      /\ \A q \in Proc \ {p} : /\ vparent'[q] = vparent[q] /\ pc'[q] = pc[q]
                               /\ life'[q] = IF q = u THEN "run" ELSE life[q]
  BY <1>1, <1>3, <1>4 DEF Typed
<1>6. u # NULL => u \in Proc /\ u \in anc[p] /\ life[u] = "vfork"
  BY <1>2, <1>4 DEF Ancestry
\* p: what it has was its own already.
<1>7. /\ OwnTable(p) = table[p] /\ OwnStack(p) = stack[p]
      /\ OwnTable(p)' = table[p] /\ OwnStack(p)' = stack[p]
  <2>1. OwnTable(p) = table[p] /\ OwnStack(p) = stack[p]
    BY <1>1 DEF Phase
  <2>2. OwnTable(p)' = table[p] /\ OwnStack(p)' = stack[p]
    BY <1>5 DEF OwnTable, OwnStack
  <2>3. QED
    BY <2>1, <2>2
<1>8. Held(p)' = Held(p) /\ InImage(p)' = InImage(p) /\ InCall(p)' = InCall(p)
  <2>1. Held(p)' = Held(p)
    BY DEF Held
  <2>2. QED
    BY <1>7, <2>1 DEF InImage, InCall
<1>9. Mine(p)' = Mine(p)
  BY <1>8 DEF Mine
<1>10. Kept(p)'
  <2>1. Apart(p)'
    BY <1>1, <1>7, <1>8 DEF Apart, Kept
  <2>2. Phase(p)'
    BY <1>1, <1>5, <1>7 DEF Phase, Loading
  <2>3. Stages(p)' /\ Claiming(p)'
    BY <1>5 DEF Stages, Claiming
  <2>4. Settled(p)' => Settled(p)
    BY <1>5 DEF Settled
  <2>5. Heap(p)'
    BY <1>1, <2>4 DEF Heap, Kept
  <2>6. Mappings(p)'
    BY <1>1 DEF Mappings, Phase
  <2>7. QED
    BY <2>1, <2>2, <2>3, <2>5, <2>6 DEF Kept
\* The others
<1>11. ASSUME NEW q \in Proc \ {p}
       PROVE  /\ OwnTable(q)' = OwnTable(q) /\ OwnStack(q)' = OwnStack(q)
              /\ Mine(q)' = Mine(q) /\ Kept(q)'
  <2>1. vparent'[q] = vparent[q] /\ pc'[q] = pc[q] /\ Kept(q)
    BY <1>1, <1>5
  <2>2. LifeKept(q)
    <3>1. CASE q = u
      <4>1. u # NULL
        BY <3>1, MemoryAssumption
      <4>2. life[q] = "vfork" /\ life'[q] = "run"
        BY <1>5, <1>6, <3>1, <4>1
      <4>3. QED
        BY <4>2 DEF LifeKept
    <3>2. CASE q # u
      BY <1>5, <3>2 DEF LifeKept
    <3>3. QED
      BY <3>1, <3>2
  <2>3. QED
    BY <1>1, <2>1, <2>2, OthersKept
<1>12. OneOwner'
  BY <1>1, <1>9, <1>11, OwnersKept
<1>13. Typed'
  BY <1>1, <1>3 DEF Typed
<1> DEFINE anc2 == [anc EXCEPT ![p] = {}]
<1>14. /\ anc2 \in [Proc -> SUBSET Proc] /\ anc2[p] = {} /\ \A q \in Proc \ {p} : anc2[q] = anc[q]
  OBVIOUS
<1> HIDE DEF anc2
<1>15. \A q \in Proc : anc2[q] = IF vparent'[q] = NULL THEN {} ELSE {vparent'[q]} \cup anc2[vparent'[q]]
  <2>1. ASSUME NEW q \in Proc \ {p}
        PROVE  anc2[q] = IF vparent'[q] = NULL THEN {} ELSE {vparent'[q]} \cup anc2[vparent'[q]]
    <3>1. anc[q] = IF vparent[q] = NULL THEN {} ELSE {vparent[q]} \cup anc[vparent[q]]
      BY <1>2 DEF Ancestry
    <3>2. vparent[q] # NULL => anc2[vparent[q]] = anc[vparent[q]]
      BY <1>4, <1>14
    <3>3. QED
      BY <1>5, <1>14, <3>1, <3>2
  <2>2. QED
    BY <1>5, <1>14, <2>1
\* The parent has no other child, so it is above nobody any more.
<1>16. ASSUME NEW q \in Proc, NEW r \in anc2[q] PROVE life'[r] = "vfork"
  <2>1. q # p /\ r \in anc[q] /\ r \in Proc /\ r # p /\ life[r] = "vfork"
    BY <1>2, <1>4, <1>14, <1>16 DEF Ancestry
  <2>2. r # u
    <3>1. SUFFICES ASSUME r = u PROVE FALSE
      OBVIOUS
    <3>2. u # NULL
      BY <2>1, <3>1, MemoryAssumption
    <3>3. p = q \/ p \in anc[q]
      BY <1>2, <2>1, <3>1, <3>2 DEF Ancestry
    <3>4. QED
      BY <1>4, <2>1, <3>3
  <2>3. QED
    BY <1>5, <2>1, <2>2
<1>17. ASSUME NEW x \in Proc, NEW q \in Proc, vparent'[x] # NULL, vparent'[x] \in anc2[q]
       PROVE  x = q \/ x \in anc2[q]
  <2>1. x # p /\ q # p
    BY <1>5, <1>14, <1>17
  <2>2. vparent[x] # NULL /\ vparent[x] \in anc[q]
    BY <1>5, <1>14, <1>17, <2>1
  <2>3. x = q \/ x \in anc[q]
    BY <1>2, <2>2 DEF Ancestry
  <2>4. QED
    BY <1>14, <2>1, <2>3
<1>18. ASSUME NEW q \in Proc, NEW i \in Slot
       PROVE  table'[q][i] = NoPage \/ \E r \in anc2[q] \cup {q} : OwnTable(r)'[i] = table'[q][i]
  <2>1. CASE q = p
    BY <1>7, <2>1
  <2>2. CASE q # p
    <3>1. table[q][i] = NoPage \/ \E r \in anc[q] \cup {q} : OwnTable(r)[i] = table[q][i]
      BY <1>2 DEF Ancestry
    <3>2. \A r \in anc[q] \cup {q} : r \in Proc \ {p}
      BY <1>4, <2>2
    <3>3. QED
      BY <1>11, <1>14, <2>2, <3>1, <3>2
  <2>3. QED
    BY <2>1, <2>2
<1>19. ASSUME NEW q \in Proc
       PROVE  stack'[q] = NoPage \/ \E r \in anc2[q] \cup {q} : OwnStack(r)' = stack'[q]
  <2>1. CASE q = p
    BY <1>7, <2>1
  <2>2. CASE q # p
    <3>1. stack[q] = NoPage \/ \E r \in anc[q] \cup {q} : OwnStack(r) = stack[q]
      BY <1>2 DEF Ancestry
    <3>2. \A r \in anc[q] \cup {q} : r \in Proc \ {p}
      BY <1>4, <2>2
    <3>3. QED
      BY <1>11, <1>14, <2>2, <3>1, <3>2
  <2>3. QED
    BY <2>1, <2>2
<1>20. PICK new \in [Proc -> SUBSET Proc] : new = anc2
  BY <1>14
<1>21. Ancestry(new)'
  BY <1>15, <1>16, <1>17, <1>18, <1>19, <1>20 DEF Ancestry
<1>22. QED
  BY <1>10, <1>11, <1>12, <1>13, <1>21 DEF Sane

-----------------------------------------------------------------------------
(* All states *)

LEMMA TwoFact ==
  /\ <<1, 2>> \in Seq(Page) /\ Len(<<1, 2>>) = 2 /\ <<1, 2>>[1] = 1 /\ <<1, 2>>[2] = 2
  /\ Once(<<1, 2>>) /\ Vals(<<1, 2>>) = {1, 2}
<1>1. 1 \in Page /\ 2 \in Page
  BY MemoryAssumption, Numbers DEF Page
<1>2. /\ <<1, 2>> \in Seq(Page) /\ Len(<<1, 2>>) = 2 /\ <<1, 2>>[1] = 1 /\ <<1, 2>>[2] = 2
      /\ DOMAIN <<1, 2>> = {1, 2}
  <2>1. DOMAIN <<1, 2>> = 1..2 /\ 1..2 = {1, 2}
    OBVIOUS
  <2>2. QED
    BY <1>1, <2>1
<1>3. Vals(<<1, 2>>) = {1, 2}
  BY <1>2 DEF Vals, NoPage
<1>4. Once(<<1, 2>>)
  BY <1>2 DEF Once
<1>5. QED
  BY <1>2, <1>3, <1>4

LEMMA SaneInit ==
  ASSUME Init
  PROVE  Sane
<1> DEFINE first == CHOOSE p \in Proc : TRUE
           t == Filled(EmptyTable, 0, <<1, 2>>)
<1>0. first \in Proc /\ PageCount \in Nat /\ PageCount > 4 /\ SlotMax \in Nat /\ SlotMax > 1
  BY MemoryAssumption, Numbers
<1>1. /\ table = [p \in Proc |-> IF p = first THEN t ELSE EmptyTable]
      /\ brk = [p \in Proc |-> IF p = first THEN [base |-> 3, cur |-> 3] ELSE NoBrk]
      /\ stack = [p \in Proc |-> IF p = first THEN PageCount - 1 ELSE NoPage]
      /\ text = [p \in Proc |-> << >>] /\ vparent = [p \in Proc |-> NULL]
      /\ life = [p \in Proc |-> IF p = first THEN "run" ELSE "free"]
      /\ pc = [p \in Proc |-> "user"] /\ hold = [p \in Proc |-> NoHold]
      /\ claim = [p \in Proc |-> NoClaim] /\ drop = [p \in Proc |-> << >>]
      /\ maps = [p \in Proc |-> {}]
  BY DEF Init
<1>2. FreePages(pool) = Span(3, PageCount - 4) \cup Span(PageCount, 1)
  BY InitWell
<1>3. /\ t \in [Slot -> Val] /\ Vals(t) = {1, 2} /\ Once(t) /\ t[0] = 1 /\ t[1] = 2
  <2> DEFINE s == <<1, 2>>
  <2>1. /\ 0 + Len(s) <= SlotMax /\ Vacant(EmptyTable, 0, Len(s)) /\ 0 \in Nat /\ s \in Seq(Page)
        /\ EmptyTable \in [Slot -> Val] /\ Vals(EmptyTable) = {} /\ Once(EmptyTable) /\ Once(s)
    BY <1>0, TwoFact, EmptyImage DEF Vacant
  <2>5. Vals(s) = {1, 2} /\ Len(s) = 2 /\ s[1] = 1 /\ s[2] = 2
    BY TwoFact
  <2> HIDE DEF s
  <2>2. /\ Filled(EmptyTable, 0, s) \in [Slot -> Val]
        /\ \A i \in 1..Len(s) : 0 + (i - 1) \in Slot /\ Filled(EmptyTable, 0, s)[0 + (i - 1)] = s[i]
        /\ Vals(Filled(EmptyTable, 0, s)) = Vals(EmptyTable) \cup Vals(s)
        /\ Once(Filled(EmptyTable, 0, s))
    BY <2>1, FilledFact, ZenonT(40)
  <2>3. 1 \in 1..Len(s) /\ 2 \in 1..Len(s) /\ 0 + (1 - 1) = 0 /\ 0 + (2 - 1) = 1
    BY <2>5
  <2>4. QED
    BY <2>1, <2>2, <2>3, <2>5 DEF s
<1> HIDE DEF t, first
<1>4. Typed
  <2>1. /\ NoBrk \in [base : Nat, cur : Nat] /\ [base |-> 3, cur |-> 3] \in [base : Nat, cur : Nat]
        /\ NoPage \in Val /\ PageCount - 1 \in Val
    BY <1>0 DEF NoBrk, Val, Page
  <2>2. QED
    BY <1>1, <1>3, <2>1, EmptyImage, NothingHeld DEF Typed
<1>5. ASSUME NEW p \in Proc
      PROVE  /\ OwnTable(p) = table[p] /\ OwnStack(p) = stack[p] /\ Once(OwnTable(p))
             /\ Vals(OwnTable(p)) = (IF p = first THEN {1, 2} ELSE {})
             /\ Vals(<<OwnStack(p)>>) = (IF p = first THEN {PageCount - 1} ELSE {})
             /\ Vals(text[p]) = {} /\ Once(text[p])
             /\ InCall(p) = {} /\ Once(Held(p)) /\ Once(claim[p].got) /\ Once(drop[p])
  <2>1. OwnTable(p) = table[p] /\ OwnStack(p) = stack[p]
    BY <1>1, <1>4, OwnFact
  <2>2. /\ Once(table[p]) /\ Vals(table[p]) = IF p = first THEN {1, 2} ELSE {}
    BY <1>1, <1>3, EmptyImage
  <2>3. Vals(<<stack[p]>>) = IF p = first THEN {PageCount - 1} ELSE {}
    <3>1. PageCount - 1 # NoPage
      BY <1>0 DEF NoPage
    <3>2. Vals(<<stack[p]>>) = {stack[p]} \ {NoPage}
      BY OneFact
    <3>3. QED
      BY <1>1, <3>1, <3>2
  <2>4. Vals(text[p]) = {} /\ Once(text[p])
    BY <1>1, EmptyFact
  <2>5. /\ Vals(Held(p)) = {} /\ Once(Held(p)) /\ Vals(claim[p].got) = {} /\ Once(claim[p].got)
        /\ Vals(drop[p]) = {} /\ Once(drop[p])
    BY <1>1, NothingHeld, EmptyFact DEF Held, Cat
  <2>6. InCall(p) = {}
    BY <2>5 DEF InCall
  <2>7. QED
    BY <2>1, <2>2, <2>3, <2>4, <2>5, <2>6
<1>6. ASSUME NEW p \in Proc PROVE Mine(p) = IF p = first THEN {1, 2, PageCount - 1} ELSE {}
  BY <1>5 DEF Mine, InImage
<1>7. OneOwner
  <2>1. {1, 2, PageCount - 1} \cap FreePages(pool) = {}
    BY <1>0, <1>2 DEF Span
  <2>2. ASSUME NEW g \in Page PROVE g \in FreePages(pool) \/ g \in {1, 2, PageCount - 1}
    BY <1>0, <1>2 DEF Span, Page
  <2>3. QED
    BY <1>0, <1>6, <2>1, <2>2 DEF OneOwner
<1>8. ASSUME NEW p \in Proc PROVE Kept(p)
  <2>1. Apart(p)
    <3>1. PageCount - 1 # 1 /\ PageCount - 1 # 2
      BY <1>0
    <3>2. QED
      BY <1>5, <3>1 DEF Apart
  <2>2. Phase(p)
    BY <1>1, <1>5 DEF Phase, Loading
  <2>3. Stages(p) /\ Claiming(p) /\ Mappings(p)
    BY <1>1 DEF Stages, Claiming, Mappings
  <2>4. Heap(p)
    <3>1. SUFFICES ASSUME p = first PROVE Heap(p)
      BY <1>1 DEF Heap, Settled
    <3>2. table[p][0] = 1 /\ table[p][1] = 2 /\ brk[p].base = 3 /\ brk[p].cur = 3
      BY <1>1, <1>3, <3>1
    <3>3. ASSUME NEW i \in 0..(3 - 1 - 1) PROVE table[p][i] = 1 + i
      <4>1. i = 0 \/ i = 1
        OBVIOUS
      <4>2. QED
        BY <3>2, <4>1
    <3>4. 1 \in Page /\ 3 - 1 <= SlotMax
      BY <1>0 DEF Page
    <3>5. QED
      BY <3>2, <3>3, <3>4 DEF Heap
  <2>5. QED
    BY <2>1, <2>2, <2>3, <2>4 DEF Kept
<1>9. Ancestry([p \in Proc |-> {}])
  BY <1>1, <1>5 DEF Ancestry
<1>10. [p \in Proc |-> {}] \in [Proc -> SUBSET Proc]
  OBVIOUS
<1>11. QED
  BY <1>4, <1>7, <1>8, <1>9, <1>10 DEF Sane

\* Nothing changes.
LEMMA StandStill ==
  ASSUME Sane, UNCHANGED vars
  PROVE  Sane'
<1>1. /\ Typed /\ OneOwner /\ \A q \in Proc : Kept(q)
      /\ UNCHANGED <<pool, table, brk, stack, text, vparent, life, pc, hold, claim, drop, maps>>
  BY DEF Sane, vars, image
<1>2. PICK anc \in [Proc -> SUBSET Proc] : Ancestry(anc)
  BY DEF Sane
<1>3. ASSUME NEW q \in Proc
      PROVE  /\ OwnTable(q)' = OwnTable(q) /\ OwnStack(q)' = OwnStack(q)
             /\ Mine(q)' = Mine(q) /\ Kept(q)'
  <2>1. LifeKept(q)
    BY <1>1 DEF LifeKept
  <2>2. QED
    BY <1>1, <2>1, OthersKept
<1>4. OneOwner'
  BY <1>1, <1>3, OwnersKept
<1>5. Typed'
  BY <1>1 DEF Typed
<1>6. Ancestry(anc)'
  BY <1>1, <1>2, <1>3 DEF Ancestry
<1>7. QED
  BY <1>3, <1>4, <1>5, <1>6 DEF Sane

\* Every step keeps the invariant; once a table is overwritten there is none.
LEMMA OInvNext ==
  IInv /\ OInv /\ [Next]_vars => OInv'
<1> SUFFICES ASSUME IInv, OInv, [Next]_vars PROVE OInv'
  OBVIOUS
<1>1. CASE UNCHANGED vars
  <2>1. wild' = wild
    BY <1>1 DEF vars
  <2>2. QED
    BY <1>1, <2>1, StandStill DEF OInv
<1>2. ASSUME NEW p \in Proc, NEW i \in Images, ExecCall(p, i) PROVE OInv'
  <2>1. Sane
    BY <1>2 DEF ExecCall, Enter, At, OInv
  <2>2. QED
    BY <1>2, <2>1, ExecCallKept DEF OInv
<1>3. ASSUME NEW p \in Proc, NEW c \in Proc, Vfork(p, c) PROVE OInv'
  <2>1. Sane
    BY <1>3 DEF Vfork, Enter, At, OInv
  <2>2. QED
    BY <1>3, <2>1, VforkKept DEF OInv
<1>4. ASSUME NEW p \in Proc, ExecStep(p) \/ ExecReject(p) PROVE OInv'
  <2>1. Sane
    BY <1>4 DEF ExecStep, ExecReject, At, OInv
  <2>2. QED
    BY <1>4, <2>1, ExecStepKept DEF OInv
<1>5. ASSUME NEW p \in Proc, ExecCommit(p) PROVE OInv'
  <2>1. Sane
    BY <1>5 DEF ExecCommit, At, OInv
  <2>2. QED
    BY <1>5, <2>1, ExecCommitKept DEF OInv
<1>6. ASSUME NEW p \in Proc, ExecDone(p) \/ ExitDone(p) PROVE OInv'
  <2>1. /\ Sane /\ pc[p] \in {"commit", "exit"} /\ life[p] = "run" /\ drop[p] = << >> /\ Leave(p)
        /\ UNCHANGED <<pool, table, brk, stack, text, hold, claim, drop, maps>>
    BY <1>6 DEF ExecDone, ExitDone, At, OInv, image
  <2>2. QED
    BY <2>1, LeaveKept DEF OInv
<1>7. ASSUME NEW p \in Proc, Exit(p) PROVE OInv'
  <2>1. Sane
    BY <1>7 DEF Exit, Enter, At, OInv
  <2>2. QED
    BY <1>7, <2>1, ExitKept DEF OInv
<1>8. ASSUME NEW p \in Proc, NEW e \in 1..(PageCount + 1), Brk(p, e) PROVE OInv'
  <2>1. Sane /\ (e - Page0(p) > brk[p].cur - Page0(p) \/ e - Page0(p) < brk[p].cur - Page0(p))
    BY <1>8 DEF Brk, Enter, At, OInv
  <2>2. QED
    BY <1>8, <2>1, BrkGrowKept, BrkShrinkKept DEF OInv
<1>9. ASSUME NEW p \in Proc, NEW e \in 1..(PageCount + 1), BrkChild(p, e) PROVE OInv'
  BY <1>9 DEF BrkChild, OInv
<1>10. ASSUME NEW p \in Proc, ClaimPage(p) PROVE OInv'
  <2>1. Sane
    BY <1>10 DEF ClaimPage, At, OInv
  <2>2. QED
    BY <1>10, <2>1, ClaimPageKept DEF OInv
<1>20. ASSUME NEW p \in Proc, WokenEarly(p) PROVE OInv'
  BY <1>20 DEF WokenEarly, OInv
<1>21. ASSUME NEW p \in Proc, BrkPage(p) PROVE OInv'
  <2>1. Sane
    BY <1>21 DEF BrkPage, At, OInv
  <2>2. QED
    BY <1>21, <2>1, BrkTakes, BrkGivesUp DEF OInv
<1>22. ASSUME NEW p \in Proc, BrkDone(p) PROVE OInv'
  <2>1. Sane
    BY <1>22 DEF BrkDone, At, OInv
  <2>2. QED
    BY <1>22, <2>1, BrkDoneKept DEF OInv
<1>11. ASSUME NEW p \in Proc, ClaimDone(p) PROVE OInv'
  <2>1. Sane
    BY <1>11 DEF ClaimDone, At, OInv
  <2>2. QED
    BY <1>11, <2>1, ClaimDoneKept DEF OInv
<1>12. ASSUME NEW p \in Proc, NEW n \in MapSizes, Mmap(p, n) PROVE OInv'
  <2>1. Sane
    BY <1>12 DEF Mmap, Enter, At, OInv
  <2>2. QED
    BY <1>12, <2>1, MmapKept DEF OInv
<1>13. ASSUME NEW p \in Proc, NEW n \in MapSizes, NEW at \in FixedAt, MmapFixed(p, n, at) PROVE OInv'
  <2>1. Sane
    BY <1>13 DEF MmapFixed, Enter, At, OInv
  <2>2. QED
    BY <1>13, <2>1, MmapFixedKept DEF OInv
<1>14. ASSUME NEW p \in Proc, NEW m \in maps[p], NEW b \in PagesOf(m), NEW n \in 1..(After(m) - b),
              Munmap(p, m, b, n)
       PROVE  OInv'
  <2>1. Sane
    BY <1>14 DEF Munmap, Enter, At, OInv
  <2>2. QED
    BY <1>14, <2>1, MunmapKept DEF OInv
<1>15. ASSUME NEW p \in Proc, Drop(p) PROVE OInv'
  <2>1. Sane
    BY <1>15 DEF Drop, OInv
  <2>2. QED
    BY <1>15, <2>1, DropKept DEF OInv
<1>16. ASSUME NEW p \in Proc, ExecPath(p) PROVE OInv'
  BY <1>4, <1>5, <1>6, <1>16 DEF ExecPath
<1>17. ASSUME NEW p \in Proc, BrkCall(p) PROVE OInv'
  BY <1>8, <1>9, <1>17 DEF BrkCall
<1>18. ASSUME NEW p \in Proc, MapCall(p) PROVE OInv'
  BY <1>12, <1>13, <1>14, <1>18 DEF MapCall
<1>19. QED
  BY <1>1, <1>2, <1>3, <1>6, <1>7, <1>10, <1>11, <1>15, <1>16, <1>17, <1>18,
     <1>20, <1>21, <1>22 DEF Next

-----------------------------------------------------------------------------
(* The places that will free a page *)

Find(s, g, p, name, x) == \E i \in DOMAIN s : x = <<p, name, i>> /\ s[i] = g

Site(p, g, x) == \/ Find(OwnTable(p), g, p, "table", x)
                 \/ x = <<p, "stack", 0>> /\ OwnStack(p) = g
                 \/ Find(text[p], g, p, "text", x)
                 \/ Find(Held(p), g, p, "hold", x)
                 \/ Find(claim[p].got, g, p, "claim", x)
                 \/ Find(drop[p], g, p, "drop", x)

LEMMA FindFact ==
  ASSUME NEW s, NEW g, g # NoPage, NEW p, NEW name
  PROVE  /\ (\E x : Find(s, g, p, name, x)) <=> g \in Vals(s)
         /\ Once(s) => \A x, y : Find(s, g, p, name, x) /\ Find(s, g, p, name, y) => x = y
<1>1. ASSUME NEW x, Find(s, g, p, name, x) PROVE g \in Vals(s)
  BY <1>1 DEF Find, Vals
<1>2. ASSUME g \in Vals(s) PROVE \E x : Find(s, g, p, name, x)
  <2>1. PICK i \in DOMAIN s : s[i] = g
    BY <1>2 DEF Vals
  <2>2. Find(s, g, p, name, <<p, name, i>>)
    BY <2>1 DEF Find
  <2>3. QED
    BY <2>2
<1>3. ASSUME Once(s), NEW x, NEW y, Find(s, g, p, name, x), Find(s, g, p, name, y) PROVE x = y
  <2>1. PICK i \in DOMAIN s : x = <<p, name, i>> /\ s[i] = g
    BY <1>3 DEF Find
  <2>2. PICK j \in DOMAIN s : y = <<p, name, j>> /\ s[j] = g
    BY <1>3 DEF Find
  <2>3. i = j
    BY <1>3, <2>1, <2>2 DEF Once
  <2>4. QED
    BY <2>1, <2>2, <2>3
<1>4. QED
  BY <1>1, <1>2, <1>3

LEMMA HolderFact ==
  ASSUME Typed, NEW g \in Page, NEW x
  PROVE  x \in Holders(g) <=> \E p \in Proc : Site(p, g, x)
<1> DEFINE up(p) == vparent[p]
           mine(p, y, theirs) == y = g /\ (up(p) = NULL \/ y # theirs)
           A(p) == {<<p, "table", i>> : i \in {i \in Slot : OwnTable(p)[i] = g}}
           B(p) == {<<p, "stack", 0>> : y \in {y \in {stack[p]} :
                      mine(p, y, IF up(p) = NULL THEN NoPage ELSE stack[up(p)])}}
           C(p) == {<<p, "text", i>> : i \in {i \in DOMAIN text[p] : text[p][i] = g}}
           D(p) == {<<p, "hold", i>> : i \in {i \in DOMAIN Held(p) : Held(p)[i] = g}}
           E(p) == {<<p, "claim", i>> : i \in {i \in DOMAIN claim[p].got : claim[p].got[i] = g}}
           F(p) == {<<p, "drop", i>> : i \in {i \in DOMAIN drop[p] : drop[p][i] = g}}
           all(p) == A(p) \cup B(p) \cup C(p) \cup D(p) \cup E(p) \cup F(p)
<1>0. g # NoPage
  BY Numbers
<1>1. Holders(g) = UNION {all(p) : p \in Proc}
  BY DEF Holders
<1>2. ASSUME NEW p \in Proc PROVE x \in all(p) <=> Site(p, g, x)
  <2>1. x \in A(p) <=> Find(OwnTable(p), g, p, "table", x)
    <3>1. DOMAIN OwnTable(p) = Slot
      BY OwnFact
    <3>2. QED
      BY <3>1 DEF Find
  <2>2. x \in B(p) <=> x = <<p, "stack", 0>> /\ OwnStack(p) = g
    BY <1>0 DEF OwnStack
  <2>3. x \in C(p) <=> Find(text[p], g, p, "text", x)
    BY DEF Find
  <2>4. x \in D(p) <=> Find(Held(p), g, p, "hold", x)
    BY DEF Find
  <2>5. x \in E(p) <=> Find(claim[p].got, g, p, "claim", x)
    BY DEF Find
  <2>6. x \in F(p) <=> Find(drop[p], g, p, "drop", x)
    BY DEF Find
  <2> HIDE DEF A, B, C, D, E, F
  <2>7. QED
    BY <2>1, <2>2, <2>3, <2>4, <2>5, <2>6 DEF Site
<1> HIDE DEF all
<1>3. QED
  BY <1>1, <1>2

\* A call has pages in its hands in one way at a time.
LEMMA HandsApart ==
  ASSUME Sane, NEW p \in Proc
  PROVE  /\ Vals(Held(p)) \cap Vals(claim[p].got) = {}
         /\ Vals(Held(p)) \cap Vals(drop[p]) = {}
         /\ Vals(claim[p].got) \cap Vals(drop[p]) = {}
<1>1. Phase(p) /\ Claiming(p)
  BY DEF Sane, Kept
<1>2. pc[p] \notin Loading => Vals(Held(p)) = {}
  BY <1>1, NothingHeld DEF Phase, Held, Cat
<1>3. pc[p] # "claim" => Vals(claim[p].got) = {}
  BY <1>1, NothingHeld, EmptyFact DEF Phase, Claiming, Growing
<1>4. pc[p] \in Loading \cup {"grow", "claim"} => Vals(drop[p]) = {}
  BY <1>1, EmptyFact DEF Phase
<1>5. "claim" \notin Loading
  BY DEF Loading
<1>6. QED
  BY <1>2, <1>3, <1>4, <1>5

\* A process has a page at one place, if it has it.
LEMMA SiteFact ==
  ASSUME Sane, NEW p \in Proc, NEW g \in Page
  PROVE  /\ (\E x : Site(p, g, x)) <=> g \in Mine(p)
         /\ \A x, y : Site(p, g, x) /\ Site(p, g, y) => x = y
<1> DEFINE a(x) == Find(OwnTable(p), g, p, "table", x)
           b(x) == x = <<p, "stack", 0>> /\ OwnStack(p) = g
           c(x) == Find(text[p], g, p, "text", x)
           d(x) == Find(Held(p), g, p, "hold", x)
           e(x) == Find(claim[p].got, g, p, "claim", x)
           f(x) == Find(drop[p], g, p, "drop", x)
           va == Vals(OwnTable(p))
           vb == Vals(<<OwnStack(p)>>)
           vc == Vals(text[p])
           vd == Vals(Held(p))
           ve == Vals(claim[p].got)
           vf == Vals(drop[p])
<1>0. g # NoPage /\ Typed /\ Apart(p)
  BY Numbers DEF Sane, Kept
<1>1. /\ (\E x : a(x)) <=> g \in va
      /\ \A x, y : a(x) /\ a(y) => x = y
  BY <1>0, FindFact DEF Apart
<1>2. /\ (\E x : b(x)) <=> g \in vb
      /\ \A x, y : b(x) /\ b(y) => x = y
  <2>1. vb = {OwnStack(p)} \ {NoPage}
    BY OneFact
  <2> HIDE DEF vb
  <2>2. QED
    BY <1>0, <2>1
<1>3. /\ (\E x : c(x)) <=> g \in vc
      /\ \A x, y : c(x) /\ c(y) => x = y
  BY <1>0, FindFact DEF Apart
<1>4. /\ (\E x : d(x)) <=> g \in vd
      /\ \A x, y : d(x) /\ d(y) => x = y
  BY <1>0, FindFact DEF Apart
<1>5. /\ (\E x : e(x)) <=> g \in ve
      /\ \A x, y : e(x) /\ e(y) => x = y
  BY <1>0, FindFact DEF Apart
<1>6. /\ (\E x : f(x)) <=> g \in vf
      /\ \A x, y : f(x) /\ f(y) => x = y
  BY <1>0, FindFact DEF Apart
<1>7. /\ va \cap vc = {} /\ vb \cap (va \cup vc) = {}
      /\ (va \cup vb \cup vc) \cap (vd \cup ve \cup vf) = {}
  BY <1>0 DEF Apart, InImage, InCall
<1>8. vd \cap ve = {} /\ vd \cap vf = {} /\ ve \cap vf = {}
  BY HandsApart
<1>9. Mine(p) = va \cup vb \cup vc \cup (vd \cup ve \cup vf)
  BY DEF Mine, InImage, InCall
<1>10. \A x : Site(p, g, x) <=> a(x) \/ b(x) \/ c(x) \/ d(x) \/ e(x) \/ f(x)
  BY DEF Site
<1> HIDE DEF a, b, c, d, e, f, va, vb, vc, vd, ve, vf
<1>11. (\E x : Site(p, g, x)) <=> g \in Mine(p)
  BY <1>1, <1>2, <1>3, <1>4, <1>5, <1>6, <1>9, <1>10
<1>12. ASSUME NEW x, NEW y, Site(p, g, x), Site(p, g, y) PROVE x = y
  <2>1. CASE g \in va
    BY <1>1, <1>2, <1>3, <1>4, <1>5, <1>6, <1>7, <1>10, <1>12, <2>1
  <2>2. CASE g \in vb
    BY <1>1, <1>2, <1>3, <1>4, <1>5, <1>6, <1>7, <1>10, <1>12, <2>2
  <2>3. CASE g \in vc
    BY <1>1, <1>2, <1>3, <1>4, <1>5, <1>6, <1>7, <1>10, <1>12, <2>3
  <2>4. CASE g \in vd
    BY <1>1, <1>2, <1>3, <1>4, <1>5, <1>6, <1>7, <1>8, <1>10, <1>12, <2>4
  <2>5. CASE g \in ve
    BY <1>1, <1>2, <1>3, <1>4, <1>5, <1>6, <1>7, <1>8, <1>10, <1>12, <2>5
  <2>6. CASE g \in vf
    BY <1>1, <1>2, <1>3, <1>4, <1>5, <1>6, <1>7, <1>8, <1>10, <1>12, <2>6
  <2>7. g \in Mine(p)
    BY <1>11, <1>12
  <2>8. QED
    BY <1>9, <2>1, <2>2, <2>3, <2>4, <2>5, <2>6, <2>7
<1>13. QED
  BY <1>11, <1>12

LEMMA OwnedOnceHolds ==
  ASSUME OInv
  PROVE  OwnedOnce
<1> SUFFICES ASSUME ~wild, NEW g \in Page
             PROVE  Cardinality(Holders(g)) = IF g \in FreePages(pool) THEN 0 ELSE 1
  BY DEF OwnedOnce
<1>1. Sane /\ Typed /\ OneOwner
  BY DEF OInv, Sane
<1>2. CASE g \in FreePages(pool)
  <2>1. ASSUME NEW x \in Holders(g) PROVE FALSE
    <3>1. PICK p \in Proc : Site(p, g, x)
      BY <1>1, HolderFact
    <3>2. g \in Mine(p)
      BY <1>1, <3>1, SiteFact
    <3>3. QED
      BY <1>1, <1>2, <3>2 DEF OneOwner
  <2>2. Holders(g) = {}
    BY <2>1
  <2>3. QED
    BY <1>2, <2>2, FS_EmptySet
<1>3. CASE g \notin FreePages(pool)
  <2>1. PICK p \in Proc : g \in Mine(p)
    BY <1>1, <1>3 DEF OneOwner
  <2>2. PICK x : Site(p, g, x)
    BY <1>1, <2>1, SiteFact
  <2>3. x \in Holders(g)
    BY <1>1, <2>2, HolderFact
  <2>4. ASSUME NEW y \in Holders(g) PROVE y = x
    <3>1. PICK q \in Proc : Site(q, g, y)
      BY <1>1, HolderFact
    <3>2. g \in Mine(q)
      BY <1>1, <3>1, SiteFact
    <3>3. q = p
      BY <1>1, <2>1, <3>2 DEF OneOwner
    <3>4. QED
      BY <1>1, <2>2, <3>1, <3>3, SiteFact
  <2>5. Holders(g) = {x}
    BY <2>3, <2>4
  <2>6. QED
    BY <1>3, <2>5, FS_Singleton
<1>4. QED
  BY <1>2, <1>3

\* No page is lost, and none is freed or given out twice, whatever execve, brk,
\* mmap2, munmap, vfork or exit fails half way and whatever other processes take
\* and free between its steps: a page is in the free list, or exactly one place
\* of one process will give it back.  For any number of pages, slots, processes
\* and calls; what follows a table that brk overwrote is left out.
THEOREM PagesOwnedOnce == Spec => []OwnedOnce
<1>1. Init => IInv /\ OInv
  BY IInvInit, SaneInit DEF OInv
<1>2. (IInv /\ OInv) /\ [Next]_vars => (IInv /\ OInv)'
  BY IInvNext, OInvNext
<1>3. IInv /\ OInv => OwnedOnce
  BY OwnedOnceHolds
<1>4. QED
  BY <1>1, <1>2, <1>3, PTL DEF Spec

LEMMA GivenIsHeldHolds ==
  ASSUME OInv
  PROVE  GivenIsHeld
<1> SUFFICES ASSUME ~wild, NEW p \in Proc, At(p, "user"), vparent[p] = NULL
             PROVE  /\ \A i \in 0..(brk[p].cur - Page0(p) - 1) : table[p][i] = Page0(p) + i
                    /\ \A m \in maps[p] : \A g \in PagesOf(m) : \E i \in Slot :
                         i >= brk[p].cur - Page0(p) /\ table[p][i] = g
  BY DEF GivenIsHeld
<1>1. Sane /\ Typed /\ Mappings(p)
  BY DEF OInv, Sane, Kept
<1>2. Settled(p)
  BY DEF At, Settled
<1>3. /\ Page0(p) = table[p][0] /\ table[p][0] \in Page /\ brk[p].cur \in Nat
      /\ \A i \in 0..(brk[p].cur - table[p][0] - 1) : table[p][i] = table[p][0] + i
  BY <1>1, <1>2, Page0Fact DEF Typed
<1>4. ASSUME NEW m \in maps[p], NEW g \in PagesOf(m)
      PROVE  \E i \in Slot : i >= brk[p].cur - Page0(p) /\ table[p][i] = g
  <2> DEFINE w == brk[p].cur - table[p][0]
             k == g - m.base
  <2>1. m.base \in Nat /\ m.base > 0 /\ m.pages \in Nat
    BY <1>1, Numbers DEF Typed, BlockType, Page
  <2>2. k \in 0..(m.pages - 1) /\ m.base + k = g /\ w \in Int
    BY <1>3, <2>1 DEF PagesOf, After, Page
  <2> HIDE DEF k
  <2>3. PICK s \in Slot : LiesAt(p, m, s)
    BY <1>1 DEF Mappings
  <2>4. s + k \in Slot /\ OwnTable(p)[s + k] = g /\ w <= s
    BY <1>2, <2>2, <2>3 DEF LiesAt
  <2>5. table[p][s + k] = g
    BY <1>1, <2>4, OwnFact
  <2> HIDE DEF w
  <2>6. s + k >= w
    BY <2>2, <2>4, Numbers
  <2>7. QED
    BY <1>3, <2>4, <2>5, <2>6 DEF w
<1>5. QED
  BY <1>3, <1>4

\* A program between two calls has all the memory it was given and has not given
\* back: consecutive pages from its first up to its break, and above them every
\* page of every mapping, whatever its own calls and those of others did to the
\* table and the free list before.
THEOREM ProgramsKeepPages == Spec => []GivenIsHeld
<1>1. Init => IInv /\ OInv
  BY IInvInit, SaneInit DEF OInv
<1>2. (IInv /\ OInv) /\ [Next]_vars => (IInv /\ OInv)'
  BY IInvNext, OInvNext
<1>3. IInv /\ OInv => GivenIsHeld
  BY GivenIsHeldHolds
<1>4. QED
  BY <1>1, <1>2, <1>3, PTL DEF Spec
=============================================================================
