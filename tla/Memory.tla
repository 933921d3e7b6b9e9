------------------------------- MODULE Memory -------------------------------
(***************************************************************************)
(* Who has which page: execve and exit (core/syscall/sys_proc.c, the ELF   *)
(* loader of core/exec), vfork's shared table, brk, mmap2 and munmap       *)
(* (core/syscall/sys_mem.c), over the page allocator (module PagePool).    *)
(* A call takes and frees its pages one allocator call at a time, and      *)
(* other processes' calls come in between: each is a step.                 *)
(*                                                                         *)
(* What only the process itself reads changes with the step next to it: an *)
(* execve keeps the old table until the new image is complete, where the   *)
(* code empties it, saves it in a page and restores it on failure.         *)
(*                                                                         *)
(* Images have a data segment and a stack of their own (native processors  *)
(* other than the 8086).  Sizes are in pages.                              *)
(***************************************************************************)
EXTENDS PagePool, TLC

CONSTANTS Proc, NULL,
          SlotMax,     \* USER_PAGES_MAX
          Images,      \* programs: pages of staged file, of text in RAM, of data
          MapSizes,    \* pages asked of mmap2
          FixedAt,     \* addresses asked with MAP_FIXED
          MaxCalls     \* bound: calls made

ASSUME MemoryAssumption == /\ SlotMax \in Nat /\ MaxCalls \in Nat /\ NULL \notin Proc
                           /\ FixedAt \subseteq Page /\ MapSizes \subseteq Nat \ {0}
                           /\ Images \subseteq [stage : Nat, text : Nat, data : Nat]
                           /\ Proc # {} /\ PageCount > 4 /\ SlotMax > 1   \* what Init needs

VARIABLES pool,
          table,    \* pcb.user_pages
          brk,      \* brk_base and brk_current: the first page after them
          stack,    \* user_stack_page
          text,     \* image.text when it is OWNED: its pages
          vparent,  \* pcb.vfork_parent
          life,     \* "free", "run", or "vfork": asleep in vfork
          pc,
          img,      \* the program execve is loading
          hold,     \* what execve has allocated so far
          claim,    \* what a growing brk or MAP_FIXED has still to take and has taken
          drop,     \* pages still to be freed by the call
          maps,     \* ghost: mappings the program was given and has not unmapped
          wild,     \* ghost: one of three accidents has happened, see Properties
          calls

image == <<table, brk, stack, text>>
vars == <<pool, image, vparent, life, pc, img, hold, claim, drop, maps, wild, calls>>

Slot == 0..(SlotMax - 1)
Parts == {"args", "snap", "stage", "stack", "text", "data"}
EmptyTable == [i \in Slot |-> NoPage]
NoHold == [f \in Parts |-> << >>]
NoClaim == [at |-> 0, n |-> 0, slot |-> 0, got |-> << >>]
NoBrk == [base |-> 0, cur |-> 0]

Run(base, n) == [i \in 1..n |-> base + i - 1]
Filled(t, slot, pages) ==
  [i \in Slot |-> IF i - slot + 1 \in DOMAIN pages THEN pages[i - slot + 1] ELSE t[i]]

\* The table slots from lo up to hi, in order; an empty one has nothing to free.
Tracked(t, lo, hi) == [i \in 1..(IF hi > lo THEN hi - lo ELSE 0) |-> t[lo + i - 1]]
Cleared(t, lo, hi) == [i \in Slot |-> IF lo <= i /\ i < hi THEN NoPage ELSE t[i]]

\* The first process runs an image of two pages of data; the page that had its
\* arguments is free again.
Init ==
  LET first == CHOOSE p \in Proc : TRUE
      with(x, none) == [p \in Proc |-> IF p = first THEN x ELSE none]
  IN  /\ pool = [blocks |-> <<Block(3, PageCount - 4), Block(PageCount, 1)>>,
                 total |-> PageCount - 3]
      /\ table = with(Filled(EmptyTable, 0, <<1, 2>>), EmptyTable)
      /\ brk = with([base |-> 3, cur |-> 3], NoBrk)
      /\ stack = with(PageCount - 1, NoPage)
      /\ text = [p \in Proc |-> << >>]
      /\ vparent = [p \in Proc |-> NULL]
      /\ life = with("run", "free")
      /\ pc = [p \in Proc |-> "user"]
      /\ img = [p \in Proc |-> NULL]
      /\ hold = [p \in Proc |-> NoHold]
      /\ claim = [p \in Proc |-> NoClaim]
      /\ drop = [p \in Proc |-> << >>]
      /\ maps = [p \in Proc |-> {}]
      /\ wild = FALSE /\ calls = 0

At(p, point) == life[p] = "run" /\ pc[p] = point /\ drop[p] = << >> /\ ~wild
Goto(p, point) == pc' = [pc EXCEPT ![p] = point]

\* A system call is made.
Enter(p) == At(p, "user") /\ calls < MaxCalls /\ calls' = calls + 1

\* Pages are to be freed, then the call goes on at the point given.
FreeThen(p, pages, point) ==
  /\ drop' = [drop EXCEPT ![p] = pages]
  /\ Goto(p, point)

\* page_free, one page after the other.
Drop(p) == /\ life[p] = "run" /\ ~wild /\ drop[p] # << >>
           /\ pool' = PageFree(pool, Head(drop[p]))
           /\ drop' = [drop EXCEPT ![p] = Tail(@)]
           /\ UNCHANGED <<image, vparent, life, pc, img, hold, claim, maps, wild, calls>>

\* The pages of p's table that are not its vfork parent's in the same slot
\* (proc_release_private_tracked_pages), or all of them.
OwnTable(p) ==
  IF vparent[p] = NULL THEN table[p]
  ELSE [i \in Slot |-> IF table[p][i] = table[vparent[p]][i] THEN NoPage ELSE table[p][i]]

\* As OldImage, with no regard to the parent.
OldImage_All(p) ==
  text[p] \o Tracked(table[p], 0, SlotMax)
  \o (IF stack[p] = NoPage THEN << >> ELSE <<stack[p]>>)

\* What p gives back when it leaves its image: text, table and stack, or what
\* is its own of the parent's.
OldImage(p) ==
  IF vparent[p] # NULL THEN Tracked(OwnTable(p), 0, SlotMax)
  ELSE text[p] \o Tracked(table[p], 0, SlotMax)
       \o (IF stack[p] = NoPage THEN << >> ELSE <<stack[p]>>)

----------------------------------------------------------------------------
\* execve

\* What execve has taken, in the order a failure gives it back.
Held(p) == hold[p].data \o hold[p].text \o hold[p].stack \o hold[p].stage
           \o hold[p].snap \o hold[p].args

Fail(p) == /\ FreeThen(p, Held(p), "user")
           /\ hold' = [hold EXCEPT ![p] = NoHold]
           /\ img' = [img EXCEPT ![p] = NULL]

\* region_alloc of n pages for one part of the new image; without them the
\* call fails.
Get(p, part, n, next) ==
  LET a == TakeN(pool, n)
  IN  /\ pool' = a.pool
      /\ IF a.page = NoPage THEN Fail(p)
         ELSE /\ hold' = [hold EXCEPT ![p][part] = Run(a.page, n)]
              /\ Goto(p, next)
              /\ UNCHANGED <<img, drop>>

Skip(p, next) == Goto(p, next) /\ UNCHANGED <<pool, hold, img, drop>>

ExecCall(p, i) ==
  LET a == TakeN(pool, 1)
  IN  /\ Enter(p)
      /\ a.page # NoPage   \* else ENOMEM
      /\ pool' = a.pool
      /\ hold' = [hold EXCEPT ![p].args = <<a.page>>]
      /\ img' = [img EXCEPT ![p] = i]
      /\ Goto(p, "snap")
      /\ UNCHANGED <<image, vparent, life, claim, drop, maps, wild>>

ExecStep(p) ==
  /\ \/ At(p, "snap") /\ Get(p, "snap", 1, "stage")
     \/ /\ At(p, "stage")
        /\ IF img[p].stage = 0 THEN Skip(p, "stack")   \* executed in place
           ELSE Get(p, "stage", img[p].stage, "stack")
     \/ At(p, "stack") /\ Get(p, "stack", 1, "text")
     \/ /\ At(p, "text")
        /\ IF img[p].text = 0 THEN Skip(p, "data")
           ELSE Get(p, "text", img[p].text, "data")
     \/ /\ At(p, "data")
        /\ IF img[p].data > SlotMax THEN Fail(p) /\ UNCHANGED pool
           ELSE Get(p, "data", img[p].data, "reloc")
  /\ UNCHANGED <<image, vparent, life, claim, maps, wild, calls>>

\* Arguments that do not fit, no such file, not a program, a file that cannot
\* be read, a bad relocation
ExecReject(p) ==
  /\ At(p, "snap") \/ At(p, "stage") \/ At(p, "stack") \/ At(p, "reloc")
  /\ Fail(p)
  /\ UNCHANGED <<pool, image, vparent, life, claim, maps, wild, calls>>

ExecCommit(p) ==
  LET h == hold[p]
      base == h.data[1]
  IN  /\ At(p, "reloc")
      /\ table' = [table EXCEPT ![p] = Filled(EmptyTable, 0, h.data)]
      /\ brk' = [brk EXCEPT ![p] = [base |-> base + Len(h.data), cur |-> base + Len(h.data)]]
      /\ stack' = [stack EXCEPT ![p] = h.stack[1]]
      /\ text' = [text EXCEPT ![p] = h.text]
      /\ FreeThen(p, h.stage \o h.args \o OldImage(p) \o h.snap, "commit")
      /\ hold' = [hold EXCEPT ![p] = NoHold]
      /\ img' = [img EXCEPT ![p] = NULL]
      /\ maps' = [maps EXCEPT ![p] = {}]
      /\ UNCHANGED <<pool, vparent, life, claim, wild, calls>>

\* The vfork parent wakes and p is on its own.
Leave(p) == /\ life' = [q \in Proc |-> IF q = vparent[p] THEN "run"
                                       ELSE IF q = p /\ pc[p] = "exit" THEN "free"
                                       ELSE life[q]]
            /\ vparent' = [vparent EXCEPT ![p] = NULL]
            /\ Goto(p, "user")

ExecDone(p) == /\ At(p, "commit")
               /\ Leave(p)
               /\ UNCHANGED <<pool, image, img, hold, claim, drop, maps, wild, calls>>

----------------------------------------------------------------------------
\* vfork, exit

\* The child has the parent's table and stack; its brk is that of a new pcb.
Vfork(p, c) ==
  /\ Enter(p)
  /\ life[c] = "free"
  /\ life' = [life EXCEPT ![p] = "vfork", ![c] = "run"]
  /\ vparent' = [vparent EXCEPT ![c] = p]
  /\ table' = [table EXCEPT ![c] = table[p]]
  /\ stack' = [stack EXCEPT ![c] = stack[p]]
  /\ UNCHANGED <<pool, brk, text, pc, img, hold, claim, drop, maps, wild>>

\* The parent does not look again when it wakes: the exit of another of its
\* children, or a signal, sends it back into memory the child is using.
WokenEarly(p) == /\ life[p] = "vfork" /\ ~wild
                 /\ life' = [life EXCEPT ![p] = "run"]
                 /\ wild' = TRUE
                 /\ UNCHANGED <<pool, image, vparent, pc, img, hold, claim, drop, maps, calls>>

Exit(p) == /\ Enter(p)
           /\ FreeThen(p, OldImage(p), "exit")
           /\ table' = [table EXCEPT ![p] = EmptyTable]
           /\ brk' = [brk EXCEPT ![p] = NoBrk]   \* proc_alloc, at the next vfork
           /\ stack' = [stack EXCEPT ![p] = NoPage]
           /\ text' = [text EXCEPT ![p] = << >>]
           /\ maps' = [maps EXCEPT ![p] = {}]
           /\ UNCHANGED <<pool, vparent, life, img, hold, claim, wild>>

ExitDone(p) == /\ At(p, "exit")
               /\ Leave(p)
               /\ UNCHANGED <<pool, image, img, hold, claim, drop, maps, wild, calls>>

----------------------------------------------------------------------------
\* brk

\* proc_page_backed_base: the page of the first slot in use
Page0(p) == table[p][Min({i \in Slot : table[p][i] # NoPage})]

\* sys_brk to end before page e; growth takes the pages after the old end.
Brk(p, e) ==
  LET old == brk[p].cur - Page0(p)
      new == e - Page0(p)
  IN  /\ Enter(p) /\ vparent[p] = NULL
      /\ e >= brk[p].base /\ new <= SlotMax   \* else the break stays
      /\ \/ /\ new > old
            /\ claim' = [claim EXCEPT ![p] = [at |-> brk[p].cur, n |-> new - old,
                           slot |-> old, got |-> << >>]]
            /\ Goto(p, "grow")
            /\ UNCHANGED <<table, brk, drop>>
         \/ /\ new < old
            /\ brk' = [brk EXCEPT ![p].cur = e]
            /\ FreeThen(p, Tracked(table[p], new, old), "user")
            /\ table' = [table EXCEPT ![p] = Cleared(@, new, old)]
            /\ UNCHANGED claim
      /\ UNCHANGED <<pool, stack, text, vparent, life, img, hold, maps, wild>>

\* In a vfork child the old break is 0, page0 is the parent's and old_pages
\* wraps around: no page is taken and the slots above are freed.
BrkChild(p, e) ==
  LET new == e - Page0(p)
  IN  /\ Enter(p) /\ vparent[p] # NULL
      /\ 0 < new /\ new <= SlotMax
      /\ brk' = [brk EXCEPT ![p].cur = e]
      /\ FreeThen(p, Tracked(table[p], new, SlotMax), "user")
      /\ table' = [table EXCEPT ![p] = Cleared(@, new, SlotMax)]
      /\ wild' = TRUE
      /\ UNCHANGED <<pool, stack, text, vparent, life, img, hold, claim, maps>>

\* The next page of a growing heap goes to its slot at once, and brk does not
\* look whether mmap2 has put another there.  A page that is not free sends
\* back those before it, and their slots are empty.
BrkPage(p) ==
  LET c == claim[p]
      a == TakeAt(pool, c.at)
      old == brk[p].cur - Page0(p)
  IN  /\ At(p, "grow") /\ c.n > 0
      /\ pool' = a.pool
      /\ IF a.page = NoPage
         THEN /\ FreeThen(p, Tracked(table[p], old, c.slot), "user")
              /\ table' = [table EXCEPT ![p] = Cleared(@, old, c.slot)]
              /\ claim' = [claim EXCEPT ![p] = NoClaim]
              /\ UNCHANGED wild
         ELSE /\ table' = [table EXCEPT ![p] = Filled(@, c.slot, <<a.page>>)]
              /\ wild' = (table[p][c.slot] # NoPage)
              /\ claim' = [claim EXCEPT ![p] = [at |-> c.at + 1, n |-> c.n - 1,
                                               slot |-> c.slot + 1, got |-> << >>]]
              /\ UNCHANGED <<pc, drop>>
      /\ UNCHANGED <<brk, stack, text, vparent, life, img, hold, maps, calls>>

BrkDone(p) == /\ At(p, "grow") /\ claim[p].n = 0
              /\ brk' = [brk EXCEPT ![p].cur = claim[p].at]
              /\ claim' = [claim EXCEPT ![p] = NoClaim]
              /\ Goto(p, "user")
              /\ UNCHANGED <<pool, table, stack, text, vparent, life, img, hold, drop, maps,
                             wild, calls>>

----------------------------------------------------------------------------
\* mmap2, munmap

\* region_alloc_at of MAP_FIXED: one page at a time; one that is not free sends
\* back those before it.
ClaimPage(p) ==
  LET c == claim[p]
      a == TakeAt(pool, c.at + Len(c.got))
  IN  /\ At(p, "claim") /\ Len(c.got) < c.n
      /\ pool' = a.pool
      /\ IF a.page = NoPage
         THEN /\ FreeThen(p, c.got, "user")
              /\ claim' = [claim EXCEPT ![p] = NoClaim]
         ELSE /\ claim' = [claim EXCEPT ![p].got = Append(@, a.page)]
              /\ UNCHANGED <<pc, drop>>
      /\ UNCHANGED <<image, vparent, life, img, hold, maps, wild, calls>>

\* As ClaimDone, one slot further.
ClaimDone_NextSlot(p) ==
  LET c == claim[p]
  IN  /\ At(p, "claim") /\ Len(c.got) = c.n
      /\ table' = [table EXCEPT ![p] = Filled(@, c.slot + 1, c.got)]
      /\ maps' = [maps EXCEPT ![p] = @ \cup {Block(c.at, c.n)}]
      /\ claim' = [claim EXCEPT ![p] = NoClaim]
      /\ Goto(p, "user")
      /\ UNCHANGED <<pool, brk, stack, text, vparent, life, img, hold, drop, wild, calls>>

\* The pages go to their slots.
ClaimDone(p) ==
  LET c == claim[p]
  IN  /\ At(p, "claim") /\ Len(c.got) = c.n
      /\ table' = [table EXCEPT ![p] = Filled(@, c.slot, c.got)]
      /\ maps' = [maps EXCEPT ![p] = @ \cup {Block(c.at, c.n)}]
      /\ claim' = [claim EXCEPT ![p] = NoClaim]
      /\ Goto(p, "user")
      /\ UNCHANGED <<pool, brk, stack, text, vparent, life, img, hold, drop, wild, calls>>

\* mmap_find_slots: the highest of these
FreeRuns(p, n) ==
  {s \in Slot : \A i \in s..(s + n - 1) : i \in Slot /\ table[p][i] = NoPage}

Mmap(p, n) ==
  LET a == TakeN(pool, n)
  IN  /\ Enter(p)
      /\ FreeRuns(p, n) # {} /\ a.page # NoPage   \* else ENOMEM
      /\ pool' = a.pool
      /\ table' = [table EXCEPT ![p] = Filled(@, Max(FreeRuns(p, n)), Run(a.page, n))]
      /\ maps' = [maps EXCEPT ![p] = @ \cup {Block(a.page, n)}]
      /\ UNCHANGED <<brk, stack, text, vparent, life, pc, img, hold, claim, drop, wild>>

MmapFixed(p, n, at) ==
  /\ Enter(p)
  /\ FreeRuns(p, n) # {}
  /\ claim' = [claim EXCEPT ![p] = [at |-> at, n |-> n, slot |-> Max(FreeRuns(p, n)),
                                    got |-> << >>]]
  /\ Goto(p, "claim")
  /\ UNCHANGED <<pool, image, vparent, life, img, hold, drop, maps, wild>>

\* sys_munmap of n pages of mapping m from page b on: the slot of b is looked
\* up, and the slots after it are freed up to an empty one.  (An address the
\* process was not given is left out.)
Munmap(p, m, b, n) ==
  LET i == Min({j \in Slot : table[p][j] = b})
      full == {k \in i..SlotMax : \A j \in i..(k - 1) : table[p][j] # NoPage}
      to == Min({i + n, Max(full)})
      rest == {Block(m.base, b - m.base), Block(b + n, After(m) - b - n)}
  IN  /\ Enter(p)
      /\ \E j \in Slot : table[p][j] = b
      /\ FreeThen(p, Tracked(table[p], i, to), "user")
      /\ table' = [table EXCEPT ![p] = Cleared(@, i, to)]
      /\ maps' = [maps EXCEPT ![p] = (@ \ {m}) \cup {r \in rest : r.pages > 0}]
      /\ UNCHANGED <<pool, brk, stack, text, vparent, life, img, hold, claim, wild>>

----------------------------------------------------------------------------
BrkCall(p) == \E e \in 1..(PageCount + 1) : Brk(p, e) \/ BrkChild(p, e)
MapCall(p) == \/ \E n \in MapSizes : Mmap(p, n) \/ \E at \in FixedAt : MmapFixed(p, n, at)
              \/ \E m \in maps[p] : \E b \in PagesOf(m) :
                   \E n \in 1..(After(m) - b) : Munmap(p, m, b, n)
ExecPath(p) == ExecStep(p) \/ ExecReject(p) \/ ExecCommit(p) \/ ExecDone(p)

Next == \E p \in Proc :
          \/ \E i \in Images : ExecCall(p, i)
          \/ \E c \in Proc : Vfork(p, c)
          \/ ExecPath(p) \/ WokenEarly(p) \/ Exit(p) \/ ExitDone(p)
          \/ BrkCall(p) \/ BrkPage(p) \/ BrkDone(p)
          \/ MapCall(p) \/ ClaimPage(p) \/ ClaimDone(p) \/ Drop(p)

Spec == Init /\ [][Next]_vars

----------------------------------------------------------------------------
\* Properties.  wild is set by the three accidents the code cannot recover from:
\* a page of a growing brk put over a slot mmap2 uses, brk in a vfork child, and
\* a vfork parent that runs before its child has left.  What follows them is
\* not explored.

\* The free list keeps the invariants of page_pool.h through every call.
PoolCanonical == Canonical(pool)

\* The places that will free page g: a slot of a table (not one shared with the
\* vfork parent), a stack, the text, an execve under way, a call still freeing.
Holders(g) ==
  UNION {LET up == vparent[p]
             mine(x, theirs) == x = g /\ (up = NULL \/ x # theirs)
         IN  {<<p, "table", i>> : i \in {i \in Slot : OwnTable(p)[i] = g}}
             \cup {<<p, "stack", 0>> : x \in {x \in {stack[p]} :
                      mine(x, IF up = NULL THEN NoPage ELSE stack[up])}}
             \cup {<<p, "text", i>> : i \in {i \in DOMAIN text[p] : text[p][i] = g}}
             \cup {<<p, "hold", i>> : i \in {i \in DOMAIN Held(p) : Held(p)[i] = g}}
             \cup {<<p, "claim", i>> : i \in {i \in DOMAIN claim[p].got : claim[p].got[i] = g}}
             \cup {<<p, "drop", i>> : i \in {i \in DOMAIN drop[p] : drop[p][i] = g}}
         : p \in Proc}

\* No page is lost and none is freed or given out twice, whatever call fails
\* half way and whoever else allocates meanwhile: a page is free, or exactly
\* one place will free it.
OwnedOnce ==
  ~wild => \A g \in Page :
             Cardinality(Holders(g)) = IF g \in FreePages(pool) THEN 0 ELSE 1

\* A program keeps what it was given: its data and heap are consecutive pages
\* from its first up to the break, and the pages of its mappings are its own.
GivenIsHeld ==
  ~wild => \A p \in Proc : At(p, "user") /\ vparent[p] = NULL =>
    /\ \A i \in 0..(brk[p].cur - Page0(p) - 1) : table[p][i] = Page0(p) + i
    /\ \A m \in maps[p] : \A g \in PagesOf(m) : \E i \in Slot :
         i >= brk[p].cur - Page0(p) /\ table[p][i] = g

\* What sys_mem.c says of mmap_find_slots and sys_brk does not keep: mappings
\* and a growing heap do not collide, so the pages of a mapping are in the table.
\* TLC violates it in the instance of MCMemory (README, section 5).
MapsApart ==
  \A p \in Proc : life[p] = "run" /\ vparent[p] = NULL =>
    \A m \in maps[p] : \A g \in PagesOf(m) : \E i \in Slot : table[p][i] = g
============================================================================
