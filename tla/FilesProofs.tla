---------------------------- MODULE FilesProofs ----------------------------
(***************************************************************************)
(* The references to vnodes and to open files, the path buffers, the       *)
(* mounts and the table of tmpfs, for any number of processes and calls    *)
(* and pools of any size.                                                  *)
(***************************************************************************)
EXTENDS Files, FiniteSetTheorems, SequenceTheorems, WellFoundedInduction, TLAPS

Kinds == {"DIR", "FILE", "SYMLINK", "DEV"}
Fields == [refcnt : Nat, mount : Slot \cup {NULL},
           ino : Ino \cup DOMAIN RootDir \cup {RootName, NULL}, type : Kinds,
           size : 0..FileMax]

Calling == {"namebuf", "created", "trunc", "desc", "fill"}
Walking == {"names", "norm", "bufs", "root", "mount", "pinned", "lookup", "drop", "link",
            "readlink", "got"}
Ready == {"root", "mount", "pinned", "lookup", "drop"}
Taking == {"names", "bufs", "link"}
Mounting == {"fs_mount", "activate"}
Handling == {"install", "io", "put", "close", "dup2"}

\* What the process holds at each point of a call.
HasCur == {"mount", "pinned", "lookup", "drop", "got", "created", "trunc", "desc", "fill"}
HasChild == {"drop", "link", "readlink"}
HasPar(r) == \/ r.pc \in Walking /\ r.walk = 2 /\ r.call.op \in {"rename", "link"}
             \/ r.pc = "created"

CallBufs(r) == CASE r.call.op = "rename" -> 2
                 [] r.call.op \in {"unlink", "mkdir"} -> 1
                 [] r.call.op \in {"open", "link"} -> r.walk - 1
                 [] OTHER -> 0

Bufs(r) == CASE r.pc \in {"norm", "got"} -> CallBufs(r)
             [] r.pc = "readlink" -> CallBufs(r) + WalkBufs + LinkBufs
             [] r.pc \in {"root", "mount", "pinned", "lookup", "drop"} -> CallBufs(r) + WalkBufs
             [] r.pc = "names" -> r.got
             [] r.pc = "bufs" -> CallBufs(r) + 1 + r.got
             [] r.pc = "link" -> CallBufs(r) + WalkBufs + r.got
             [] r.pc = "created" -> 1
             [] OTHER -> 0

Points == {"idle"} \cup Calling \cup Walking \cup Mounting \cup Handling

Loc == [pc : Points,
        call : PathCalls \cup {NULL}, walk : 0..2, todo : Seq(Name), done : Seq(Name),
        loops : Nat, tries : Nat, got : Nat, buf : Nat, slot : Slot \cup {NULL},
        cur : Vnode \cup {NULL}, pin : Vnode \cup {NULL},
        child : Vnode \cup {NULL}, par : Vnode \cup {NULL}]

\* The point of its call that a process is at tells which vnodes it holds and how many
\* path buffers: what an error path has to give back there.
Holding(r) ==
  /\ r.pc \in HasCur <=> r.cur # NULL
  /\ r.pc = "pinned" <=> r.pin # NULL
  /\ r.pc \in HasChild <=> r.child # NULL
  /\ HasPar(r) <=> r.par # NULL
  /\ r.buf = Bufs(r)

\* A call that needs a second walk, or a new entry, is one of those that may.
Within(r) ==
  /\ r.pc \in Calling \cup Walking => r.call \in PathCalls
  /\ r.pc \in Calling => r.call.op = "open"
  /\ r.pc \in Walking => /\ r.walk \in {1, 2}
                         /\ r.walk = 2 => r.call.op \in {"rename", "link", "open"}
                         /\ r.walk = 2 /\ r.call.op = "open" => "creat" \in r.call.flags
  /\ r.pc = "names" => r.walk = 1 /\ r.call.op = "rename"
  /\ r.pc \in {"names", "bufs", "link"} => r.got <= r.tries /\ r.tries <= 3
  /\ r.pc = "namebuf" => "creat" \in r.call.flags
  /\ r.pc = "mount" => r.todo # << >>
  /\ r.pc \in Mounting => r.slot \in Slot

FileType == [refcnt : Nat, ops : {"none", "vfs", "tty"}, vnode : Vnode \cup {NULL},
             offset : Nat, append : BOOLEAN]
IoType == [desc : Desc \cup {NULL}, vn : Vnode \cup {NULL},
           op : {"none", "read", "write", "lseek", "idle", "dup2"}, n : Nat, fd : Nat]
MountType == [state : {"FREE", "MOUNTING", "ACTIVE"}, path : Seq(Name),
              root : Vnode \cup {NULL}]

Typed ==
  /\ vnode \in [Vnode -> Fields]
  /\ mnt \in [Slot -> MountType]
  /\ scratch \in Nat
  /\ loc \in [Proc -> Loc]
  /\ file \in [Desc -> FileType]
  /\ fdmap \in [Proc -> [Fd -> Desc \cup {NULL}]]
  /\ io \in [Proc -> IoType]

\* What each call of tmpfs keeps of its table, and what it keeps until two mounts meet.
TmpTyped(t) == /\ t \in [node : [Ino -> Inode], used : Nat, torn : BOOLEAN]
               /\ t.node[RootIno].name = NoName

Whole(t) ==
  /\ \A i \in Ino \ {RootIno} : \A j \in Ino \ {RootIno, i} :
       t.node[i].active /\ t.node[j].active /\ t.node[i].parent = t.node[j].parent
       => t.node[i].name # t.node[j].name
  /\ Cardinality({i \in Ino : t.node[i].page}) <= t.used
  /\ t.used <= PageMax

TmpOK(t) == TmpTyped(t) /\ (t.torn \/ Whole(t))

\* A vnode in use names something there is.
Fits(v) == \/ /\ v.mount = RootSlot
              /\ v.ino \in DOMAIN RootDir \cup {RootName}
              /\ v.type = "SYMLINK" => v.ino \in DOMAIN RootDir /\ RootDir[v.ino] = "SYMLINK"
           \/ /\ v.mount \in Slot \ {RootSlot} /\ v.ino \in Ino /\ v.type \in {"DIR", "FILE"}

\* The mount of a vnode is active, or still being made or unmade with its root alone.
Mounted(v) == \/ mnt[vnode[v].mount].state = "ACTIVE"
              \/ mnt[vnode[v].mount].root = v /\ vnode[v].refcnt = 1

VnodesFit == \A v \in Vnode : \/ vnode[v] = BlankVnode
                              \/ vnode[v].refcnt > 0 /\ Fits(vnode[v]) /\ Mounted(v)

MountsFit ==
  /\ mnt[RootSlot] = [state |-> "ACTIVE", path |-> << >>, root |-> RootVnode]
  /\ \A s \in Slot :
       /\ mnt[s].state = "FREE" => mnt[s].root = NULL
       /\ mnt[s].state = "ACTIVE" => mnt[s].root # NULL
       /\ mnt[s].root # NULL => vnode[mnt[s].root].mount = s /\ vnode[mnt[s].root].type = "DIR"

\* vfs_mount works, unlocked, on a slot that nobody else has.
MakingMount(p) ==
  loc[p].pc \in Mounting =>
    /\ mnt[loc[p].slot].state = "MOUNTING"
    /\ loc[p].pc = "fs_mount" <=> mnt[loc[p].slot].root = NULL
    /\ \A q \in Proc \ {p} : loc[q].pc \in Mounting => loc[q].slot # loc[p].slot

AtLink(p) == loc[p].pc \in {"link", "readlink"} => vnode[loc[p].child].type = "SYMLINK"

FilesFit == \A d \in Desc : file[d].ops = "vfs" <=> file[d].vnode # NULL

Busying == {"fill", "install", "io", "put"}
Doubling(p) == \/ loc[p].pc = "dup2"
               \/ loc[p].pc = "close" /\ io[p].op = "dup2"

\* What a call on a descriptor knows of the entry it works on while it holds no lock;
\* dup2 keeps a name for the entry while it closes the descriptor in its place.
Handles(p) ==
  /\ io[p].vn # NULL => loc[p].pc = "close"
  /\ loc[p].pc \in Busying => io[p].desc # NULL
  /\ loc[p].pc = "fill" => file[io[p].desc].refcnt = 1 /\ file[io[p].desc].ops = "none"
  /\ loc[p].pc \in {"install", "io", "put"} => file[io[p].desc].ops # "none"
  /\ loc[p].pc = "close" => io[p].op \in {"idle", "dup2"}
  /\ Doubling(p) => /\ io[p].fd \in Fd /\ fdmap[p][io[p].fd] = NULL /\ io[p].desc # NULL
                    /\ \E f \in Fd : fdmap[p][f] = io[p].desc

IInv == /\ Typed /\ TmpOK(tmp) /\ VnodesFit /\ MountsFit /\ FilesFit
        /\ VnodeRefs /\ DescRefs /\ BuffersReturned
        /\ \A p \in Proc : Holding(loc[p]) /\ Within(loc[p]) /\ MakingMount(p) /\ AtLink(p) /\ Handles(p)

-----------------------------------------------------------------------------
(* Counting *)

One(b) == IF b THEN 1 ELSE 0
Same(x, y) == IF x = y THEN 1 ELSE 0

\* A set of numbers that is not empty has a least one.
LEMMA MinFact ==
  ASSUME NEW S \in SUBSET Nat, S # {}
  PROVE  Min(S) \in S /\ \A y \in S : Min(S) <= y
<1>1. PICK x \in S : \A y \in S : ~(<<y, x>> \in OpToRel(<, Nat))
  BY NatLessThanWellFounded, WFMin
<1>2. ASSUME NEW y \in S PROVE ~(y < x)
  <2>1. SUFFICES ASSUME y < x PROVE FALSE
    OBVIOUS
  <2>2. <<y, x>> \in Nat \X Nat
    OBVIOUS
  <2>3. <<y, x>>[1] = y /\ <<y, x>>[2] = x
    OBVIOUS
  <2>4. <<y, x>> \in OpToRel(<, Nat)
    BY <2>1, <2>2, <2>3, Zenon DEF OpToRel
  <2>5. QED
    BY <1>1, <2>4, Zenon
<1>3. \A y \in S : x <= y
  BY <1>2
<1>4. QED
  BY <1>3 DEF Min

\* Sets that differ at most in one element.
LEMMA CountOne ==
  ASSUME NEW S, IsFiniteSet(S), NEW T \in SUBSET S, NEW U \in SUBSET S, NEW a \in S,
         \A x \in S \ {a} : x \in T <=> x \in U
  PROVE  /\ Cardinality(T) \in Nat /\ Cardinality(U) \in Nat
         /\ Cardinality(U) + One(a \in T) = Cardinality(T) + One(a \in U)
<1> DEFINE R == T \ {a}
<1>1. IsFiniteSet(R) /\ IsFiniteSet(T) /\ IsFiniteSet(U)
  BY FS_Subset
<1>2. Cardinality(R) \in Nat /\ Cardinality(T) \in Nat /\ Cardinality(U) \in Nat
  BY <1>1, FS_CardinalityType
<1>3. Cardinality(R \cup {a}) = Cardinality(R) + 1
  BY <1>1, FS_AddElement
<1>4. T = IF a \in T THEN R \cup {a} ELSE R
  OBVIOUS
<1>5. U = IF a \in U THEN R \cup {a} ELSE R
  OBVIOUS
<1> HIDE DEF R
<1>6. Cardinality(T) = Cardinality(R) + One(a \in T)
  BY <1>2, <1>3, <1>4 DEF One
<1>7. Cardinality(U) = Cardinality(R) + One(a \in U)
  BY <1>2, <1>3, <1>5 DEF One
<1>8. QED
  BY <1>2, <1>6, <1>7 DEF One

\* Sets of pairs that differ at most in one row, which is t in one and u in the other.
Rows(P, H, T, U, p, t, u) ==
  /\ IsFiniteSet(P) /\ IsFiniteSet(H) /\ p \in P
  /\ T \in SUBSET (P \X H) /\ U \in SUBSET (P \X H) /\ t \in SUBSET H /\ u \in SUBSET H
  /\ \A q \in P \ {p} : \A h \in H : <<q, h>> \in T <=> <<q, h>> \in U
  /\ \A h \in H : (h \in t <=> <<p, h>> \in T) /\ (h \in u <=> <<p, h>> \in U)

LEMMA CountRow ==
  ASSUME NEW P, NEW H, NEW T, NEW U, NEW p, NEW t, NEW u, Rows(P, H, T, U, p, t, u)
  PROVE  /\ Cardinality(T) \in Nat /\ Cardinality(U) \in Nat /\ Cardinality(t) \in Nat
         /\ Cardinality(t) <= Cardinality(T)
         /\ Cardinality(U) + Cardinality(t) = Cardinality(T) + Cardinality(u)
<1>0. /\ IsFiniteSet(P) /\ IsFiniteSet(H) /\ p \in P
      /\ T \in SUBSET (P \X H) /\ U \in SUBSET (P \X H) /\ t \in SUBSET H /\ u \in SUBSET H
      /\ \A q \in P \ {p} : \A h \in H : <<q, h>> \in T <=> <<q, h>> \in U
      /\ \A h \in H : (h \in t <=> <<p, h>> \in T) /\ (h \in u <=> <<p, h>> \in U)
  BY DEF Rows
<1> DEFINE R == {x \in T : x[1] # p}
<1>1. IsFiniteSet(P \X H) /\ IsFiniteSet({p}) /\ Cardinality({p}) = 1
  BY <1>0, FS_Product, FS_Singleton
<1>2. IsFiniteSet(T) /\ IsFiniteSet(U) /\ IsFiniteSet(R) /\ IsFiniteSet(t) /\ IsFiniteSet(u)
  BY <1>0, <1>1, FS_Subset
<1>3. /\ Cardinality(T) \in Nat /\ Cardinality(U) \in Nat /\ Cardinality(R) \in Nat
      /\ Cardinality(t) \in Nat /\ Cardinality(u) \in Nat
  BY <1>2, FS_CardinalityType
<1>4. /\ IsFiniteSet({p} \X t) /\ Cardinality({p} \X t) = Cardinality(t)
      /\ IsFiniteSet({p} \X u) /\ Cardinality({p} \X u) = Cardinality(u)
  <2>1. /\ IsFiniteSet({p} \X t) /\ Cardinality({p} \X t) = 1 * Cardinality(t)
        /\ IsFiniteSet({p} \X u) /\ Cardinality({p} \X u) = 1 * Cardinality(u)
    BY <1>1, <1>2, FS_Product
  <2>2. QED
    BY <1>3, <2>1
<1>5. T = R \cup ({p} \X t) /\ R \cap ({p} \X t) = {}
  BY <1>0
<1>6. U = R \cup ({p} \X u) /\ R \cap ({p} \X u) = {}
  <2>1. ASSUME NEW x \in U PROVE x \in R \cup ({p} \X u)
    <3>1. PICK q \in P, h \in H : x = <<q, h>>
      BY <1>0
    <3>2. CASE q = p
      BY <1>0, <3>1, <3>2
    <3>3. CASE q # p
      BY <1>0, <3>1, <3>3
    <3>4. QED
      BY <3>2, <3>3
  <2>2. ASSUME NEW x \in R \cup ({p} \X u) PROVE x \in U
    <3>1. CASE x \in R
      <4>1. PICK q \in P, h \in H : x = <<q, h>>
        BY <1>0, <3>1
      <4>2. QED
        BY <1>0, <3>1, <4>1
    <3>2. CASE x \in {p} \X u
      BY <1>0, <3>2
    <3>3. QED
      BY <3>1, <3>2
  <2>3. R \cap ({p} \X u) = {}
    BY <1>0
  <2>4. QED
    BY <2>1, <2>2, <2>3
<1>7. Cardinality(T) = Cardinality(R) + Cardinality(t)
  <2> HIDE DEF R
  <2>1. Cardinality(R \cup ({p} \X t)) = Cardinality(R) + Cardinality({p} \X t) - Cardinality({})
    BY <1>2, <1>4, <1>5, FS_Union
  <2>2. QED
    BY <1>3, <1>4, <1>5, <2>1, FS_EmptySet
<1>8. Cardinality(U) = Cardinality(R) + Cardinality(u)
  <2> HIDE DEF R
  <2>1. Cardinality(R \cup ({p} \X u)) = Cardinality(R) + Cardinality({p} \X u) - Cardinality({})
    BY <1>2, <1>4, <1>6, FS_Union
  <2>2. QED
    BY <1>3, <1>4, <1>6, <2>1, FS_EmptySet
<1> HIDE DEF R
<1>9. QED
  BY <1>3, <1>7, <1>8

-----------------------------------------------------------------------------
(* Who refers to a vnode *)

LEMMA Constants ==
  /\ VnodeMax \in Nat /\ MountMax \in Nat /\ FileMaxOpen \in Nat /\ FdMax \in Nat
  /\ ScratchMax \in Nat /\ SymloopMax \in Nat /\ VnodeMax > 1 /\ MountMax > 1
  /\ Vnode \subseteq Nat /\ Slot \subseteq Nat /\ Desc \subseteq Nat /\ Fd \subseteq Nat
  /\ NULL \notin Vnode /\ NULL \notin Slot /\ NULL \notin Desc /\ NULL \notin Nat
  /\ RootSlot \in Slot /\ RootVnode \in Vnode
  BY VfsAssumption, FilesAssumption DEF Vnode, Slot, Desc, Fd, RootSlot, RootVnode

LEMMA Finite ==
  /\ IsFiniteSet(Proc) /\ IsFiniteSet(Vnode) /\ IsFiniteSet(Slot) /\ IsFiniteSet(Desc)
  /\ IsFiniteSet(Fd) /\ IsFiniteSet(Hands)
<1>1. IsFiniteSet(Proc)
  BY VfsAssumption
<1>2. IsFiniteSet(Vnode) /\ IsFiniteSet(Slot) /\ IsFiniteSet(Desc)
  BY Constants, FS_Interval DEF Vnode, Slot, Desc
<1>3. IsFiniteSet(Fd)
  <2>1. FdMax - 1 \in Int /\ 0 \in Int
    BY Constants
  <2>2. QED
    BY <2>1, FS_Interval DEF Fd
<1>4. IsFiniteSet(Hands)
  <2>1. Hands = ((({} \cup {"cur"}) \cup {"pin"}) \cup {"child"}) \cup {"par"}
    BY DEF Hands
  <2>2. QED
    BY <2>1, FS_EmptySet, FS_AddElement
<1>5. QED
  BY <1>1, <1>2, <1>3, <1>4

\* A set of hands, counted one by one.
LEMMA HandsCount ==
  ASSUME NEW X \in SUBSET Hands
  PROVE  Cardinality(X) = One("cur" \in X) + One("pin" \in X)
                        + One("child" \in X) + One("par" \in X)
<1> DEFINE A == X \ {"cur"}
           B == A \ {"pin"}
           C == B \ {"child"}
<1>1. IsFiniteSet(X) /\ IsFiniteSet(A) /\ IsFiniteSet(B) /\ IsFiniteSet(C)
  BY Finite, FS_Subset
<1>2. /\ Cardinality(X) \in Nat /\ Cardinality(A) \in Nat
      /\ Cardinality(B) \in Nat /\ Cardinality(C) \in Nat
  BY <1>1, FS_CardinalityType
<1>3. Cardinality(A) = IF "cur" \in X THEN Cardinality(X) - 1 ELSE Cardinality(X)
  BY <1>1, FS_RemoveElement
<1>4. Cardinality(B) = IF "pin" \in X THEN Cardinality(A) - 1 ELSE Cardinality(A)
  <2>1. "pin" \in A <=> "pin" \in X
    OBVIOUS
  <2> HIDE DEF A
  <2>2. QED
    BY <1>1, <2>1, FS_RemoveElement
<1>5. Cardinality(C) = IF "child" \in X THEN Cardinality(B) - 1 ELSE Cardinality(B)
  <2>1. "child" \in B <=> "child" \in X
    OBVIOUS
  <2> HIDE DEF B
  <2>2. QED
    BY <1>1, <2>1, FS_RemoveElement
<1>6. Cardinality(C) = One("par" \in X)
  <2>1. C = IF "par" \in X THEN {"par"} ELSE {}
    BY DEF Hands
  <2> HIDE DEF C
  <2>2. QED
    BY <2>1, FS_EmptySet, FS_Singleton DEF One
<1> HIDE DEF A, B, C
<1>7. Cardinality(X) = Cardinality(A) + One("cur" \in X)
  BY <1>2, <1>3 DEF One
<1>8. Cardinality(A) = Cardinality(B) + One("pin" \in X)
  BY <1>2, <1>4 DEF One
<1>9. Cardinality(B) = Cardinality(C) + One("child" \in X)
  BY <1>2, <1>5 DEF One
<1>10. /\ One("cur" \in X) \in Nat /\ One("pin" \in X) \in Nat
       /\ One("child" \in X) \in Nat /\ One("par" \in X) \in Nat
  BY DEF One
<1>11. QED
  BY <1>2, <1>6, <1>7, <1>8, <1>9, <1>10

\* How often a process that is where r says refers to v, with some of its hands.
HeldIn(r, D, v) == One("cur" \in D /\ r.cur = v) + One("pin" \in D /\ r.pin = v)
                 + One("child" \in D /\ r.child = v) + One("par" \in D /\ r.par = v)
Held(r, v) == One(r.cur = v) + One(r.pin = v) + One(r.child = v) + One(r.par = v)

LEMMA HeldFact ==
  ASSUME NEW r, NEW D \in SUBSET Hands, NEW v
  PROVE  /\ Cardinality({h \in D : r[h] = v}) = HeldIn(r, D, v)
         /\ HeldIn(r, D, v) \in Nat /\ Held(r, v) \in Nat
         /\ HeldIn(r, D, v) <= Held(r, v) /\ HeldIn(r, Hands, v) = Held(r, v)
<1> DEFINE X == {h \in D : r[h] = v}
<1>1. X \in SUBSET Hands
  OBVIOUS
<1>2. /\ "cur" \in X <=> "cur" \in D /\ r.cur = v
      /\ "pin" \in X <=> "pin" \in D /\ r.pin = v
      /\ "child" \in X <=> "child" \in D /\ r.child = v
      /\ "par" \in X <=> "par" \in D /\ r.par = v
  OBVIOUS
<1> HIDE DEF X
<1>3. Cardinality(X) = HeldIn(r, D, v)
  BY <1>1, <1>2, HandsCount DEF HeldIn
<1>4. "cur" \in Hands /\ "pin" \in Hands /\ "child" \in Hands /\ "par" \in Hands
  BY DEF Hands
<1>5. QED
  BY <1>3, <1>4 DEF HeldIn, Held, One, X

HandCount(l, v) == Cardinality({x \in Proc \X Hands : l[x[1]][x[2]] = v})
InHands(v) == HandCount(loc, v)
Closing(v) == Cardinality({p \in Proc : io[p].vn = v})
InFiles(v) == Cardinality({d \in Desc : file[d].vnode = v})
AsRoot(v) == Cardinality({s \in Slot : mnt[s].root = v})

LEMMA RefsSum ==
  VnodeRefs <=> \A v \in Vnode :
    vnode[v].refcnt = InHands(v) + Closing(v) + InFiles(v) + AsRoot(v)
  BY DEF VnodeRefs, InHands, HandCount, Closing, InFiles, AsRoot

LEMMA HandsNat ==
  ASSUME NEW l, NEW v
  PROVE  /\ HandCount(l, v) \in Nat
         /\ \A p \in Proc : Held(l[p], v) \in Nat /\ Held(l[p], v) <= HandCount(l, v)
<1> DEFINE T == {x \in Proc \X Hands : l[x[1]][x[2]] = v}
<1>1. T \in SUBSET (Proc \X Hands)
  OBVIOUS
<1>2. HandCount(l, v) \in Nat
  BY <1>1, Finite, FS_Product, FS_Subset, FS_CardinalityType DEF HandCount
<1>3. ASSUME NEW p \in Proc
      PROVE  Held(l[p], v) \in Nat /\ Held(l[p], v) <= HandCount(l, v)
  <2> DEFINE t == {h \in Hands : <<p, h>> \in T}
  <2>1. t = {h \in Hands : l[p][h] = v}
    OBVIOUS
  <2>2. Cardinality(t) = Held(l[p], v) /\ Held(l[p], v) \in Nat
    BY <2>1, HeldFact, ZenonT(60)
  <2>3. t \in SUBSET Hands /\ \A h \in Hands : h \in t <=> <<p, h>> \in T
    OBVIOUS
  <2> HIDE DEF T, t
  <2>4. Rows(Proc, Hands, T, T, p, t, t)
    BY <1>1, <2>3, Finite DEF Rows
  <2>5. Cardinality(t) <= Cardinality(T)
    BY <2>4, CountRow
  <2>6. QED
    BY <2>2, <2>5 DEF HandCount, T
<1>4. QED
  BY <1>2, <1>3

LEMMA OthersNat ==
  ASSUME NEW v
  PROVE  Closing(v) \in Nat /\ InFiles(v) \in Nat /\ AsRoot(v) \in Nat
<1>1. Closing(v) \in Nat
  BY Finite, FS_Subset, FS_CardinalityType DEF Closing
<1>2. InFiles(v) \in Nat
  BY Finite, FS_Subset, FS_CardinalityType DEF InFiles
<1>3. AsRoot(v) \in Nat
  BY Finite, FS_Subset, FS_CardinalityType DEF AsRoot
<1>4. QED
  BY <1>1, <1>2, <1>3

\* A process puts down and picks up vnodes.
LEMMA HandsStep ==
  ASSUME NEW v, NEW p \in Proc, NEW r, loc \in [Proc -> Loc], loc' = [loc EXCEPT ![p] = r]
  PROVE  InHands(v)' \in Nat /\ InHands(v)' + Held(loc[p], v) = InHands(v) + Held(r, v)
<1> DEFINE T == {x \in Proc \X Hands : loc[x[1]][x[2]] = v}
           U == {x \in Proc \X Hands : loc'[x[1]][x[2]] = v}
           t == {h \in Hands : <<p, h>> \in T}
           u == {h \in Hands : <<p, h>> \in U}
<1>1. T \in SUBSET (Proc \X Hands) /\ U \in SUBSET (Proc \X Hands)
  OBVIOUS
<1>2. loc'[p] = r /\ \A q \in Proc \ {p} : loc'[q] = loc[q]
  OBVIOUS
<1>3. \A q \in Proc \ {p} : \A h \in Hands : <<q, h>> \in T <=> <<q, h>> \in U
  BY <1>2
<1>4. t = {h \in Hands : loc[p][h] = v} /\ u = {h \in Hands : r[h] = v}
  BY <1>2
<1>5. Cardinality(t) = Held(loc[p], v) /\ Cardinality(u) = Held(r, v)
  <2>1. Hands \in SUBSET Hands
    OBVIOUS
  <2>2. Cardinality({h \in Hands : loc[p][h] = v}) = Held(loc[p], v)
    BY <2>1, HeldFact
  <2>3. Cardinality({h \in Hands : r[h] = v}) = Held(r, v)
    BY <2>1, HeldFact
  <2>4. QED
    BY <1>4, <2>2, <2>3
<1>6. /\ t \in SUBSET Hands /\ u \in SUBSET Hands
      /\ \A h \in Hands : (h \in t <=> <<p, h>> \in T) /\ (h \in u <=> <<p, h>> \in U)
  OBVIOUS
<1> HIDE DEF T, U, t, u
<1>7. Rows(Proc, Hands, T, U, p, t, u)
  BY <1>1, <1>3, <1>6, Finite DEF Rows
<1>8. Cardinality(U) \in Nat /\ Cardinality(U) + Cardinality(t) = Cardinality(T) + Cardinality(u)
  BY <1>7, CountRow
<1>9. QED
  BY <1>5, <1>8 DEF InHands, HandCount, T, U

LEMMA ClosingStep ==
  ASSUME NEW v, NEW p \in Proc, NEW r, io \in [Proc -> IoType], io' = [io EXCEPT ![p] = r]
  PROVE  Closing(v)' \in Nat /\ Closing(v)' + Same(io[p].vn, v) = Closing(v) + Same(r.vn, v)
<1> DEFINE T == {q \in Proc : io[q].vn = v}
           U == {q \in Proc : io'[q].vn = v}
<1>1. T \in SUBSET Proc /\ U \in SUBSET Proc /\ \A q \in Proc \ {p} : q \in T <=> q \in U
  OBVIOUS
<1>2. (p \in T <=> io[p].vn = v) /\ (p \in U <=> r.vn = v)
  OBVIOUS
<1> HIDE DEF T, U
<1>3. Cardinality(U) \in Nat /\ Cardinality(U) + One(p \in T) = Cardinality(T) + One(p \in U)
  BY <1>1, Finite, CountOne
<1>4. QED
  BY <1>2, <1>3 DEF Closing, T, U, One, Same

LEMMA FilesStep ==
  ASSUME NEW v, NEW d \in Desc, NEW r, file \in [Desc -> FileType],
         file' = [file EXCEPT ![d] = r]
  PROVE  /\ InFiles(v)' \in Nat
         /\ InFiles(v)' + Same(file[d].vnode, v) = InFiles(v) + Same(r.vnode, v)
<1> DEFINE T == {c \in Desc : file[c].vnode = v}
           U == {c \in Desc : file'[c].vnode = v}
<1>1. T \in SUBSET Desc /\ U \in SUBSET Desc /\ \A q \in Desc \ {d} : q \in T <=> q \in U
  OBVIOUS
<1>2. (d \in T <=> file[d].vnode = v) /\ (d \in U <=> r.vnode = v)
  OBVIOUS
<1> HIDE DEF T, U
<1>3. Cardinality(U) \in Nat /\ Cardinality(U) + One(d \in T) = Cardinality(T) + One(d \in U)
  BY <1>1, Finite, CountOne
<1>4. QED
  BY <1>2, <1>3 DEF InFiles, T, U, One, Same

LEMMA RootsStep ==
  ASSUME NEW v, NEW s \in Slot, NEW r, mnt \in [Slot -> MountType],
         mnt' = [mnt EXCEPT ![s] = r]
  PROVE  AsRoot(v)' \in Nat /\ AsRoot(v)' + Same(mnt[s].root, v) = AsRoot(v) + Same(r.root, v)
<1> DEFINE T == {c \in Slot : mnt[c].root = v}
           U == {c \in Slot : mnt'[c].root = v}
<1>1. T \in SUBSET Slot /\ U \in SUBSET Slot /\ \A q \in Slot \ {s} : q \in T <=> q \in U
  OBVIOUS
<1>2. (s \in T <=> mnt[s].root = v) /\ (s \in U <=> r.root = v)
  OBVIOUS
<1> HIDE DEF T, U
<1>3. Cardinality(U) \in Nat /\ Cardinality(U) + One(s \in T) = Cardinality(T) + One(s \in U)
  BY <1>1, Finite, CountOne
<1>4. QED
  BY <1>2, <1>3 DEF AsRoot, T, U, One, Same

-----------------------------------------------------------------------------
(* The path buffers *)

LEMMA BufBound ==
  ASSUME NEW r \in Loc, Holding(r), Within(r)
  PROVE  r.buf \in 0..9
<1>1. r.buf = Bufs(r)
  BY DEF Holding
<1>2. CASE r.pc \in Walking
  <2>1. r.walk \in {1, 2}
    BY <1>2 DEF Within
  <2>2. CallBufs(r) \in 0..2
    BY <2>1 DEF CallBufs
  <2>3. r.pc \in {"names", "bufs", "link"} => r.got \in 0..3
    BY DEF Within, Loc
  <2>4. QED
    BY <1>1, <1>2, <2>2, <2>3 DEF Bufs, WalkBufs, LinkBufs, Walking
<1>3. CASE r.pc \notin Walking
  BY <1>1, <1>3 DEF Bufs, Walking
<1>4. QED
  BY <1>2, <1>3

BufSet(l) == UNION {{p} \X (1..l[p].buf) : p \in Proc}

LEMMA BufPairs ==
  ASSUME NEW l, \A p \in Proc : l[p].buf \in 0..9
  PROVE  /\ BufSet(l) \in SUBSET (Proc \X (1..9))
         /\ \A p \in Proc : \A k \in 1..9 : <<p, k>> \in BufSet(l) <=> k <= l[p].buf
<1>1. ASSUME NEW x \in BufSet(l) PROVE x \in Proc \X (1..9)
  <2>1. PICK p \in Proc : x \in {p} \X (1..l[p].buf)
    BY DEF BufSet
  <2>2. l[p].buf \in 0..9
    OBVIOUS
  <2>3. QED
    BY <2>1, <2>2
<1>2. ASSUME NEW p \in Proc, NEW k \in 1..9, <<p, k>> \in BufSet(l)
      PROVE  k <= l[p].buf
  <2>1. PICK q \in Proc : <<p, k>> \in {q} \X (1..l[q].buf)
    BY <1>2 DEF BufSet
  <2>2. q = p /\ k \in 1..l[q].buf /\ l[q].buf \in 0..9
    BY <2>1
  <2>3. QED
    BY <2>2
<1>3. ASSUME NEW p \in Proc, NEW k \in 1..9, k <= l[p].buf
      PROVE  <<p, k>> \in BufSet(l)
  <2>1. <<p, k>> \in {p} \X (1..l[p].buf)
    <3>1. l[p].buf \in 0..9
      OBVIOUS
    <3>2. k \in 1..l[p].buf
      BY <1>3, <3>1
    <3>3. QED
      BY <3>2
  <2>2. QED
    BY <2>1 DEF BufSet
<1>4. QED
  BY <1>1, <1>2, <1>3

LEMMA BufRow ==
  ASSUME NEW T \in SUBSET (Proc \X (1..9)), NEW U \in SUBSET (Proc \X (1..9)), NEW p \in Proc,
         \A q \in Proc \ {p} : \A k \in 1..9 : <<q, k>> \in T <=> <<q, k>> \in U
  PROVE  /\ Cardinality(T) \in Nat /\ Cardinality(U) \in Nat
         /\ Cardinality(U) + Cardinality({k \in 1..9 : <<p, k>> \in T})
              = Cardinality(T) + Cardinality({k \in 1..9 : <<p, k>> \in U})
<1> DEFINE H == 1..9
<1>1. IsFiniteSet(H)
  <2>1. 1 \in Int /\ 9 \in Int
    OBVIOUS
  <2>2. QED
    BY <2>1, FS_Interval
<1>2. /\ T \in SUBSET (Proc \X H) /\ U \in SUBSET (Proc \X H)
      /\ \A q \in Proc \ {p} : \A h \in H : <<q, h>> \in T <=> <<q, h>> \in U
  OBVIOUS
<1> HIDE DEF H
<1> DEFINE t == {h \in H : <<p, h>> \in T}
           u == {h \in H : <<p, h>> \in U}
<1>3. /\ t \in SUBSET H /\ u \in SUBSET H
      /\ \A h \in H : (h \in t <=> <<p, h>> \in T) /\ (h \in u <=> <<p, h>> \in U)
  OBVIOUS
<1> HIDE DEF t, u
<1>4. Rows(Proc, H, T, U, p, t, u)
  BY <1>1, <1>2, <1>3, Finite DEF Rows
<1>5. /\ Cardinality(T) \in Nat /\ Cardinality(U) \in Nat
      /\ Cardinality(U) + Cardinality(t) = Cardinality(T) + Cardinality(u)
  BY <1>4, CountRow
<1>6. QED
  BY <1>5 DEF H, t, u

\* A process takes and gives back buffers.
LEMMA BufsStep ==
  ASSUME loc \in [Proc -> Loc], \A q \in Proc : Holding(loc[q]) /\ Within(loc[q]),
         NEW p \in Proc, NEW r \in Loc, Holding(r), Within(r), loc' = [loc EXCEPT ![p] = r],
         BuffersReturned, scratch \in Nat, scratch' \in Nat,
         scratch' + r.buf = scratch + loc[p].buf
  PROVE  BuffersReturned'
<1> DEFINE T == BufSet(loc)
           U == BufSet(loc')
           t == {k \in 1..9 : <<p, k>> \in T}
           u == {k \in 1..9 : <<p, k>> \in U}
<1>1. r.buf \in 0..9 /\ \A q \in Proc : loc[q].buf \in 0..9
  BY BufBound
<1>2. loc'[p] = r /\ \A q \in Proc \ {p} : loc'[q] = loc[q]
  OBVIOUS
<1>3. \A q \in Proc : loc'[q].buf \in 0..9
  BY <1>1, <1>2
<1>4. /\ T \in SUBSET (Proc \X (1..9))
      /\ \A q \in Proc : \A k \in 1..9 : <<q, k>> \in T <=> k <= loc[q].buf
  BY <1>1, BufPairs
<1>5. /\ U \in SUBSET (Proc \X (1..9))
      /\ \A q \in Proc : \A k \in 1..9 : <<q, k>> \in U <=> k <= loc'[q].buf
  BY <1>3, BufPairs
<1> HIDE DEF T, U
<1>6. \A q \in Proc \ {p} : \A k \in 1..9 : <<q, k>> \in T <=> <<q, k>> \in U
  BY <1>2, <1>4, <1>5
<1>7. t = 1..loc[p].buf /\ u = 1..r.buf
  <2>1. t = {k \in 1..9 : k <= loc[p].buf} /\ u = {k \in 1..9 : k <= r.buf}
    BY <1>2, <1>4, <1>5
  <2>2. QED
    BY <1>1, <2>1
<1>8. Cardinality(t) = loc[p].buf /\ Cardinality(u) = r.buf
  <2>1. ASSUME NEW b \in 0..9 PROVE Cardinality(1..b) = b
    <3>1. 1 \in Int /\ b \in Int /\ b >= 0
      OBVIOUS
    <3>2. Cardinality(1..b) = IF 1 > b THEN 0 ELSE b - 1 + 1
      BY <3>1, FS_Interval
    <3>3. QED
      BY <3>1, <3>2
  <2>2. QED
    BY <1>1, <1>7, <2>1
<1>10. /\ Cardinality(T) \in Nat /\ Cardinality(U) \in Nat
       /\ Cardinality(U) + Cardinality(t) = Cardinality(T) + Cardinality(u)
  BY <1>4, <1>5, <1>6, BufRow, ZenonT(60)
<1>11. scratch + Cardinality(T) = ScratchMax
  BY DEF BuffersReturned, BufSet, T
<1>12. scratch' + Cardinality(U) = ScratchMax
  BY <1>1, <1>8, <1>10, <1>11, Constants
<1>13. QED
  BY <1>12 DEF BuffersReturned, BufSet, U

-----------------------------------------------------------------------------
(* A step of one process, as seen by the others *)

Like(v, w) == w.mount = v.mount /\ w.ino = v.ino /\ w.type = v.type

\* What a step that leaves the mounts alone does to a vnode: it is gone, it stays
\* and names what it named, or it is new.
Steady ==
  /\ vnode' \in [Vnode -> Fields]
  /\ \A v \in Vnode :
       \/ vnode'[v] = BlankVnode
       \/ /\ vnode'[v].refcnt > 0 /\ vnode[v].refcnt > 0 /\ Like(vnode[v], vnode'[v])
          /\ \/ vnode'[v].refcnt <= vnode[v].refcnt
             \/ mnt[vnode[v].mount].state = "ACTIVE"
       \/ /\ vnode'[v].refcnt > 0 /\ vnode[v].refcnt = 0
          /\ Fits(vnode'[v]) /\ mnt[vnode'[v].mount].state = "ACTIVE"

\* A vnode somebody refers to is in use.
LEMMA Referred ==
  ASSUME Typed, VnodeRefs, NEW v \in Vnode
  PROVE  /\ \A p \in Proc : Held(loc[p], v) \in Nat /\ Held(loc[p], v) <= vnode[v].refcnt
         /\ \A p \in Proc : v \in {loc[p].cur, loc[p].pin, loc[p].child, loc[p].par}
                            => vnode[v].refcnt > 0
         /\ \A p \in Proc : io[p].vn = v => vnode[v].refcnt > 0
         /\ \A d \in Desc : file[d].vnode = v => vnode[v].refcnt > 0
         /\ \A s \in Slot : mnt[s].root = v =>
              /\ vnode[v].refcnt > 0
              /\ \A p \in Proc : Held(loc[p], v) < vnode[v].refcnt
<1>1. vnode[v].refcnt = InHands(v) + Closing(v) + InFiles(v) + AsRoot(v)
  BY RefsSum
<1>2. /\ InHands(v) \in Nat /\ Closing(v) \in Nat /\ InFiles(v) \in Nat /\ AsRoot(v) \in Nat
      /\ \A p \in Proc : Held(loc[p], v) \in Nat /\ Held(loc[p], v) <= InHands(v)
  BY HandsNat, OthersNat DEF InHands
<1>3. ASSUME NEW p \in Proc, v \in {loc[p].cur, loc[p].pin, loc[p].child, loc[p].par}
      PROVE  Held(loc[p], v) > 0
  BY <1>3 DEF Held, One
<1>4. ASSUME NEW p \in Proc, io[p].vn = v PROVE Closing(v) > 0
  <2>1. {q \in Proc : io[q].vn = v} # {}
    BY <1>4
  <2>2. QED
    BY <1>2, <2>1, Finite, FS_Subset, FS_EmptySet DEF Closing
<1>5. ASSUME NEW d \in Desc, file[d].vnode = v PROVE InFiles(v) > 0
  <2>1. {c \in Desc : file[c].vnode = v} # {}
    BY <1>5
  <2>2. QED
    BY <1>2, <2>1, Finite, FS_Subset, FS_EmptySet DEF InFiles
<1>6. ASSUME NEW s \in Slot, mnt[s].root = v PROVE AsRoot(v) > 0
  <2>1. {c \in Slot : mnt[c].root = v} # {}
    BY <1>6
  <2>2. QED
    BY <1>2, <2>1, Finite, FS_Subset, FS_EmptySet DEF AsRoot
<1>7. \A p \in Proc : Held(loc[p], v) \in Nat /\ Held(loc[p], v) <= vnode[v].refcnt
  BY <1>1, <1>2
<1>8. \A p \in Proc : v \in {loc[p].cur, loc[p].pin, loc[p].child, loc[p].par}
                      => vnode[v].refcnt > 0
  <2>1. SUFFICES ASSUME NEW p \in Proc, v \in {loc[p].cur, loc[p].pin, loc[p].child, loc[p].par}
                 PROVE  vnode[v].refcnt > 0
    OBVIOUS
  <2>2. Held(loc[p], v) > 0 /\ Held(loc[p], v) \in Nat /\ Held(loc[p], v) <= InHands(v)
    BY <1>2, <1>3, <2>1
  <2>3. QED
    BY <1>1, <1>2, <2>2
<1>9. \A s \in Slot : mnt[s].root = v =>
              /\ vnode[v].refcnt > 0
              /\ \A p \in Proc : Held(loc[p], v) < vnode[v].refcnt
  BY <1>1, <1>2, <1>6
<1>10. \A p \in Proc : io[p].vn = v => vnode[v].refcnt > 0
  BY <1>1, <1>2, <1>4
<1>11. \A d \in Desc : file[d].vnode = v => vnode[v].refcnt > 0
  BY <1>1, <1>2, <1>5
<1>12. QED
  BY <1>7, <1>8, <1>9, <1>10, <1>11

Elsewhere == Handling \cup {"fill"}

\* A step that leaves the mounts alone: what it must do to the counts, and what
\* all others then find unchanged.
LEMMA VfsStep ==
  ASSUME IInv, NEW p \in Proc, NEW r \in Loc, loc' = [loc EXCEPT ![p] = r],
         UNCHANGED mnt, Steady,
         \A v \in Vnode : /\ Closing(v)' \in Nat /\ InFiles(v)' \in Nat
                          /\ vnode'[v].refcnt + Held(loc[p], v) + Closing(v) + InFiles(v)
                             = vnode[v].refcnt + Held(r, v) + Closing(v)' + InFiles(v)',
         Holding(r), Within(r), r.pc \notin Mounting,
         r.pc \in {"link", "readlink"} => vnode'[r.child].type = "SYMLINK",
         scratch' \in Nat, scratch' + r.buf = scratch + loc[p].buf
  PROVE  /\ loc' \in [Proc -> Loc]
         /\ VnodeRefs' /\ BuffersReturned' /\ VnodesFit' /\ MountsFit'
         /\ \A q \in Proc : Holding(loc'[q]) /\ Within(loc'[q])
         /\ \A q \in Proc : MakingMount(q)' /\ AtLink(q)'
<1>1. /\ Typed /\ VnodesFit /\ MountsFit /\ VnodeRefs /\ BuffersReturned
      /\ \A q \in Proc : Holding(loc[q]) /\ Within(loc[q])
      /\ \A q \in Proc : MakingMount(q) /\ AtLink(q)
  BY DEF IInv
<1>2. /\ loc \in [Proc -> Loc] /\ vnode \in [Vnode -> Fields] /\ mnt \in [Slot -> MountType]
      /\ scratch \in Nat /\ vnode' \in [Vnode -> Fields]
  BY <1>1 DEF Typed, Steady
<1>3. loc'[p] = r /\ \A q \in Proc \ {p} : loc'[q] = loc[q]
  BY <1>2
<1>4. loc' \in [Proc -> Loc]
  BY <1>2
<1>5. \A v \in Vnode : vnode'[v].refcnt = InHands(v)' + Closing(v)' + InFiles(v)' + AsRoot(v)'
  <2>1. SUFFICES ASSUME NEW v \in Vnode
                 PROVE  vnode'[v].refcnt = InHands(v)' + Closing(v)' + InFiles(v)' + AsRoot(v)'
    OBVIOUS
  <2>2. vnode[v].refcnt = InHands(v) + Closing(v) + InFiles(v) + AsRoot(v)
    BY <1>1, RefsSum
  <2>3. InHands(v)' \in Nat /\ InHands(v)' + Held(loc[p], v) = InHands(v) + Held(r, v)
    BY <1>2, HandsStep
  <2>4. AsRoot(v)' = AsRoot(v)
    BY DEF AsRoot
  <2>5. /\ InHands(v) \in Nat /\ Held(loc[p], v) \in Nat
        /\ Closing(v) \in Nat /\ InFiles(v) \in Nat /\ AsRoot(v) \in Nat
    BY HandsNat, OthersNat DEF InHands
  <2>6. Held(r, v) \in Nat
    BY DEF Held, One
  <2>7. vnode'[v].refcnt \in Nat /\ vnode[v].refcnt \in Nat
    BY <1>2 DEF Fields
  <2>8. QED
    BY <2>2, <2>3, <2>4, <2>5, <2>6, <2>7
<1>6. VnodeRefs'
  BY <1>5 DEF VnodeRefs, InHands, HandCount, Closing, InFiles, AsRoot
<1>7. BuffersReturned'
  BY <1>1, <1>2, BufsStep
<1>8. \A q \in Proc : Holding(loc'[q]) /\ Within(loc'[q])
  BY <1>1, <1>3
<1>9. VnodesFit'
  <2>1. SUFFICES ASSUME NEW v \in Vnode
                 PROVE  \/ vnode'[v] = BlankVnode
                        \/ vnode'[v].refcnt > 0 /\ Fits(vnode'[v]) /\ Mounted(v)'
    BY DEF VnodesFit
  <2>2. vnode[v] = BlankVnode \/ (vnode[v].refcnt > 0 /\ Fits(vnode[v]) /\ Mounted(v))
    BY <1>1 DEF VnodesFit
  <2>3. vnode[v] \in Fields /\ vnode'[v] \in Fields
    BY <1>2
  <2>4. CASE /\ vnode'[v].refcnt > 0 /\ vnode[v].refcnt > 0 /\ Like(vnode[v], vnode'[v])
             /\ \/ vnode'[v].refcnt <= vnode[v].refcnt
                \/ mnt[vnode[v].mount].state = "ACTIVE"
    <3>1. Fits(vnode[v]) /\ Mounted(v)
      BY <2>2, <2>4 DEF BlankVnode
    <3>2. Fits(vnode'[v])
      BY <2>4, <3>1 DEF Fits, Like
    <3>3. Mounted(v)'
      BY <2>3, <2>4, <3>1 DEF Mounted, Like, Fields
    <3>4. QED
      BY <2>4, <3>2, <3>3
  <2>5. CASE /\ vnode'[v].refcnt > 0 /\ vnode[v].refcnt = 0
             /\ Fits(vnode'[v]) /\ mnt[vnode'[v].mount].state = "ACTIVE"
    BY <2>5 DEF Mounted
  <2>6. QED
    BY <2>4, <2>5 DEF Steady
<1>10. ASSUME NEW v \in Vnode, vnode[v].refcnt > 0, vnode'[v].refcnt > 0
       PROVE  Like(vnode[v], vnode'[v])
  BY <1>2, <1>10 DEF Steady, BlankVnode, Fields
<1>11. MountsFit'
  <2>1. mnt'[RootSlot] = [state |-> "ACTIVE", path |-> << >>, root |-> RootVnode]
    BY <1>1 DEF MountsFit
  <2>2. ASSUME NEW s \in Slot, NEW v \in Vnode, mnt[s].root = v
        PROVE  vnode'[v].mount = s /\ vnode'[v].type = "DIR"
    <3>1. vnode[v].mount = s /\ vnode[v].type = "DIR"
      BY <1>1, <2>2, Constants DEF MountsFit
    <3>2. vnode[v].refcnt > 0
      BY <1>1, <2>2, Referred
    <3>3. AsRoot(v) > 0
      <4>1. {c \in Slot : mnt[c].root = v} # {}
        BY <2>2
      <4>2. AsRoot(v) \in Nat
        BY OthersNat
      <4>3. QED
        BY <4>1, <4>2, Finite, FS_Subset, FS_EmptySet, SMTT(40) DEF AsRoot
    <3>4. vnode'[v].refcnt > 0
      <4>1. AsRoot(v)' = AsRoot(v)
        BY DEF AsRoot
      <4>2. InHands(v)' \in Nat
        BY <1>2, HandsStep
      <4>3. vnode'[v].refcnt = InHands(v)' + Closing(v)' + InFiles(v)' + AsRoot(v)'
        BY <1>5
      <4>4. AsRoot(v) \in Nat
        BY OthersNat
      <4>5. QED
        BY <3>1, <3>3, <4>1, <4>2, <4>3, <4>4
    <3>5. QED
      BY <1>10, <3>1, <3>2, <3>4 DEF Like
  <2>3. \A s \in Slot : mnt[s].root \in Vnode \cup {NULL}
    BY <1>2 DEF MountType
  <2>4. QED
    BY <1>1, <2>1, <2>2, <2>3 DEF MountsFit
<1>12. \A q \in Proc : MakingMount(q)'
  BY <1>1, <1>3 DEF MakingMount
<1>13. ASSUME NEW q \in Proc PROVE AtLink(q)'
  <2>1. CASE q = p
    BY <1>3, <2>1 DEF AtLink
  <2>2. CASE q # p /\ loc[q].pc \in {"link", "readlink"}
    <3>1. Holding(loc[q]) /\ loc[q] \in Loc /\ loc'[q] = loc[q]
      BY <1>1, <1>2, <1>3, <2>2
    <3>2. PICK v \in Vnode : v = loc[q].child
      BY <2>2, <3>1 DEF Holding, HasChild, Loc
    <3>3. vnode[v].refcnt > 0 /\ vnode[v].type = "SYMLINK"
      BY <1>1, <2>2, <3>2, Referred DEF AtLink
    <3>4. vnode'[v].refcnt > 0
      <4>1. Held(loc'[q], v) > 0
        BY <3>1, <3>2 DEF Held, One
      <4>2. /\ InHands(v)' \in Nat /\ Held(loc'[q], v) <= InHands(v)'
            /\ Held(loc'[q], v) \in Nat
        BY HandsNat DEF InHands
      <4>3. vnode'[v].refcnt = InHands(v)' + Closing(v)' + InFiles(v)' + AsRoot(v)'
        BY <1>5
      <4>4. AsRoot(v)' = AsRoot(v) /\ AsRoot(v) \in Nat
        BY OthersNat DEF AsRoot
      <4>5. QED
        BY <4>1, <4>2, <4>3, <4>4
    <3>5. QED
      BY <1>10, <3>1, <3>2, <3>3, <3>4 DEF AtLink, Like
  <2>3. QED
    BY <1>3, <2>1, <2>2 DEF AtLink
<1>14. QED
  BY <1>4, <1>6, <1>7, <1>8, <1>9, <1>11, <1>12, <1>13

\* The descriptors are not concerned by a step of a process that works elsewhere.
LEMMA FdSame ==
  ASSUME IInv, NEW p \in Proc, NEW r \in Loc, loc' = [loc EXCEPT ![p] = r],
         UNCHANGED <<file, fdmap, io>>, loc[p].pc \notin Elsewhere, r.pc \notin Elsewhere
  PROVE  DescRefs' /\ FilesFit' /\ \A q \in Proc : Handles(q)'
<1>1. loc \in [Proc -> Loc] /\ DescRefs /\ FilesFit /\ \A q \in Proc : Handles(q)
  BY DEF IInv, Typed
<1>2. loc'[p] = r /\ \A q \in Proc \ {p} : loc'[q] = loc[q]
  BY <1>1
<1>3. /\ loc[p].pc \notin Busying /\ loc[p].pc # "close" /\ loc[p].pc # "dup2"
      /\ r.pc \notin Busying /\ r.pc # "close" /\ r.pc # "dup2"
  BY DEF Elsewhere, Handling, Busying
<1>4. \A q \in Proc, d \in Desc : Working(q, d)' <=> Working(q, d)
  BY <1>2, <1>3 DEF Working, Busying
<1>5. \A d \in Desc : {q \in Proc : Working(q, d)'} = {q \in Proc : Working(q, d)}
  BY <1>4
<1>6. DescRefs'
  BY <1>1, <1>5 DEF DescRefs
<1>7. FilesFit'
  BY <1>1 DEF FilesFit
<1>8. ASSUME NEW q \in Proc PROVE Handles(q)'
  <2>1. Handles(q)
    BY <1>1
  <2>2. CASE q = p
    BY <1>2, <1>3, <2>1, <2>2 DEF Handles, Doubling, Busying
  <2>3. CASE q # p
    BY <1>2, <2>1, <2>3 DEF Handles, Doubling
  <2>4. QED
    BY <2>2, <2>3
<1>9. QED
  BY <1>6, <1>7, <1>8

\* A step of a call by path.
LEMMA PathKept ==
  ASSUME IInv, NEW p \in Proc, NEW r \in Loc, loc' = [loc EXCEPT ![p] = r],
         UNCHANGED <<mnt, file, fdmap, io>>, Steady,
         \A v \in Vnode : vnode'[v].refcnt + Held(loc[p], v) = vnode[v].refcnt + Held(r, v),
         Holding(r), Within(r), loc[p].pc \notin Elsewhere, r.pc \notin Mounting \cup Elsewhere,
         r.pc \in {"link", "readlink"} => vnode'[r.child].type = "SYMLINK",
         scratch' \in Nat, scratch' + r.buf = scratch + loc[p].buf, TmpOK(tmp')
  PROVE  IInv'
<1>1. Typed
  BY DEF IInv
<1>2. ASSUME NEW v \in Vnode
      PROVE  /\ Closing(v)' \in Nat /\ InFiles(v)' \in Nat
             /\ vnode'[v].refcnt + Held(loc[p], v) + Closing(v) + InFiles(v)
                = vnode[v].refcnt + Held(r, v) + Closing(v)' + InFiles(v)'
  <2>1. Closing(v)' = Closing(v) /\ InFiles(v)' = InFiles(v)
    BY DEF Closing, InFiles
  <2>2. Closing(v) \in Nat /\ InFiles(v) \in Nat
    BY OthersNat
  <2>3. vnode'[v].refcnt + Held(loc[p], v) = vnode[v].refcnt + Held(r, v)
    OBVIOUS
  <2>4. QED
    BY <2>1, <2>2, <2>3
<1>3. /\ loc' \in [Proc -> Loc]
      /\ VnodeRefs' /\ BuffersReturned' /\ VnodesFit' /\ MountsFit'
      /\ \A q \in Proc : Holding(loc'[q]) /\ Within(loc'[q])
      /\ \A q \in Proc : MakingMount(q)' /\ AtLink(q)'
  BY <1>2, VfsStep
<1>4. DescRefs' /\ FilesFit' /\ \A q \in Proc : Handles(q)'
  BY FdSame
<1>5. Typed'
  BY <1>1, <1>3 DEF Typed, Steady
<1>6. QED
  BY <1>3, <1>4, <1>5 DEF IInv

\* vfs_vnode_release
LEMMA ReleasedFact ==
  ASSUME Typed, VnodeRefs, VnodesFit, NEW p \in Proc, NEW D \in SUBSET Hands, NEW v \in Vnode
  PROVE  /\ Released(vnode, p, D)[v] \in Fields
         /\ Released(vnode, p, D)[v].refcnt + HeldIn(loc[p], D, v) = vnode[v].refcnt
         /\ \/ Released(vnode, p, D)[v] = BlankVnode
            \/ /\ Released(vnode, p, D)[v].refcnt > 0
               /\ vnode[v].refcnt > 0 /\ Released(vnode, p, D)[v].refcnt <= vnode[v].refcnt
               /\ Like(vnode[v], Released(vnode, p, D)[v])
<1> DEFINE n == HeldIn(loc[p], D, v)
<1>1. /\ Cardinality({h \in D : loc[p][h] = v}) = n
      /\ n \in Nat /\ n <= Held(loc[p], v) /\ Held(loc[p], v) \in Nat
  BY HeldFact
<1>2. n <= vnode[v].refcnt
  BY <1>1, Referred DEF Typed, Fields
<1>3. Released(vnode, p, D)[v] = IF n = 0 THEN vnode[v]
                                 ELSE IF vnode[v].refcnt > n THEN [vnode[v] EXCEPT !.refcnt = @ - n]
                                 ELSE BlankVnode
  BY <1>1 DEF Released
<1>4. vnode[v] \in Fields
  BY DEF Typed
<1>5. BlankVnode \in Fields /\ BlankVnode.refcnt = 0
  <2>1. FileMax \in Nat
    BY TmpfsAssumption
  <2>2. QED
    BY <2>1 DEF BlankVnode, Fields, Kinds
<1>6. vnode[v] = BlankVnode \/ vnode[v].refcnt > 0
  BY DEF VnodesFit
<1> HIDE DEF n
<1>7. CASE n = 0
  BY <1>1, <1>3, <1>4, <1>6, <1>7 DEF Like, n, Fields
<1>8. CASE n > 0 /\ vnode[v].refcnt > n
  <2> DEFINE w == [vnode[v] EXCEPT !.refcnt = @ - n]
  <2>1. Released(vnode, p, D)[v] = w
    BY <1>1, <1>3, <1>8
  <2>2. w \in Fields /\ w.refcnt = vnode[v].refcnt - n /\ Like(vnode[v], w)
    BY <1>1, <1>4, <1>8 DEF Fields, Like
  <2>3. vnode[v].refcnt \in Nat
    BY <1>4 DEF Fields
  <2> HIDE DEF w
  <2>4. QED
    BY <1>1, <1>8, <2>1, <2>2, <2>3 DEF n
<1>9. CASE n > 0 /\ ~(vnode[v].refcnt > n)
  <2>1. Released(vnode, p, D)[v] = BlankVnode
    BY <1>1, <1>3, <1>9
  <2>2. vnode[v].refcnt = n
    BY <1>1, <1>2, <1>4, <1>9 DEF Fields
  <2>3. QED
    BY <1>1, <1>5, <2>1, <2>2 DEF n
<1>10. QED
  BY <1>1, <1>7, <1>8, <1>9

LEMMA ReleasedSteady ==
  ASSUME IInv, NEW p \in Proc, NEW D \in SUBSET Hands, vnode' = Released(vnode, p, D)
  PROVE  /\ Steady
         /\ \A v \in Vnode : vnode'[v].refcnt + HeldIn(loc[p], D, v) = vnode[v].refcnt
<1>1. Typed /\ VnodeRefs /\ VnodesFit
  BY DEF IInv
<1>2. \A v \in Vnode :
        /\ vnode'[v] \in Fields
        /\ vnode'[v].refcnt + HeldIn(loc[p], D, v) = vnode[v].refcnt
        /\ \/ vnode'[v] = BlankVnode
           \/ /\ vnode'[v].refcnt > 0 /\ vnode[v].refcnt > 0
              /\ vnode'[v].refcnt <= vnode[v].refcnt
              /\ Like(vnode[v], vnode'[v])
  BY <1>1, ReleasedFact
<1>3. vnode' \in [Vnode -> Fields]
  BY <1>2 DEF Released
<1>4. QED
  BY <1>2, <1>3 DEF Steady

\* A reference more to a vnode of an active mount.
LEMMA GrabSteady ==
  ASSUME IInv, NEW g \in Vnode, vnode[g].refcnt > 0, mnt[vnode[g].mount].state = "ACTIVE",
         vnode' = [vnode EXCEPT ![g].refcnt = @ + 1]
  PROVE  /\ Steady
         /\ \A v \in Vnode : vnode'[v].refcnt = vnode[v].refcnt + One(v = g)
<1>1. vnode \in [Vnode -> Fields] /\ VnodesFit
  BY DEF IInv, Typed
<1>2. /\ vnode'[g].refcnt = vnode[g].refcnt + 1 /\ Like(vnode[g], vnode'[g])
      /\ vnode'[g] \in Fields
  BY <1>1 DEF Fields, Like
<1>3. \A v \in Vnode \ {g} : vnode'[v] = vnode[v]
  BY <1>1
<1>4. \A v \in Vnode : vnode[v].refcnt \in Nat
  BY <1>1 DEF Fields
<1>5. vnode' \in [Vnode -> Fields]
  BY <1>1, <1>2, <1>3
<1>6. ASSUME NEW v \in Vnode \ {g}
      PROVE \/ vnode'[v] = BlankVnode
            \/ /\ vnode'[v].refcnt > 0 /\ vnode[v].refcnt > 0 /\ Like(vnode[v], vnode'[v])
               /\ vnode'[v].refcnt <= vnode[v].refcnt
  BY <1>1, <1>3, <1>4 DEF VnodesFit, Like
<1>7. Steady
  BY <1>2, <1>4, <1>5, <1>6 DEF Steady
<1>8. QED
  BY <1>2, <1>3, <1>4, <1>7 DEF One

\* vfs_vnode_alloc
LEMMA FreeVnodeFact ==
  ASSUME IInv, FreeVnodes # {}
  PROVE  /\ Min(FreeVnodes) \in Vnode /\ vnode[Min(FreeVnodes)].refcnt = 0
         /\ \A p \in Proc : Held(loc[p], Min(FreeVnodes)) = 0
<1>1. FreeVnodes \in SUBSET Nat
  BY Constants DEF FreeVnodes
<1>2. Min(FreeVnodes) \in FreeVnodes
  BY <1>1, MinFact
<1>3. Min(FreeVnodes) \in Vnode /\ vnode[Min(FreeVnodes)].refcnt = 0
  BY <1>2 DEF FreeVnodes
<1>4. QED
  BY <1>3, Referred DEF IInv

LEMMA NewSteady ==
  ASSUME IInv, FreeVnodes # {}, NEW m, NEW i, NEW kind, NEW size,
         [refcnt |-> 1, mount |-> m, ino |-> i, type |-> kind, size |-> size] \in Fields,
         Fits([refcnt |-> 1, mount |-> m, ino |-> i, type |-> kind, size |-> size]),
         mnt[m].state = "ACTIVE", vnode' = NewVnode(m, i, kind, size)
  PROVE  /\ Steady
         /\ \A v \in Vnode : vnode'[v].refcnt = vnode[v].refcnt + One(v = Min(FreeVnodes))
         /\ vnode'[Min(FreeVnodes)].type = kind
<1> DEFINE g == Min(FreeVnodes)
           w == [refcnt |-> 1, mount |-> m, ino |-> i, type |-> kind, size |-> size]
<1>1. vnode \in [Vnode -> Fields] /\ VnodesFit
  BY DEF IInv, Typed
<1>2. g \in Vnode /\ vnode[g].refcnt = 0
  BY FreeVnodeFact
<1>3. vnode' = [vnode EXCEPT ![g] = w]
  BY DEF NewVnode
<1>4. w.refcnt = 1 /\ w.mount = m /\ w.type = kind /\ w \in Fields /\ Fits(w)
  OBVIOUS
<1> HIDE DEF g, w
<1>5. vnode'[g] = w /\ \A v \in Vnode \ {g} : vnode'[v] = vnode[v]
  BY <1>1, <1>2, <1>3
<1>6. \A v \in Vnode : vnode[v].refcnt \in Nat
  BY <1>1 DEF Fields
<1>7. vnode' \in [Vnode -> Fields]
  BY <1>1, <1>3, <1>4
<1>8. ASSUME NEW v \in Vnode \ {g}
      PROVE \/ vnode'[v] = BlankVnode
            \/ /\ vnode'[v].refcnt > 0 /\ vnode[v].refcnt > 0 /\ Like(vnode[v], vnode'[v])
               /\ vnode'[v].refcnt <= vnode[v].refcnt
  BY <1>1, <1>5, <1>6 DEF VnodesFit, Like
<1>9. Steady
  BY <1>2, <1>4, <1>5, <1>7, <1>8 DEF Steady
<1>10. QED
  BY <1>2, <1>4, <1>5, <1>6, <1>9 DEF One, g

-----------------------------------------------------------------------------
(* Ends of calls, and the walk *)

\* A process that holds nothing.
LEMMA IdleFact ==
  /\ Idle \in Loc /\ Holding(Idle) /\ Within(Idle) /\ Idle.buf = 0 /\ Idle.pc = "idle"
  /\ \A v \in Vnode : Held(Idle, v) = 0
<1>1. Idle \in Loc
  <2>1. << >> \in Seq(Name)
    OBVIOUS
  <2>2. QED
    BY <2>1 DEF Idle, Loc, Points
<1>2. Holding(Idle) /\ Within(Idle)
  BY DEF Holding, Within, Idle, HasCur, HasChild, HasPar, Walking, Calling, Mounting, Bufs
<1>3. \A v \in Vnode : Held(Idle, v) = 0
  BY Constants DEF Held, Idle, One
<1>4. QED
  BY <1>1, <1>2, <1>3 DEF Idle

LEMMA ReturnKept ==
  ASSUME IInv, NEW p \in Proc, NEW D \in SUBSET Hands, NEW b, Return(p, D, b), b = loc[p].buf,
         \A h \in Hands \ D : loc[p][h] = NULL, loc[p].pc \notin Elsewhere,
         UNCHANGED <<mnt, file, fdmap, io>>, TmpOK(tmp')
  PROVE  IInv'
<1>1. vnode' = Released(vnode, p, D) /\ scratch' = scratch + b /\ loc' = [loc EXCEPT ![p] = Idle]
  BY DEF Return
<1>2. Steady /\ \A v \in Vnode : vnode'[v].refcnt + HeldIn(loc[p], D, v) = vnode[v].refcnt
  BY <1>1, ReleasedSteady
<1>3. loc[p] \in Loc /\ scratch \in Nat /\ b \in Nat
  BY DEF IInv, Typed, Loc
<1>4. ASSUME NEW v \in Vnode
      PROVE  vnode'[v].refcnt + Held(loc[p], v) = vnode[v].refcnt + Held(Idle, v)
  <2>1. HeldIn(loc[p], D, v) = Held(loc[p], v)
    BY Constants DEF HeldIn, Held, Hands
  <2>2. vnode[v].refcnt \in Nat
    BY DEF IInv, Typed, Fields
  <2>3. QED
    BY <1>2, <2>1, <2>2, IdleFact
<1>5. scratch' \in Nat /\ scratch' + Idle.buf = scratch + loc[p].buf
  BY <1>1, <1>3, IdleFact
<1>6. Idle.pc \notin Mounting \cup Elsewhere /\ Idle.pc \notin {"link", "readlink"}
  BY IdleFact DEF Mounting, Elsewhere, Handling
<1>7. QED
  BY <1>1, <1>2, <1>4, <1>5, <1>6, IdleFact, PathKept

LEMMA BufsOf ==
  ASSUME IInv, NEW p \in Proc, loc[p].pc \in Walking
  PROVE  /\ CallerBufs(p) = CallBufs(loc[p]) /\ CallBufs(loc[p]) \in 0..2
         /\ loc[p].call \in PathCalls /\ loc[p].walk \in {1, 2}
         /\ loc[p].pc \in {"norm", "got"} => loc[p].buf = CallBufs(loc[p])
         /\ loc[p].pc = "readlink" => loc[p].buf = CallBufs(loc[p]) + WalkBufs + LinkBufs
         /\ loc[p].pc \in Ready => loc[p].buf = CallBufs(loc[p]) + WalkBufs
         /\ loc[p].pc = "names" => loc[p].buf = loc[p].got /\ CallBufs(loc[p]) = 2
         /\ loc[p].pc = "bufs" => loc[p].buf = CallBufs(loc[p]) + 1 + loc[p].got
         /\ loc[p].pc = "link" => loc[p].buf = CallBufs(loc[p]) + WalkBufs + loc[p].got
         /\ CallerHands(p) = {"par"} \/ (CallerHands(p) = {} /\ loc[p].par = NULL)
<1>1. Holding(loc[p]) /\ Within(loc[p])
  BY DEF IInv
<1>2. CallerBufs(p) = CallBufs(loc[p])
  BY DEF CallerBufs, CallBufs, Op
<1>3. loc[p].call \in PathCalls /\ loc[p].walk \in {1, 2}
  BY <1>1 DEF Within
<1>4. CallBufs(loc[p]) \in 0..2
  BY <1>3 DEF CallBufs
<1>5. CallerHands(p) = {"par"} \/ (CallerHands(p) = {} /\ loc[p].par = NULL)
  BY <1>1 DEF CallerHands, Holding, HasPar, Op, Walking
<1>6. loc[p].buf = Bufs(loc[p])
  BY <1>1 DEF Holding
<1>7. loc[p].pc = "names" => CallBufs(loc[p]) = 2
  BY <1>1 DEF Within, CallBufs
<1>8. QED
  BY <1>2, <1>3, <1>4, <1>5, <1>6, <1>7 DEF Bufs, Ready

LEMMA WalkFailsKept ==
  ASSUME IInv, NEW p \in Proc, NEW D \in SUBSET {"cur", "pin", "child"}, NEW missing,
         WalkFails(p, D, missing), loc[p].pc \in Ready,
         \A h \in {"cur", "pin", "child"} \ D : loc[p][h] = NULL,
         UNCHANGED <<mnt, tmp, file, fdmap, io>>
  PROVE  IInv'
<1>1. loc[p].pc \notin Elsewhere /\ loc[p].pc \in Walking
  BY DEF Walking, Ready, Elsewhere, Handling
<1>2. TmpOK(tmp') /\ loc[p] \in Loc /\ scratch \in Nat /\ Holding(loc[p]) /\ Within(loc[p])
  BY DEF IInv, Typed
<1>3. /\ CallerBufs(p) = CallBufs(loc[p]) /\ CallBufs(loc[p]) \in 0..2
      /\ loc[p].call \in PathCalls /\ loc[p].walk \in {1, 2}
      /\ loc[p].buf = CallBufs(loc[p]) + WalkBufs
      /\ CallerHands(p) = {"par"} \/ (CallerHands(p) = {} /\ loc[p].par = NULL)
  BY <1>1, BufsOf
<1>4. CASE missing /\ Op(p) = "open" /\ loc[p].walk = 1 /\ "creat" \in loc[p].call.flags
  <2> DEFINE r == [Idle EXCEPT !.pc = "namebuf", !.call = loc[p].call, !.walk = 1]
  <2>1. /\ vnode' = Released(vnode, p, D) /\ scratch' = scratch + WalkBufs
        /\ loc' = [loc EXCEPT ![p] = r]
    BY <1>4 DEF WalkFails, Move
  <2>2. D \in SUBSET Hands
    BY DEF Hands
  <2>3. Steady /\ \A v \in Vnode : vnode'[v].refcnt + HeldIn(loc[p], D, v) = vnode[v].refcnt
    BY <2>1, <2>2, ReleasedSteady
  <2>4. loc[p].par = NULL
    BY <1>2, <1>3, <1>4 DEF CallerHands, Op
  <2>5. /\ r \in Loc /\ r.pc = "namebuf" /\ r.buf = 0 /\ r.call = loc[p].call
        /\ r.cur = NULL /\ r.pin = NULL /\ r.child = NULL /\ r.par = NULL
    <3>1. r \in Loc
      <4>1. "namebuf" \in Points
        BY DEF Points, Calling
      <4>2. loc[p].call \in PathCalls \cup {NULL} /\ 1 \in 0..2
        BY <1>3
      <4>3. Idle \in Loc
        BY IdleFact
      <4>4. QED
        BY <4>1, <4>2, <4>3 DEF Loc
    <3>2. QED
      BY <3>1 DEF Idle
  <2> HIDE DEF r
  <2>6. Holding(r) /\ Within(r)
    BY <1>3, <1>4, <2>5
       DEF Holding, Within, HasCur, HasChild, HasPar, Walking, Calling, Mounting, Bufs, Op
  <2>7. ASSUME NEW v \in Vnode
        PROVE  vnode'[v].refcnt + Held(loc[p], v) = vnode[v].refcnt + Held(r, v)
    <3>1. HeldIn(loc[p], D, v) = Held(loc[p], v)
      BY <2>4, Constants DEF HeldIn, Held
    <3>2. Held(r, v) = 0
      BY <2>5, Constants DEF Held, One
    <3>3. vnode[v].refcnt \in Nat
      BY DEF IInv, Typed, Fields
    <3>4. QED
      BY <2>3, <3>1, <3>2, <3>3
  <2>8. scratch' \in Nat /\ scratch' + r.buf = scratch + loc[p].buf
    BY <1>2, <1>3, <1>4, <2>1, <2>5 DEF WalkBufs, CallBufs, Op
  <2>9. r.pc \notin Mounting \cup Elsewhere /\ r.pc \notin {"link", "readlink"}
    BY <2>5 DEF Mounting, Elsewhere, Handling
  <2>10. QED
    BY <1>1, <1>2, <2>1, <2>3, <2>5, <2>6, <2>7, <2>8, <2>9, PathKept
<1>5. CASE ~(missing /\ Op(p) = "open" /\ loc[p].walk = 1 /\ "creat" \in loc[p].call.flags)
  <2> DEFINE E == D \cup CallerHands(p)
             b == WalkBufs + CallerBufs(p)
  <2>1. Return(p, E, b)
    BY <1>5 DEF WalkFails
  <2>2. E \in SUBSET Hands /\ \A h \in Hands \ E : loc[p][h] = NULL
    BY <1>3 DEF Hands
  <2>3. b = loc[p].buf
    BY <1>3 DEF WalkBufs
  <2> HIDE DEF E, b
  <2>4. QED
    BY <1>1, <1>2, <2>1, <2>2, <2>3, ReturnKept
<1>6. QED
  BY <1>4, <1>5

LEMMA AdvanceKept ==
  ASSUME IInv, NEW p \in Proc, NEW vs, NEW f \in Loc, Advance(p, vs, f),
         loc[p].pc \in Ready, Steady,
         \A v \in Vnode : vnode'[v].refcnt + Held(loc[p], v) = vnode[v].refcnt + Held(f, v),
         f.call = loc[p].call, f.walk = loc[p].walk, f.buf = loc[p].buf, f.par = loc[p].par,
         f.cur # NULL, f.pin = NULL, f.child = NULL,
         UNCHANGED <<mnt, tmp, file, fdmap, io>>
  PROVE  IInv'
<1>1. loc[p].pc \notin Elsewhere /\ loc[p].pc \in Walking /\ loc[p].pc # "created"
  BY DEF Walking, Ready, Elsewhere, Handling
<1>2. TmpOK(tmp') /\ loc[p] \in Loc /\ scratch \in Nat /\ Holding(loc[p]) /\ Within(loc[p])
  BY DEF IInv, Typed
<1>3. /\ CallBufs(loc[p]) \in 0..2 /\ loc[p].call \in PathCalls /\ loc[p].walk \in {1, 2}
      /\ loc[p].buf = CallBufs(loc[p]) + WalkBufs
  BY <1>1, BufsOf
<1> DEFINE g == [f EXCEPT !.pc = "got", !.buf = @ - WalkBufs]
           m == [f EXCEPT !.pc = "mount"]
<1>3a. f.buf - WalkBufs = CallBufs(loc[p]) /\ f.buf - WalkBufs \in Nat
  BY <1>3 DEF WalkBufs
<1>4. /\ g \in Loc /\ g.pc = "got" /\ g.buf = CallBufs(loc[p])
      /\ g.call = f.call /\ g.walk = f.walk /\ g.par = f.par
      /\ g.cur = f.cur /\ g.pin = f.pin /\ g.child = f.child
  BY <1>3a DEF Loc, Points, Walking
<1>5. /\ m \in Loc /\ m.pc = "mount" /\ m.buf = f.buf /\ m.todo = f.todo
      /\ m.call = f.call /\ m.walk = f.walk /\ m.par = f.par
      /\ m.cur = f.cur /\ m.pin = f.pin /\ m.child = f.child
  BY DEF Loc, Points, Walking
<1> HIDE DEF g, m
<1>6. \A v \in Vnode : Held(g, v) = Held(f, v) /\ Held(m, v) = Held(f, v)
  BY <1>4, <1>5 DEF Held
<1>7. Holding(g) /\ Within(g)
  <2>1. HasPar(g) <=> HasPar(loc[p])
    BY <1>1, <1>4 DEF HasPar, Walking
  <2>2. Bufs(g) = CallBufs(g) /\ CallBufs(g) = CallBufs(loc[p])
    BY <1>4 DEF Bufs, CallBufs
  <2>3. Holding(g)
    BY <1>2, <1>4, <2>1, <2>2 DEF Holding, HasCur, HasChild
  <2>4. Within(g)
    BY <1>1, <1>2, <1>4 DEF Within, Walking, Calling, Mounting
  <2>5. QED
    BY <2>3, <2>4
<1>8. CASE f.todo = << >>
  <2>1. scratch' = scratch + WalkBufs /\ loc' = [loc EXCEPT ![p] = g]
    BY <1>8 DEF Advance, Move, g
  <2>2. scratch' \in Nat /\ scratch' + g.buf = scratch + loc[p].buf
    BY <1>2, <1>3, <1>4, <2>1 DEF WalkBufs
  <2>3. g.pc \notin Mounting \cup Elsewhere /\ g.pc \notin {"link", "readlink"}
    BY <1>4 DEF Mounting, Elsewhere, Handling
  <2>4. QED
    BY <1>1, <1>2, <1>4, <1>6, <1>7, <2>1, <2>2, <2>3, PathKept, ZenonT(60)
<1>9. CASE f.todo # << >>
  <2>1. scratch' = scratch /\ loc' = [loc EXCEPT ![p] = m]
    BY <1>9 DEF Advance, Move, m
  <2>2. scratch' \in Nat /\ scratch' + m.buf = scratch + loc[p].buf
    BY <1>2, <1>3, <1>5, <2>1
  <2>3. m.pc \notin Mounting \cup Elsewhere /\ m.pc \notin {"link", "readlink"}
    BY <1>5 DEF Mounting, Elsewhere, Handling
  <2>4. HasPar(m) <=> HasPar(loc[p])
    BY <1>1, <1>5 DEF HasPar, Walking
  <2>5. Bufs(m) = CallBufs(m) + WalkBufs /\ CallBufs(m) = CallBufs(loc[p])
    BY <1>5 DEF Bufs, CallBufs, Walking
  <2>6. Holding(m)
    BY <1>2, <1>3, <1>5, <2>4, <2>5 DEF Holding, HasCur, HasChild
  <2>7. Within(m)
    BY <1>1, <1>2, <1>5, <1>9 DEF Within, Walking, Calling, Mounting
  <2>8. QED
    BY <1>1, <1>2, <1>5, <1>6, <2>1, <2>2, <2>3, <2>6, <2>7, PathKept, ZenonT(60)
<1>10. QED
  BY <1>8, <1>9

\* The number of places at which a process refers to a vnode follows its hands.
LEMMA QuietKept ==
  ASSUME IInv, NEW p \in Proc, NEW r \in Loc, loc' = [loc EXCEPT ![p] = r],
         UNCHANGED <<vnode, mnt, file, fdmap, io>>,
         \A v \in Vnode : Held(r, v) = Held(loc[p], v),
         Holding(r), Within(r), loc[p].pc \notin Elsewhere, r.pc \notin Mounting \cup Elsewhere,
         r.pc \in {"link", "readlink"} => vnode[r.child].type = "SYMLINK",
         scratch' \in Nat, scratch' + r.buf = scratch + loc[p].buf, TmpOK(tmp')
  PROVE  IInv'
<1>1. vnode \in [Vnode -> Fields] /\ VnodesFit
  BY DEF IInv, Typed
<1>2. ASSUME NEW v \in Vnode
      PROVE \/ vnode'[v] = BlankVnode
            \/ /\ vnode'[v].refcnt > 0 /\ vnode[v].refcnt > 0 /\ Like(vnode[v], vnode'[v])
               /\ vnode'[v].refcnt <= vnode[v].refcnt
  BY <1>1 DEF VnodesFit, Like, Fields
<1>3. Steady
  BY <1>1, <1>2 DEF Steady
<1>4. QED
  BY <1>3, PathKept

LEMMA ComponentsFact ==
  ASSUME NEW c \in PathCalls, NEW w \in {1, 2}, w = 2 => c.op \in {"rename", "link", "open"},
         w = 2 /\ c.op = "open" => "creat" \in c.flags
  PROVE  Components(c, w) \in Seq(Name)
<1>1. ASSUME NEW s \in Seq(Name), s # << >> PROVE Front(s) \in Seq(Name)
  BY <1>1, SubSeqProperties DEF Front
<1>2. /\ c.path \in Seq(Name) /\ c.to \in Seq(Name)
      /\ c.op \in {"mkdir", "unlink", "rename"} \/ "creat" \in c.flags => c.path # << >>
      /\ c.op \in {"rename", "link"} => c.to # << >>
  BY PathAssumption
<1>3. QED
  BY <1>1, <1>2 DEF Components

LEMMA RequestKept ==
  ASSUME IInv, NEW p \in Proc, NEW c \in PathCalls, Request(p, c), UNCHANGED <<file, fdmap, io>>
  PROVE  IInv'
<1> DEFINE own == IF c.op \in {"unlink", "mkdir"} THEN 1 ELSE 0
           at == IF c.op = "rename" THEN "names" ELSE "norm"
           r == [Idle EXCEPT !.pc = at, !.call = c, !.walk = 1,
                             !.todo = Components(c, 1), !.buf = own]
<1>1. /\ loc[p].pc = "idle" /\ scratch >= own /\ scratch' = scratch - own
      /\ loc' = [loc EXCEPT ![p] = r] /\ UNCHANGED <<vnode, mnt, tmp>>
  BY DEF Request, At, Move
<1>2. own \in 0..1 /\ at \in {"names", "norm"} /\ (at = "names" <=> c.op = "rename")
  OBVIOUS
<1>2a. at = "names" => own = 0
  OBVIOUS
<1>3. /\ r \in Loc /\ r.pc = at /\ r.call = c /\ r.walk = 1 /\ r.buf = own
      /\ r.tries = 0 /\ r.got = 0
      /\ r.cur = NULL /\ r.pin = NULL /\ r.child = NULL /\ r.par = NULL
  <2>1. at \in Points
    BY DEF Points, Walking
  <2>2. Components(c, 1) \in Seq(Name) /\ 1 \in 0..2 /\ own \in Nat
    BY <1>2, ComponentsFact
  <2>3. Idle \in Loc
    BY IdleFact
  <2> HIDE DEF own, at
  <2>4. r \in Loc
    BY <2>1, <2>2, <2>3 DEF Loc
  <2>5. QED
    BY <2>4 DEF Idle
<1>4. at = "norm" => CallBufs(r) = own
  <2> HIDE DEF r, at
  <2>1. QED
    BY <1>2, <1>3 DEF CallBufs
<1> HIDE DEF r, own, at
<1>5. Holding(r) /\ Within(r)
  <2>1. Holding(r)
    BY <1>2, <1>2a, <1>3, <1>4 DEF Holding, HasCur, HasChild, HasPar, Walking, Bufs
  <2>2. Within(r)
    BY <1>2, <1>3 DEF Within, Walking, Calling, Mounting
  <2>3. QED
    BY <2>1, <2>2
<1>6. /\ Holding(loc[p]) /\ loc[p].cur = NULL /\ loc[p].pin = NULL /\ loc[p].child = NULL
      /\ loc[p].par = NULL /\ loc[p].buf = 0 /\ scratch \in Nat /\ TmpOK(tmp)
  BY <1>1 DEF IInv, Typed, Holding, HasCur, HasChild, HasPar, Walking, Bufs
<1>7. \A v \in Vnode : Held(r, v) = Held(loc[p], v)
  BY <1>3, <1>6 DEF Held
<1>8. scratch' \in Nat /\ scratch' + r.buf = scratch + loc[p].buf
  BY <1>1, <1>2, <1>3, <1>6
<1>9. /\ loc[p].pc \notin Elsewhere /\ r.pc \notin Mounting \cup Elsewhere
      /\ r.pc \notin {"link", "readlink"}
  BY <1>1, <1>2, <1>3 DEF Elsewhere, Handling, Mounting
<1>10. QED
  BY <1>1, <1>3, <1>5, <1>6, <1>7, <1>8, <1>9, QuietKept

\* A process that goes on with its call, with the vnodes it has.
SameHands(r, l) == /\ r.call = l.call /\ r.walk = l.walk /\ r.cur = l.cur /\ r.pin = l.pin
                   /\ r.child = l.child /\ r.par = l.par

LEMMA GoesOnKept ==
  ASSUME IInv, NEW p \in Proc, NEW r \in Loc, loc' = [loc EXCEPT ![p] = r],
         loc[p].pc \in {"names", "norm", "bufs", "link"},
         r.pc \in {"names", "norm", "bufs", "root", "link", "readlink"},
         loc[p].pc = "link" <=> r.pc \in {"link", "readlink"},
         r.pc = "names" => loc[p].pc = "names",
         SameHands(r, loc[p]), r.buf = Bufs(r),
         r.pc \in {"names", "bufs", "link"} => r.got <= r.tries /\ r.tries <= 3,
         UNCHANGED <<vnode, mnt, tmp, file, fdmap, io>>,
         scratch' \in Nat, scratch' + r.buf = scratch + loc[p].buf
  PROVE  IInv'
<1>1. /\ loc[p] \in Loc /\ Holding(loc[p]) /\ Within(loc[p]) /\ TmpOK(tmp') /\ AtLink(p)
  BY DEF IInv, Typed
<1>2. Holding(r)
  <2>1. HasPar(r) <=> HasPar(loc[p])
    BY DEF HasPar, Walking, SameHands
  <2>2. QED
    BY <1>1, <2>1 DEF Holding, HasCur, HasChild, SameHands
<1>3. Within(r)
  BY <1>1 DEF Within, Walking, Calling, Mounting, SameHands
<1>4. \A v \in Vnode : Held(r, v) = Held(loc[p], v)
  BY DEF Held, SameHands
<1>5. loc[p].pc \notin Elsewhere /\ r.pc \notin Mounting \cup Elsewhere
  BY DEF Elsewhere, Handling, Mounting
<1>6. r.pc \in {"link", "readlink"} => vnode[r.child].type = "SYMLINK"
  BY <1>1 DEF AtLink, SameHands
<1>7. QED
  BY <1>1, <1>2, <1>3, <1>4, <1>5, <1>6, QuietKept

LEMMA TakeBufKept ==
  ASSUME IInv, NEW p \in Proc, TakeBuf(p), loc[p].pc \in Taking, loc[p].tries < 3,
         UNCHANGED <<mnt, tmp, file, fdmap, io>>
  PROVE  IInv'
<1> DEFINE n == IF scratch > 0 THEN 1 ELSE 0
           r == [loc[p] EXCEPT !.tries = @ + 1, !.got = @ + n, !.buf = @ + n]
<1>1. scratch' = scratch - n /\ loc' = [loc EXCEPT ![p] = r] /\ UNCHANGED vnode
  BY DEF TakeBuf, Move
<1>2. loc[p] \in Loc /\ Holding(loc[p]) /\ Within(loc[p]) /\ scratch \in Nat
  BY DEF IInv, Typed
<1>3. n \in 0..1 /\ scratch - n \in Nat
  BY <1>2
<1> HIDE DEF n
<1>4. r \in Loc
  <2>1. loc[p].tries + 1 \in Nat /\ loc[p].got + n \in Nat /\ loc[p].buf + n \in Nat
    BY <1>2, <1>3 DEF Loc
  <2>2. QED
    BY <1>2, <2>1 DEF Loc
<1>5. /\ r.pc = loc[p].pc /\ r.tries = loc[p].tries + 1 /\ r.got = loc[p].got + n
      /\ r.buf = loc[p].buf + n /\ SameHands(r, loc[p])
  BY <1>2 DEF Loc, SameHands
<1> HIDE DEF r
<1>6. r.buf = Bufs(r)
  <2>1. loc[p].buf = Bufs(loc[p])
    BY <1>2 DEF Holding
  <2>2. CallBufs(r) = CallBufs(loc[p]) /\ CallBufs(loc[p]) \in 0..2
    BY <1>5, BufsOf DEF CallBufs, SameHands, Taking, Walking
  <2>3. loc[p].got \in Nat
    BY <1>2 DEF Loc
  <2>4. QED
    BY <1>3, <1>5, <2>1, <2>2, <2>3 DEF Bufs, Taking, WalkBufs
<1>7. r.got <= r.tries /\ r.tries <= 3
  <2>1. loc[p].got <= loc[p].tries /\ loc[p].got \in Nat /\ loc[p].tries \in Nat
    BY <1>2 DEF Within, Taking, Loc
  <2>2. QED
    BY <1>3, <1>5, <2>1
<1>8. scratch' \in Nat /\ scratch' + r.buf = scratch + loc[p].buf
  <2>1. loc[p].buf \in Nat
    BY <1>2 DEF Loc
  <2>2. QED
    BY <1>1, <1>2, <1>3, <1>5, <2>1
<1>9. QED
  BY <1>1, <1>4, <1>5, <1>6, <1>7, <1>8, GoesOnKept DEF Taking

LEMMA HasBufsKept ==
  ASSUME IInv, NEW p \in Proc, NEW at, HasBufs(p, at),
         \/ loc[p].pc = "names" /\ at = "norm" /\ loc[p].got = NameBufs
         \/ loc[p].pc = "bufs" /\ at = "root" /\ loc[p].got = WalkBufs - 1
         \/ loc[p].pc = "link" /\ at = "readlink" /\ loc[p].got = LinkBufs,
         UNCHANGED <<mnt, tmp, file, fdmap, io>>
  PROVE  IInv'
<1> DEFINE r == [loc[p] EXCEPT !.pc = at]
<1>1. loc' = [loc EXCEPT ![p] = r] /\ UNCHANGED <<vnode, scratch>>
  BY DEF HasBufs, Move
<1>2. loc[p] \in Loc /\ scratch \in Nat /\ loc[p].buf \in Nat
  BY DEF IInv, Typed, Loc
<1>3. r \in Loc
  <2>1. at \in Points
    BY DEF Points, Walking
  <2>2. QED
    BY <1>2, <2>1 DEF Loc
<1>4. r.pc = at /\ r.buf = loc[p].buf /\ SameHands(r, loc[p])
  BY <1>2 DEF Loc, SameHands
<1> HIDE DEF r
<1>5. CallBufs(r) = CallBufs(loc[p])
  BY <1>4 DEF CallBufs, SameHands
<1>6. r.buf = Bufs(r)
  <2>1. loc[p].pc \in Walking
    BY DEF Walking
  <2>2. /\ CallBufs(loc[p]) \in 0..2
        /\ loc[p].pc = "names" => loc[p].buf = loc[p].got /\ CallBufs(loc[p]) = 2
        /\ loc[p].pc = "bufs" => loc[p].buf = CallBufs(loc[p]) + 1 + loc[p].got
        /\ loc[p].pc = "link" => loc[p].buf = CallBufs(loc[p]) + WalkBufs + loc[p].got
    BY <2>1, BufsOf
  <2>3. QED
    BY <1>4, <1>5, <2>2 DEF Bufs, NameBufs, WalkBufs, LinkBufs
<1>7. scratch' \in Nat /\ scratch' + r.buf = scratch + loc[p].buf
  BY <1>1, <1>2, <1>4
<1>8. QED
  BY <1>1, <1>3, <1>4, <1>6, <1>7, GoesOnKept

\* The call ends before its walk has begun, or at a link.
LEMMA GivesUpKept ==
  ASSUME IInv, NEW p \in Proc, NEW D \in SUBSET Hands, NEW b, Return(p, D, b), b = loc[p].buf,
         loc[p].pc \in {"names", "norm", "bufs", "link", "readlink"},
         loc[p].pc \in {"link", "readlink"} => "child" \in D,
         CallerHands(p) \subseteq D,
         UNCHANGED <<mnt, tmp, file, fdmap, io>>
  PROVE  IInv'
<1>1. TmpOK(tmp') /\ Holding(loc[p])
  BY DEF IInv
<1>2. loc[p].pc \in Walking /\ loc[p].pc \notin Elsewhere
  BY DEF Walking, Elsewhere, Handling
<1>3. CallerHands(p) = {"par"} \/ loc[p].par = NULL
  BY <1>2, BufsOf
<1>4. \A h \in Hands \ D : loc[p][h] = NULL
  BY <1>1, <1>3 DEF Holding, HasCur, HasChild, Hands
<1>5. QED
  BY <1>1, <1>2, <1>4, ReturnKept

LEMMA NamesKept ==
  ASSUME IInv, NEW p \in Proc, Names(p), UNCHANGED <<file, fdmap, io>>
  PROVE  IInv'
<1>1. loc[p].pc = "names" /\ UNCHANGED <<mnt, tmp>>
  BY DEF Names, At
<1>2. loc[p].pc \in Walking /\ loc[p].pc \in Taking
  BY <1>1 DEF Walking, Taking
<1>3. loc[p].buf = loc[p].got /\ CallerHands(p) = {}
  <2>1. loc[p].buf = loc[p].got
    BY <1>1, <1>2, BufsOf
  <2>2. loc[p].walk = 1
    BY <1>1 DEF IInv, Within
  <2>3. QED
    BY <2>1, <2>2 DEF CallerHands
<1>4. CASE loc[p].tries < NameBufs /\ TakeBuf(p)
  <2>1. loc[p].tries \in Nat
    BY DEF IInv, Typed, Loc
  <2>2. loc[p].tries < 3
    BY <1>4, <2>1 DEF NameBufs
  <2>3. QED
    BY <1>1, <1>2, <1>4, <2>2, TakeBufKept
<1>5. CASE loc[p].got = NameBufs /\ HasBufs(p, "norm")
  BY <1>1, <1>5, HasBufsKept
<1>6. CASE Return(p, {}, loc[p].got)
  BY <1>1, <1>3, <1>6, GivesUpKept
<1>7. QED
  BY <1>4, <1>5, <1>6 DEF Names

LEMMA NormalizeKept ==
  ASSUME IInv, NEW p \in Proc, Normalize(p), UNCHANGED <<file, fdmap, io>>
  PROVE  IInv'
<1>1. loc[p].pc = "norm" /\ UNCHANGED <<mnt, tmp>>
  BY DEF Normalize, At
<1>2. loc[p].pc \in Walking
  BY <1>1 DEF Walking
<1>3. loc[p] \in Loc /\ scratch \in Nat
  BY <1>1 DEF IInv, Typed
<1>4. /\ CallerBufs(p) = CallBufs(loc[p]) /\ CallBufs(loc[p]) \in 0..2
      /\ loc[p].buf = CallBufs(loc[p]) /\ CallerHands(p) \in SUBSET Hands
  <2>1. CallerHands(p) \in SUBSET Hands
    BY DEF CallerHands, Hands
  <2>2. QED
    BY <1>1, <1>2, <2>1, BufsOf
<1>6. CASE scratch # 0
  <2> DEFINE r == [loc[p] EXCEPT !.pc = "bufs", !.tries = 0, !.got = 0, !.buf = @ + 1]
  <2>1. scratch' = scratch - 1 /\ loc' = [loc EXCEPT ![p] = r] /\ UNCHANGED vnode
    BY <1>6 DEF Normalize, Move
  <2>2. r \in Loc
    <3>1. "bufs" \in Points /\ loc[p].buf + 1 \in Nat /\ 0 \in Nat
      BY <1>4 DEF Points, Walking
    <3>2. QED
      BY <1>3, <3>1 DEF Loc
  <2>3. /\ r.pc = "bufs" /\ r.tries = 0 /\ r.got = 0 /\ r.buf = loc[p].buf + 1
        /\ SameHands(r, loc[p])
    BY <1>3 DEF Loc, SameHands
  <2> HIDE DEF r
  <2>4. r.buf = Bufs(r)
    <3>1. CallBufs(r) = CallBufs(loc[p])
      BY <2>3 DEF CallBufs, SameHands
    <3>2. QED
      BY <1>4, <2>3, <3>1 DEF Bufs
  <2>5. scratch' \in Nat /\ scratch' + r.buf = scratch + loc[p].buf
    BY <1>3, <1>4, <1>6, <2>1, <2>3
  <2>6. r.got <= r.tries /\ r.tries <= 3
    BY <2>3
  <2>7. UNCHANGED <<vnode, mnt, tmp, file, fdmap, io>>
    BY <1>1, <2>1
  <2>8. /\ loc[p].pc \in {"names", "norm", "bufs", "link"}
        /\ r.pc \in {"names", "norm", "bufs", "root", "link", "readlink"}
        /\ loc[p].pc = "link" <=> r.pc \in {"link", "readlink"}
        /\ r.pc = "names" => loc[p].pc = "names"
    BY <1>1, <2>3
  <2>9. loc' = [loc EXCEPT ![p] = r] /\ SameHands(r, loc[p])
    BY <2>1, <2>3
  <2>10. QED
    BY <2>2, <2>4, <2>5, <2>6, <2>7, <2>8, <2>9, GoesOnKept
<1>7. CASE scratch = 0
  <2>1. Return(p, CallerHands(p), CallerBufs(p))
    BY <1>7 DEF Normalize
  <2>2. QED
    BY <1>1, <1>4, <2>1, GivesUpKept
<1>8. QED
  BY <1>6, <1>7

LEMMA WalkBuffersKept ==
  ASSUME IInv, NEW p \in Proc, WalkBuffers(p), UNCHANGED <<file, fdmap, io>>
  PROVE  IInv'
<1>1. loc[p].pc = "bufs" /\ UNCHANGED <<mnt, tmp>>
  BY DEF WalkBuffers, At
<1>2. loc[p].pc \in Walking /\ loc[p].pc \in Taking
  BY <1>1 DEF Walking, Taking
<1>3. /\ loc[p].got \in Nat /\ loc[p].tries \in Nat /\ loc[p].got <= loc[p].tries
  BY <1>1 DEF IInv, Typed, Loc, Within
<1>4. /\ CallerBufs(p) = CallBufs(loc[p]) /\ CallBufs(loc[p]) \in 0..2
      /\ loc[p].buf = CallBufs(loc[p]) + 1 + loc[p].got /\ CallerHands(p) \in SUBSET Hands
  <2>1. CallerHands(p) \in SUBSET Hands
    BY DEF CallerHands, Hands
  <2>2. QED
    BY <1>1, <1>2, <2>1, BufsOf
<1>5. CASE loc[p].tries = 0 /\ Return(p, CallerHands(p), 1 + CallerBufs(p))
  <2>1. 1 + CallerBufs(p) = loc[p].buf
    BY <1>3, <1>4, <1>5
  <2>2. QED
    BY <1>1, <1>4, <1>5, <2>1, GivesUpKept
<1>6. CASE loc[p].tries < WalkBufs - 1 /\ TakeBuf(p)
  BY <1>1, <1>2, <1>3, <1>6, TakeBufKept DEF WalkBufs
<1>7. CASE loc[p].got = WalkBufs - 1 /\ HasBufs(p, "root")
  BY <1>1, <1>7, HasBufsKept
<1>8. CASE Return(p, CallerHands(p), 1 + loc[p].got + CallerBufs(p))
  <2>1. 1 + loc[p].got + CallerBufs(p) = loc[p].buf
    BY <1>3, <1>4
  <2>2. QED
    BY <1>1, <1>4, <1>8, <2>1, GivesUpKept
<1>9. QED
  BY <1>5, <1>6, <1>7, <1>8 DEF WalkBuffers

\* A vnode in the hands of a process: it is in use, names something, and its
\* mount is active.
LEMMA HandActive ==
  ASSUME IInv, NEW p \in Proc, NEW v \in Vnode,
         v \in {loc[p].cur, loc[p].pin, loc[p].child, loc[p].par}
  PROVE  /\ vnode[v].refcnt > 0 /\ Fits(vnode[v]) /\ vnode[v].mount \in Slot
         /\ mnt[vnode[v].mount].state = "ACTIVE" /\ vnode[v] \in Fields
<1>1. Typed /\ VnodeRefs /\ VnodesFit /\ MountsFit
  BY DEF IInv
<1>2. vnode[v].refcnt > 0
  BY <1>1, Referred
<1>3. Fits(vnode[v]) /\ Mounted(v) /\ vnode[v] \in Fields
  BY <1>1, <1>2 DEF VnodesFit, BlankVnode, Typed
<1>4. vnode[v].mount \in Slot
  BY <1>3, Constants DEF Fits
<1>5. Held(loc[p], v) > 0
  BY DEF Held, One
<1>6. mnt[vnode[v].mount].root # v \/ vnode[v].refcnt # 1
  <2>1. SUFFICES ASSUME mnt[vnode[v].mount].root = v, vnode[v].refcnt = 1 PROVE FALSE
    OBVIOUS
  <2>2. Held(loc[p], v) \in Nat /\ Held(loc[p], v) < vnode[v].refcnt
    BY <1>1, <1>4, <2>1, Referred
  <2>3. QED
    BY <1>5, <2>1, <2>2
<1>7. QED
  BY <1>2, <1>3, <1>4, <1>6 DEF Mounted

\* vfs_mount_find always finds something: the root is mounted, and there is a
\* longest of the paths that fit.
LEMMA MountFindFact ==
  ASSUME IInv, NEW path \in Seq(Name)
  PROVE  MountFind(path) \in Slot /\ mnt[MountFind(path)].state = "ACTIVE"
<1> DEFINE U == {s \in Slot : Under(path, s)}
           Longer(s) == {r \in U : Len(mnt[r].path) > Len(mnt[s].path)}
           N == {Cardinality(Longer(s)) : s \in U}
<1>1. mnt \in [Slot -> MountType] /\ MountsFit
  BY DEF IInv, Typed
<1>2. \A s \in Slot : Len(mnt[s].path) \in Nat
  BY <1>1 DEF MountType
<1>3. RootSlot \in U
  <2>1. mnt[RootSlot].state = "ACTIVE" /\ mnt[RootSlot].path = << >>
    BY <1>1 DEF MountsFit
  <2>2. IsPrefix(<< >>, path)
    <3>1. Len(<< >>) <= Len(path) /\ SubSeq(<< >>, 1, Len(<< >>)) = << >>
      OBVIOUS
    <3>2. SubSeq(path, 1, Len(<< >>)) = << >>
      BY SubSeqProperties
    <3>3. QED
      BY <3>1, <3>2 DEF IsPrefix
  <2>3. QED
    BY <2>1, <2>2, Constants DEF Under
<1>4. \A s \in U : IsFiniteSet(Longer(s)) /\ Cardinality(Longer(s)) \in Nat
  <2>1. SUFFICES ASSUME NEW s \in U PROVE IsFiniteSet(Longer(s))
    BY FS_CardinalityType
  <2>2. Longer(s) \in SUBSET Slot
    OBVIOUS
  <2>3. QED
    BY <2>2, Finite, FS_Subset
<1>5. N \in SUBSET Nat /\ N # {}
  BY <1>3, <1>4
<1>6. PICK s \in U : \A r \in U : Cardinality(Longer(s)) <= Cardinality(Longer(r))
  <2>1. Min(N) \in N /\ \A y \in N : Min(N) <= y
    BY <1>5, MinFact
  <2>2. PICK s \in U : Min(N) = Cardinality(Longer(s))
    BY <2>1
  <2>3. \A r \in U : Cardinality(Longer(r)) \in N
    OBVIOUS
  <2>4. QED
    BY <2>1, <2>2, <2>3
<1>7. ASSUME NEW r \in U PROVE Len(mnt[r].path) <= Len(mnt[s].path)
  <2>1. SUFFICES ASSUME Len(mnt[r].path) > Len(mnt[s].path) PROVE FALSE
    BY <1>2
  <2>2. Longer(r) \in SUBSET Longer(s) /\ r \in Longer(s) /\ r \notin Longer(r)
    <3>1. \A q \in U : Len(mnt[q].path) \in Nat
      BY <1>2
    <3>2. ASSUME NEW q \in Longer(r) PROVE q \in Longer(s)
      BY <2>1, <3>1, SMTT(40)
    <3>3. r \in Longer(s)
      BY <2>1
    <3>4. r \notin Longer(r)
      BY <3>1
    <3>5. QED
      BY <3>2, <3>3, <3>4
  <2>3. IsFiniteSet(Longer(s)) /\ Cardinality(Longer(s)) \in Nat /\ Cardinality(Longer(r)) \in Nat
    BY <1>4
  <2>4. Cardinality(Longer(s)) <= Cardinality(Longer(r))
    BY <1>6
  <2> HIDE DEF Longer
  <2>5. /\ Cardinality(Longer(r)) <= Cardinality(Longer(s))
        /\ Cardinality(Longer(s)) = Cardinality(Longer(r)) => Longer(s) = Longer(r)
    BY <2>2, <2>3, FS_Subset
  <2>6. QED
    BY <2>2, <2>3, <2>4, <2>5
<1>8. \E t \in Slot : Under(path, t) /\ \A r \in Slot : Under(path, r) =>
                                            Len(mnt[r].path) <= Len(mnt[t].path)
  BY <1>7
<1>9. MountFind(path) \in Slot /\ Under(path, MountFind(path))
  BY <1>8 DEF MountFind
<1>10. QED
  BY <1>9 DEF Under

\* The root of an active mount can be given another reference.
LEMMA RootFact ==
  ASSUME IInv, NEW s \in Slot, mnt[s].state = "ACTIVE"
  PROVE  /\ mnt[s].root \in Vnode /\ vnode[mnt[s].root].refcnt > 0
         /\ vnode[mnt[s].root].mount = s /\ mnt[vnode[mnt[s].root].mount].state = "ACTIVE"
<1>1. Typed /\ VnodeRefs /\ MountsFit
  BY DEF IInv
<1>2. mnt[s].root \in Vnode /\ vnode[mnt[s].root].mount = s
  BY <1>1 DEF MountsFit, Typed, MountType
<1>3. QED
  BY <1>1, <1>2, Referred

LEMMA RootIsMounted ==
  ASSUME IInv
  PROVE  mnt[RootSlot].state = "ACTIVE" /\ mnt[RootSlot].root = RootVnode
  BY DEF IInv, MountsFit

LEMMA WalkRootKept ==
  ASSUME IInv, NEW p \in Proc, WalkRoot(p), UNCHANGED <<file, fdmap, io>>
  PROVE  IInv'
<1>1. loc[p].pc = "root" /\ UNCHANGED <<mnt, tmp>>
  BY DEF WalkRoot, At
<1>2. loc[p].pc \in Ready
  BY <1>1 DEF Ready
<1>3. loc[p] \in Loc /\ loc[p].cur = NULL /\ loc[p].pin = NULL /\ loc[p].child = NULL
  BY <1>1 DEF IInv, Typed, Holding, HasCur, HasChild
<1>4. CASE loc[p].loops >= SymloopMax
  <2>1. WalkFails(p, {}, FALSE) /\ {} \in SUBSET {"cur", "pin", "child"}
    BY <1>4 DEF WalkRoot
  <2>2. \A h \in {"cur", "pin", "child"} \ {} : loc[p][h] = NULL
    BY <1>3
  <2>3. QED
    BY <1>1, <1>2, <2>1, <2>2, WalkFailsKept
<1>5. CASE ~(loc[p].loops >= SymloopMax)
  <2> DEFINE g == mnt[RootSlot].root
             f == [loc[p] EXCEPT !.cur = g]
             vs == [vnode EXCEPT ![g].refcnt = @ + 1]
  <2>1. Advance(p, vs, f)
    BY <1>5 DEF WalkRoot
  <2>2. vnode' = vs
    BY <2>1 DEF Advance
  <2>3. g \in Vnode /\ vnode[g].refcnt > 0 /\ mnt[vnode[g].mount].state = "ACTIVE"
    BY RootFact, RootIsMounted, Constants
  <2>4. Steady /\ \A v \in Vnode : vnode'[v].refcnt = vnode[v].refcnt + One(v = g)
    BY <2>2, <2>3, GrabSteady
  <2>5. /\ f \in Loc /\ f.cur = g /\ f.pin = NULL /\ f.child = NULL /\ f.par = loc[p].par
        /\ f.call = loc[p].call /\ f.walk = loc[p].walk /\ f.buf = loc[p].buf
    BY <1>3, <2>3 DEF Loc
  <2> HIDE DEF f, g, vs
  <2>6. ASSUME NEW v \in Vnode
        PROVE  vnode'[v].refcnt + Held(loc[p], v) = vnode[v].refcnt + Held(f, v)
    <3>1. Held(f, v) = Held(loc[p], v) + One(v = g)
      BY <1>3, <2>5, Constants DEF Held, One
    <3>2. vnode[v].refcnt \in Nat /\ Held(loc[p], v) \in Nat /\ One(v = g) \in Nat
      BY DEF IInv, Typed, Fields, Held, One
    <3>3. QED
      BY <2>4, <3>1, <3>2
  <2>7. f.cur # NULL
    BY <2>3, <2>5, Constants
  <2>8. QED
    BY <1>1, <1>2, <2>1, <2>4, <2>5, <2>6, <2>7, AdvanceKept
<1>6. QED
  BY <1>4, <1>5

LEMMA WalkMountKept ==
  ASSUME IInv, NEW p \in Proc, WalkMount(p), UNCHANGED <<file, fdmap, io>>
  PROVE  IInv'
<1> DEFINE done == Append(loc[p].done, Head(loc[p].todo))
           root == mnt[MountFind(done)].root
           r == [loc[p] EXCEPT !.pc = "pinned", !.done = done, !.todo = Tail(@), !.pin = root]
<1>1. loc[p].pc = "mount" /\ UNCHANGED <<mnt, tmp>>
  BY ZenonT(60) DEF WalkMount, At
<1>2. loc[p].pc \in Ready /\ loc[p].pc \notin Elsewhere
  BY <1>1 DEF Ready, Elsewhere, Handling
<1>3. /\ loc[p] \in Loc /\ Holding(loc[p]) /\ Within(loc[p]) /\ scratch \in Nat /\ TmpOK(tmp')
      /\ loc[p].cur # NULL /\ loc[p].pin = NULL /\ loc[p].child = NULL /\ loc[p].todo # << >>
  BY <1>1 DEF IInv, Typed, Holding, Within, HasCur, HasChild
<1>4. CASE WalkFails(p, {"cur"}, FALSE)
  <2>1. WalkFails(p, {"cur"}, FALSE) /\ {"cur"} \in SUBSET {"cur", "pin", "child"}
    BY <1>4
  <2>2. \A h \in {"cur", "pin", "child"} \ {"cur"} : loc[p][h] = NULL
    BY <1>3
  <2>3. QED
    BY <1>1, <1>2, <2>1, <2>2, WalkFailsKept
<1>5. CASE ~WalkFails(p, {"cur"}, FALSE)
  <2>1. /\ vnode' = [vnode EXCEPT ![root].refcnt = @ + 1]
        /\ loc' = [loc EXCEPT ![p] = r] /\ scratch' = scratch
    BY <1>5, ZenonT(60) DEF WalkMount, Move
  <2>2. done \in Seq(Name) /\ Tail(loc[p].todo) \in Seq(Name)
    <3>1. loc[p].done \in Seq(Name) /\ loc[p].todo \in Seq(Name) /\ loc[p].todo # << >>
      BY <1>3 DEF Loc
    <3>2. Head(loc[p].todo) \in Name /\ Tail(loc[p].todo) \in Seq(Name)
      BY <3>1
    <3>3. QED
      BY <3>1, <3>2
  <2> HIDE DEF done
  <2>3. MountFind(done) \in Slot /\ mnt[MountFind(done)].state = "ACTIVE"
    BY <2>2, MountFindFact
  <2>4. root \in Vnode /\ vnode[root].refcnt > 0 /\ mnt[vnode[root].mount].state = "ACTIVE"
    BY <2>3, RootFact
  <2> HIDE DEF root
  <2>5. Steady /\ \A v \in Vnode : vnode'[v].refcnt = vnode[v].refcnt + One(v = root)
    BY <2>1, <2>4, GrabSteady
  <2>6. r \in Loc
    <3>1. "pinned" \in Points
      BY DEF Points, Walking
    <3>2. QED
      BY <1>3, <2>2, <2>4, <3>1 DEF Loc
  <2>7. /\ r.pc = "pinned" /\ r.cur = loc[p].cur /\ r.pin = root /\ r.child = NULL
        /\ r.par = loc[p].par
        /\ r.call = loc[p].call /\ r.walk = loc[p].walk /\ r.buf = loc[p].buf
    BY <1>3 DEF Loc
  <2> HIDE DEF r
  <2>8. CallBufs(r) = CallBufs(loc[p]) /\ (HasPar(r) <=> HasPar(loc[p]))
    BY <1>1, <2>7 DEF CallBufs, HasPar, Walking
  <2>9. Holding(r)
    BY <1>1, <1>3, <2>4, <2>7, <2>8, Constants DEF Holding, HasCur, HasChild, Walking, Bufs
  <2>10. Within(r)
    BY <1>1, <1>3, <2>7 DEF Within, Walking, Calling, Mounting
  <2>11. ASSUME NEW v \in Vnode
         PROVE  vnode'[v].refcnt + Held(loc[p], v) = vnode[v].refcnt + Held(r, v)
    <3>1. Held(r, v) = Held(loc[p], v) + One(v = root)
      BY <1>3, <2>7, Constants DEF Held, One
    <3>2. vnode[v].refcnt \in Nat /\ Held(loc[p], v) \in Nat /\ One(v = root) \in Nat
      BY DEF IInv, Typed, Fields, Held, One
    <3>3. QED
      BY <2>5, <3>1, <3>2
  <2>12. r.pc \notin Mounting \cup Elsewhere /\ r.pc \notin {"link", "readlink"}
    BY <2>7 DEF Elsewhere, Handling, Mounting
  <2>13. scratch' \in Nat /\ scratch' + r.buf = scratch + loc[p].buf
    BY <1>3, <2>1, <2>7
  <2>14. QED
    BY <1>1, <1>2, <1>3, <2>1, <2>5, <2>6, <2>9, <2>10, <2>11, <2>12, <2>13, PathKept, ZenonT(60)
<1>6. QED
  BY <1>4, <1>5

LEMMA WalkPinnedKept ==
  ASSUME IInv, NEW p \in Proc, WalkPinned(p), UNCHANGED <<file, fdmap, io>>
  PROVE  IInv'
<1>1. loc[p].pc = "pinned" /\ UNCHANGED <<mnt, tmp>>
  BY DEF WalkPinned, At
<1>2. loc[p].pc \in Ready /\ loc[p].pc \notin Elsewhere
  BY <1>1 DEF Ready, Elsewhere, Handling
<1>3. /\ loc[p] \in Loc /\ Holding(loc[p]) /\ Within(loc[p]) /\ scratch \in Nat /\ TmpOK(tmp')
      /\ loc[p].cur # NULL /\ loc[p].pin # NULL /\ loc[p].child = NULL
  BY <1>1 DEF IInv, Typed, Holding, Within, HasCur, HasChild
<1>4. \A v \in Vnode : vnode[v].refcnt \in Nat
  BY DEF IInv, Typed, Fields
<1>5. CASE Crosses(p)
  <2> DEFINE D == {"cur"}
             vs == Released(vnode, p, D)
             f == [loc[p] EXCEPT !.cur = loc[p].pin, !.pin = NULL]
  <2>1. Advance(p, vs, f)
    BY <1>5 DEF WalkPinned
  <2>2. vnode' = Released(vnode, p, D) /\ D \in SUBSET Hands
    BY <2>1 DEF Advance, Hands
  <2>3. Steady /\ \A v \in Vnode : vnode'[v].refcnt + HeldIn(loc[p], D, v) = vnode[v].refcnt
    BY <2>2, ReleasedSteady
  <2>4. /\ f \in Loc /\ f.cur = loc[p].pin /\ f.pin = NULL /\ f.child = NULL
        /\ f.par = loc[p].par
        /\ f.call = loc[p].call /\ f.walk = loc[p].walk /\ f.buf = loc[p].buf
    BY <1>3, ZenonT(60) DEF Loc
  <2> HIDE DEF f, vs
  <2>5. ASSUME NEW v \in Vnode
        PROVE  vnode'[v].refcnt + Held(loc[p], v) = vnode[v].refcnt + Held(f, v)
    <3>1. Held(loc[p], v) = Held(f, v) + HeldIn(loc[p], D, v)
      BY <1>3, <2>4, Constants DEF Held, HeldIn, One
    <3>2. Held(f, v) \in Nat /\ HeldIn(loc[p], D, v) \in Nat /\ vnode'[v].refcnt \in Nat
      BY <2>3 DEF Steady, Fields, Held, HeldIn, One
    <3>3. QED
      BY <1>4, <2>3, <3>1, <3>2
  <2>6. QED
    BY <1>1, <1>2, <1>3, <2>1, <2>3, <2>4, <2>5, AdvanceKept
<1>6. CASE ~Crosses(p)
  <2> DEFINE D == {"pin"}
             r == [loc[p] EXCEPT !.pc = "lookup", !.pin = NULL]
  <2>1. /\ vnode' = Released(vnode, p, D) /\ D \in SUBSET Hands
        /\ loc' = [loc EXCEPT ![p] = r] /\ scratch' = scratch
    BY <1>6 DEF WalkPinned, Move, Hands
  <2>2. Steady /\ \A v \in Vnode : vnode'[v].refcnt + HeldIn(loc[p], D, v) = vnode[v].refcnt
    BY <2>1, ReleasedSteady
  <2>3. r \in Loc
    <3>1. "lookup" \in Points
      BY DEF Points, Walking
    <3>2. QED
      BY <1>3, <3>1, ZenonT(60) DEF Loc
  <2>4. /\ r.pc = "lookup" /\ r.cur = loc[p].cur /\ r.pin = NULL /\ r.child = NULL
        /\ r.par = loc[p].par
        /\ r.call = loc[p].call /\ r.walk = loc[p].walk /\ r.buf = loc[p].buf
    BY <1>3 DEF Loc
  <2> HIDE DEF r
  <2>5. CallBufs(r) = CallBufs(loc[p]) /\ (HasPar(r) <=> HasPar(loc[p]))
    BY <1>1, <2>4 DEF CallBufs, HasPar, Walking
  <2>6. Holding(r)
    BY <1>1, <1>3, <2>4, <2>5 DEF Holding, HasCur, HasChild, Walking, Bufs
  <2>7. Within(r)
    BY <1>1, <1>3, <2>4 DEF Within, Walking, Calling, Mounting
  <2>8. ASSUME NEW v \in Vnode
        PROVE  vnode'[v].refcnt + Held(loc[p], v) = vnode[v].refcnt + Held(r, v)
    <3>1. Held(loc[p], v) = Held(r, v) + HeldIn(loc[p], D, v)
      BY <1>3, <2>4, Constants DEF Held, HeldIn, One
    <3>2. Held(r, v) \in Nat /\ HeldIn(loc[p], D, v) \in Nat /\ vnode'[v].refcnt \in Nat
      BY <2>2 DEF Steady, Fields, Held, HeldIn, One
    <3>3. QED
      BY <1>4, <2>2, <3>1, <3>2
  <2>9. r.pc \notin Mounting \cup Elsewhere /\ r.pc \notin {"link", "readlink"}
    BY <2>4 DEF Elsewhere, Handling, Mounting
  <2>10. scratch' \in Nat /\ scratch' + r.buf = scratch + loc[p].buf
    BY <1>3, <2>1, <2>4
  <2>11. QED
    BY <1>1, <1>2, <1>3, <2>1, <2>2, <2>3, <2>6, <2>7, <2>8, <2>9, <2>10, PathKept
<1>7. QED
  BY <1>5, <1>6

LEMMA WalkLookupKept ==
  ASSUME IInv, NEW p \in Proc, WalkLookup(p), UNCHANGED <<file, fdmap, io>>
  PROVE  IInv'
<1> DEFINE n == Last(loc[p].done)
           d == loc[p].cur
           i == FirstEntry(tmp, vnode[d].ino, n)
           found == IF InRoot(d) THEN vnode[d].ino = RootName /\ n \in DOMAIN RootDir
                    ELSE Entries(tmp, vnode[d].ino, n) # {}
           r == [loc[p] EXCEPT !.pc = "drop", !.child = Min(FreeVnodes)]
<1>1. loc[p].pc = "lookup" /\ UNCHANGED <<mnt, tmp>>
  BY DEF WalkLookup, At
<1>2. loc[p].pc \in Ready /\ loc[p].pc \notin Elsewhere
  BY <1>1 DEF Ready, Elsewhere, Handling
<1>3. /\ loc[p] \in Loc /\ Holding(loc[p]) /\ Within(loc[p]) /\ scratch \in Nat /\ TmpOK(tmp')
      /\ loc[p].cur # NULL /\ loc[p].pin = NULL /\ loc[p].child = NULL /\ TmpOK(tmp)
  BY <1>1 DEF IInv, Typed, Holding, Within, HasCur, HasChild
<1>4. \A v \in Vnode : vnode[v].refcnt \in Nat
  BY DEF IInv, Typed, Fields
<1>5. CASE ~(found /\ FreeVnodes # {})
  <2>1. PICK missing : WalkFails(p, {"cur"}, missing)
    BY <1>5 DEF WalkLookup
  <2>2. {"cur"} \in SUBSET {"cur", "pin", "child"}
    OBVIOUS
  <2>3. \A h \in {"cur", "pin", "child"} \ {"cur"} : loc[p][h] = NULL
    BY <1>3
  <2>4. QED
    BY <1>1, <1>2, <2>1, <2>2, <2>3, WalkFailsKept
<1>6. CASE found /\ FreeVnodes # {}
  <2>1. /\ vnode' = IF InRoot(d) THEN NewVnode(RootSlot, n, RootDir[n], 0)
                    ELSE NewVnode(vnode[d].mount, i, tmp.node[i].type, tmp.node[i].size)
        /\ loc' = [loc EXCEPT ![p] = r] /\ scratch' = scratch
    BY <1>6 DEF WalkLookup, Move
  <2>2. d \in Vnode /\ vnode[d] \in Fields
    BY <1>3 DEF Loc, IInv, Typed
  <2>3. Fits(vnode[d]) /\ vnode[d].mount \in Slot /\ mnt[vnode[d].mount].state = "ACTIVE"
    BY <2>2, HandActive
  <2>4. FileMax \in Nat
    BY TmpfsAssumption
  <2> DEFINE g == Min(FreeVnodes)
  <2>5. Steady /\ \A v \in Vnode : vnode'[v].refcnt = vnode[v].refcnt + One(v = g)
    <3>1. CASE InRoot(d)
      <4> DEFINE w == [refcnt |-> 1, mount |-> RootSlot, ino |-> n, type |-> RootDir[n], size |-> 0]
      <4>1. n \in DOMAIN RootDir /\ vnode' = NewVnode(RootSlot, n, RootDir[n], 0)
        BY <1>6, <2>1, <3>1
      <4>2. RootDir[n] \in Kinds
        BY <4>1, PathAssumption DEF Kinds
      <4> HIDE DEF n
      <4>3. w \in Fields
        BY <2>4, <4>1, <4>2, Constants DEF Fields
      <4>4. Fits(w)
        BY <4>1 DEF Fits
      <4>5. mnt[RootSlot].state = "ACTIVE"
        BY RootIsMounted
      <4>6. QED
        BY <1>6, <4>1, <4>3, <4>4, <4>5, NewSteady
    <3>2. CASE ~InRoot(d)
      <4> DEFINE m == vnode[d].mount
                 k == tmp.node[i].type
                 z == tmp.node[i].size
                 w == [refcnt |-> 1, mount |-> m, ino |-> i, type |-> k, size |-> z]
      <4>1. Entries(tmp, vnode[d].ino, n) # {} /\ vnode' = NewVnode(m, i, k, z)
        BY <1>6, <2>1, <3>2
      <4>2. i \in Ino
        <5> DEFINE E == Entries(tmp, vnode[d].ino, n)
        <5>1. E \in SUBSET Ino /\ Ino \in SUBSET Nat
          BY TmpfsAssumption DEF Entries, Ino
        <5> HIDE DEF E
        <5>2. Min(E) \in E
          <6>1. E \in SUBSET Nat /\ E # {}
            BY <4>1, <5>1 DEF E
          <6>2. QED
            BY <6>1, MinFact
        <5>3. QED
          BY <5>1, <5>2 DEF FirstEntry, E
      <4> HIDE DEF i
      <4>3. tmp.node[i] \in Inode
        BY <1>3, <4>2 DEF TmpOK, TmpTyped
      <4>4. k \in {"FILE", "DIR"} /\ z \in 0..FileMax /\ m \in Slot \ {RootSlot}
        BY <2>3, <3>2, <4>3 DEF Inode, InRoot
      <4> HIDE DEF k, z, m
      <4>5. w \in Fields
        BY <4>2, <4>4 DEF Fields, Kinds
      <4>6. Fits(w)
        BY <4>2, <4>4 DEF Fits
      <4>7. mnt[m].state = "ACTIVE"
        BY <2>3 DEF m
      <4>8. QED
        BY <1>6, <4>1, <4>5, <4>6, <4>7, NewSteady
    <3>3. QED
      BY <3>1, <3>2
  <2>6. g \in Vnode /\ Held(loc[p], g) = 0
    BY <1>6, FreeVnodeFact
  <2> HIDE DEF g
  <2>7. r = [loc[p] EXCEPT !.pc = "drop", !.child = g]
    BY DEF g
  <2> HIDE DEF r
  <2>8. r \in Loc
    BY <1>3, <2>6, <2>7 DEF Loc, Points, Walking
  <2>9. /\ r.pc = "drop" /\ r.cur = loc[p].cur /\ r.pin = NULL /\ r.child = g
        /\ r.par = loc[p].par
        /\ r.call = loc[p].call /\ r.walk = loc[p].walk /\ r.buf = loc[p].buf
    BY <1>3, <2>7 DEF Loc
  <2>10. CallBufs(r) = CallBufs(loc[p]) /\ (HasPar(r) <=> HasPar(loc[p]))
    BY <1>1, <2>9 DEF CallBufs, HasPar, Walking
  <2>11. Holding(r)
    BY <1>1, <1>3, <2>6, <2>9, <2>10, Constants DEF Holding, HasCur, HasChild, Walking, Bufs
  <2>12. Within(r)
    BY <1>1, <1>3, <2>9 DEF Within, Walking, Calling, Mounting
  <2>13. ASSUME NEW v \in Vnode
         PROVE  vnode'[v].refcnt + Held(loc[p], v) = vnode[v].refcnt + Held(r, v)
    <3>1. Held(r, v) = Held(loc[p], v) + One(v = g)
      BY <1>3, <2>9, Constants DEF Held, One
    <3>2. Held(loc[p], v) \in Nat /\ One(v = g) \in Nat
      BY DEF Held, One
    <3>3. QED
      BY <1>4, <2>5, <3>1, <3>2
  <2>14. r.pc \notin Mounting \cup Elsewhere /\ r.pc \notin {"link", "readlink"}
    BY <2>9 DEF Elsewhere, Handling, Mounting
  <2>15. scratch' \in Nat /\ scratch' + r.buf = scratch + loc[p].buf
    BY <1>3, <2>1, <2>9
  <2>16. QED
    BY <1>1, <1>2, <1>3, <2>1, <2>5, <2>8, <2>11, <2>12, <2>13, <2>14, <2>15, PathKept, ZenonT(60)
<1>7. QED
  BY <1>5, <1>6

LEMMA StaysLike ==
  ASSUME Steady, NEW v \in Vnode, vnode[v].refcnt > 0, vnode'[v].refcnt > 0
  PROVE  Like(vnode[v], vnode'[v])
  BY DEF Steady, BlankVnode

LEMMA WalkDropKept ==
  ASSUME IInv, NEW p \in Proc, WalkDrop(p), UNCHANGED <<file, fdmap, io>>
  PROVE  IInv'
<1>1. loc[p].pc = "drop" /\ UNCHANGED <<mnt, tmp>>
  BY DEF WalkDrop, At
<1>2. loc[p].pc \in Ready /\ loc[p].pc \notin Elsewhere
  BY <1>1 DEF Ready, Elsewhere, Handling
<1>3. /\ loc[p] \in Loc /\ Holding(loc[p]) /\ Within(loc[p]) /\ scratch \in Nat /\ TmpOK(tmp')
      /\ loc[p].cur # NULL /\ loc[p].pin = NULL /\ loc[p].child # NULL
  BY <1>1 DEF IInv, Typed, Holding, Within, HasCur, HasChild
<1>4. \A v \in Vnode : vnode[v].refcnt \in Nat
  BY DEF IInv, Typed, Fields
<1> DEFINE D == {"cur"}
<1>5. CASE ~Followed(p)
  <2> DEFINE vs == Released(vnode, p, D)
             f == [loc[p] EXCEPT !.cur = loc[p].child, !.child = NULL]
  <2>1. Advance(p, vs, f)
    BY <1>5 DEF WalkDrop
  <2>2. vnode' = Released(vnode, p, D) /\ D \in SUBSET Hands
    BY <2>1 DEF Advance, Hands
  <2>3. Steady /\ \A v \in Vnode : vnode'[v].refcnt + HeldIn(loc[p], D, v) = vnode[v].refcnt
    BY <2>2, ReleasedSteady
  <2>4. /\ f \in Loc /\ f.cur = loc[p].child /\ f.pin = NULL /\ f.child = NULL
        /\ f.par = loc[p].par
        /\ f.call = loc[p].call /\ f.walk = loc[p].walk /\ f.buf = loc[p].buf
    BY <1>3, ZenonT(60) DEF Loc
  <2> HIDE DEF f, vs
  <2>5. ASSUME NEW v \in Vnode
        PROVE  vnode'[v].refcnt + Held(loc[p], v) = vnode[v].refcnt + Held(f, v)
    <3>1. Held(loc[p], v) = Held(f, v) + HeldIn(loc[p], D, v)
      BY <1>3, <2>4, Constants DEF Held, HeldIn, One
    <3>2. Held(f, v) \in Nat /\ HeldIn(loc[p], D, v) \in Nat /\ vnode'[v].refcnt \in Nat
      BY <2>3 DEF Steady, Fields, Held, HeldIn, One
    <3>3. QED
      BY <1>4, <2>3, <3>1, <3>2
  <2>6. QED
    BY <1>1, <1>2, <1>3, <2>1, <2>3, <2>4, <2>5, AdvanceKept
<1>6. CASE Followed(p)
  <2> DEFINE r == [loc[p] EXCEPT !.pc = "link", !.tries = 0, !.got = 0, !.cur = NULL]
  <2>1. /\ vnode' = Released(vnode, p, D) /\ D \in SUBSET Hands
        /\ loc' = [loc EXCEPT ![p] = r] /\ scratch' = scratch
    BY <1>6 DEF WalkDrop, Move, Hands
  <2>2. Steady /\ \A v \in Vnode : vnode'[v].refcnt + HeldIn(loc[p], D, v) = vnode[v].refcnt
    BY <2>1, ReleasedSteady
  <2>3. r \in Loc
    <3>1. "link" \in Points /\ 0 \in Nat
      BY DEF Points, Walking
    <3>2. QED
      BY <1>3, <3>1, ZenonT(60) DEF Loc
  <2>4. /\ r.pc = "link" /\ r.cur = NULL /\ r.pin = NULL /\ r.child = loc[p].child
        /\ r.par = loc[p].par /\ r.tries = 0 /\ r.got = 0
        /\ r.call = loc[p].call /\ r.walk = loc[p].walk /\ r.buf = loc[p].buf
    BY <1>3 DEF Loc
  <2> HIDE DEF r
  <2>5. CallBufs(r) = CallBufs(loc[p]) /\ (HasPar(r) <=> HasPar(loc[p]))
    BY <1>1, <2>4 DEF CallBufs, HasPar, Walking
  <2>6. Holding(r)
    <3>1. loc[p].buf = CallBufs(loc[p]) + WalkBufs /\ CallBufs(loc[p]) \in 0..2
      BY <1>1, <1>2, BufsOf DEF Walking
    <3>2. QED
      BY <1>1, <1>3, <2>4, <2>5, <3>1 DEF Holding, HasCur, HasChild, Bufs, WalkBufs
  <2>7. Within(r)
    BY <1>1, <1>3, <2>4 DEF Within, Walking, Calling, Mounting
  <2>8. ASSUME NEW v \in Vnode
        PROVE  vnode'[v].refcnt + Held(loc[p], v) = vnode[v].refcnt + Held(r, v)
    <3>1. Held(loc[p], v) = Held(r, v) + HeldIn(loc[p], D, v)
      BY <1>3, <2>4, Constants DEF Held, HeldIn, One
    <3>2. Held(r, v) \in Nat /\ HeldIn(loc[p], D, v) \in Nat /\ vnode'[v].refcnt \in Nat
      BY <2>2 DEF Steady, Fields, Held, HeldIn, One
    <3>3. QED
      BY <1>4, <2>2, <3>1, <3>2
  <2>9. r.pc \notin Mounting \cup Elsewhere /\ r.pc \in Walking
    BY <2>4 DEF Elsewhere, Handling, Mounting, Walking
  <2>10. scratch' \in Nat /\ scratch' + r.buf = scratch + loc[p].buf
    BY <1>3, <2>1, <2>4
  <2>11. vnode'[r.child].type = "SYMLINK"
    <3>1. PICK v \in Vnode : v = loc[p].child
      BY <1>3 DEF Loc
    <3>2. Held(loc[p], v) \in Nat /\ Held(loc[p], v) <= vnode[v].refcnt /\ vnode[v].refcnt > 0
      BY <3>1, Referred DEF IInv
    <3>3. Held(r, v) \in Nat /\ Held(r, v) > 0
      BY <2>4, <3>1 DEF Held, One
    <3>4. vnode'[v].refcnt + Held(loc[p], v) = vnode[v].refcnt + Held(r, v)
      BY <2>8
    <3>5. vnode'[v].refcnt \in Nat
      BY <2>2 DEF Steady, Fields
    <3>6. vnode'[v].refcnt > 0
      BY <1>4, <3>2, <3>3, <3>4, <3>5
    <3>7. Like(vnode[v], vnode'[v])
      BY <2>2, <3>2, <3>6, StaysLike
    <3>8. QED
      BY <1>6, <2>4, <3>1, <3>7 DEF Like, Followed
  <2>12. QED
    BY <1>1, <1>2, <1>3, <2>1, <2>2, <2>3, <2>6, <2>7, <2>8, <2>9, <2>10, <2>11, PathKept
<1>7. QED
  BY <1>5, <1>6

LEMMA LinkFailsKept ==
  ASSUME IInv, NEW p \in Proc, NEW b \in Nat, LinkFails(p, b), loc[p].pc \in {"link", "readlink"},
         loc[p].buf = b + WalkBufs + CallBufs(loc[p]), UNCHANGED <<mnt, tmp, file, fdmap, io>>
  PROVE  IInv'
<1> DEFINE D == {"child"} \cup CallerHands(p)
<1>1. D \in SUBSET Hands /\ "child" \in D /\ CallerHands(p) \subseteq D
  BY DEF CallerHands, Hands
<1>2. Return(p, D, b + WalkBufs + CallerBufs(p))
  BY DEF LinkFails
<1> HIDE DEF D
<1>3. CallerBufs(p) = CallBufs(loc[p])
  BY BufsOf DEF Walking
<1>4. QED
  BY <1>1, <1>2, <1>3, GivesUpKept

LEMMA WalkLinkKept ==
  ASSUME IInv, NEW p \in Proc, WalkLink(p), UNCHANGED <<file, fdmap, io>>
  PROVE  IInv'
<1>1. loc[p].pc = "link" /\ UNCHANGED <<mnt, tmp>>
  BY DEF WalkLink, At
<1>2. loc[p].pc \in Walking /\ loc[p].pc \in Taking
  BY <1>1 DEF Walking, Taking
<1>3. loc[p].got \in Nat /\ loc[p].tries \in Nat
  BY DEF IInv, Typed, Loc
<1>4. CallBufs(loc[p]) \in 0..2 /\ loc[p].buf = loc[p].got + WalkBufs + CallBufs(loc[p])
  <2>1. CallBufs(loc[p]) \in 0..2 /\ loc[p].buf = CallBufs(loc[p]) + WalkBufs + loc[p].got
    BY <1>1, <1>2, BufsOf
  <2>2. QED
    BY <1>3, <2>1 DEF WalkBufs
<1>5. CASE loc[p].tries < LinkBufs /\ TakeBuf(p)
  BY <1>1, <1>2, <1>3, <1>5, TakeBufKept DEF LinkBufs
<1>6. CASE loc[p].got = LinkBufs /\ HasBufs(p, "readlink")
  BY <1>1, <1>6, HasBufsKept
<1>7. CASE LinkFails(p, loc[p].got)
  BY <1>1, <1>3, <1>4, <1>7, LinkFailsKept
<1>8. QED
  BY <1>5, <1>6, <1>7 DEF WalkLink

LEMMA WalkReadlinkKept ==
  ASSUME IInv, NEW p \in Proc, WalkReadlink(p), UNCHANGED <<file, fdmap, io>>
  PROVE  IInv'
<1> DEFINE D == {"child"}
           todo == Link[vnode[loc[p].child].ino] \o loc[p].todo
           r == [loc[p] EXCEPT !.pc = "root", !.child = NULL, !.done = << >>,
                   !.todo = todo, !.loops = @ + 1, !.buf = @ - LinkBufs]
<1>0. loc[p].pc = "readlink" /\ UNCHANGED <<mnt, tmp>>
  BY DEF WalkReadlink, At
<1>2. loc[p].pc \notin Elsewhere /\ loc[p].pc \in Walking
  BY <1>0 DEF Walking, Elsewhere, Handling
<1>0a. CASE LinkFails(p, LinkBufs)
  <2>1. CallBufs(loc[p]) \in 0..2 /\ loc[p].buf = CallBufs(loc[p]) + WalkBufs + LinkBufs
    BY <1>0, <1>2, BufsOf
  <2>2. LinkBufs \in Nat /\ loc[p].buf = LinkBufs + WalkBufs + CallBufs(loc[p])
    BY <2>1 DEF WalkBufs, LinkBufs
  <2>3. QED
    BY <1>0, <1>0a, <2>2, LinkFailsKept
<1>0b. SUFFICES ASSUME ~LinkFails(p, LinkBufs) PROVE IInv'
  BY <1>0a
<1>1. /\ loc[p].pc = "readlink" /\ UNCHANGED <<mnt, tmp>> /\ scratch' = scratch + LinkBufs
      /\ vnode' = Released(vnode, p, D) /\ loc' = [loc EXCEPT ![p] = r] /\ D \in SUBSET Hands
  BY <1>0, <1>0b DEF WalkReadlink, Move, Hands
<1>3. /\ loc[p] \in Loc /\ Holding(loc[p]) /\ Within(loc[p]) /\ scratch \in Nat /\ TmpOK(tmp')
      /\ loc[p].cur = NULL /\ loc[p].pin = NULL /\ loc[p].child # NULL
      /\ vnode[loc[p].child].type = "SYMLINK"
  BY <1>1 DEF IInv, Typed, Holding, Within, HasCur, HasChild, AtLink
<1>4. CallBufs(loc[p]) \in 0..2 /\ loc[p].buf = CallBufs(loc[p]) + WalkBufs + LinkBufs
  BY <1>1, <1>2, BufsOf
<1>5. \A v \in Vnode : vnode[v].refcnt \in Nat
  BY DEF IInv, Typed, Fields
<1>6. Steady /\ \A v \in Vnode : vnode'[v].refcnt + HeldIn(loc[p], D, v) = vnode[v].refcnt
  BY <1>1, ReleasedSteady
<1>7. todo \in Seq(Name)
  <2>1. PICK v \in Vnode : v = loc[p].child
    BY <1>3 DEF Loc
  <2>2. Fits(vnode[v])
    BY <2>1, HandActive
  <2>3. vnode[v].ino \in DOMAIN RootDir /\ RootDir[vnode[v].ino] = "SYMLINK"
    BY <1>3, <2>1, <2>2 DEF Fits
  <2>4. Link[vnode[v].ino] \in Seq(Name)
    BY <2>3, PathAssumption
  <2>5. loc[p].todo \in Seq(Name)
    BY <1>3 DEF Loc
  <2>6. QED
    BY <2>1, <2>4, <2>5
<1> HIDE DEF todo
<1>8. r \in Loc
  <2>1. "root" \in Points /\ loc[p].buf - LinkBufs \in Nat
    BY <1>4 DEF Points, Walking, WalkBufs, LinkBufs
  <2>2. << >> \in Seq(Name) /\ loc[p].loops + 1 \in Nat
    BY <1>3 DEF Loc
  <2>3. QED
    BY <1>3, <1>7, <2>1, <2>2 DEF Loc
<1>9. /\ r.pc = "root" /\ r.buf = loc[p].buf - LinkBufs
      /\ r.call = loc[p].call /\ r.walk = loc[p].walk
      /\ r.cur = NULL /\ r.pin = NULL /\ r.child = NULL /\ r.par = loc[p].par
  BY <1>3 DEF Loc
<1> HIDE DEF r
<1>10. CallBufs(r) = CallBufs(loc[p]) /\ (HasPar(r) <=> HasPar(loc[p]))
  BY <1>1, <1>9 DEF CallBufs, HasPar, Walking
<1>11. Holding(r)
  <2>1. r.buf = CallBufs(r) + WalkBufs
    BY <1>4, <1>9, <1>10 DEF WalkBufs, LinkBufs
  <2>2. QED
    BY <1>3, <1>9, <1>10, <2>1 DEF Holding, HasCur, HasChild, Walking, Bufs
<1>12. Within(r)
  BY <1>1, <1>3, <1>9 DEF Within, Walking, Calling, Mounting
<1>13. ASSUME NEW v \in Vnode
       PROVE  vnode'[v].refcnt + Held(loc[p], v) = vnode[v].refcnt + Held(r, v)
  <2>1. Held(loc[p], v) = Held(r, v) + HeldIn(loc[p], D, v)
    BY <1>3, <1>9, Constants DEF Held, HeldIn, One
  <2>2. Held(r, v) \in Nat /\ HeldIn(loc[p], D, v) \in Nat /\ vnode'[v].refcnt \in Nat
    BY <1>6 DEF Steady, Fields, Held, HeldIn, One
  <2>3. QED
    BY <1>5, <1>6, <2>1, <2>2
<1>14. r.pc \notin Mounting \cup Elsewhere /\ r.pc \notin {"link", "readlink"}
  BY <1>9 DEF Elsewhere, Handling, Mounting
<1>15. scratch' \in Nat /\ scratch' + r.buf = scratch + loc[p].buf
  BY <1>1, <1>3, <1>4, <1>9 DEF WalkBufs, LinkBufs
<1>16. QED
  BY <1>1, <1>2, <1>3, <1>6, <1>8, <1>11, <1>12, <1>13, <1>14, <1>15, PathKept

-----------------------------------------------------------------------------
(* The table of tmpfs *)

LEMMA InoFact ==
  /\ Ino \subseteq Nat /\ IsFiniteSet(Ino) /\ RootIno \in Ino
  /\ FileMax \in Nat /\ PageMax \in Nat /\ NoName \notin Name
<1>1. InodeMax \in Nat /\ InodeMax > 0 /\ FileMax \in Nat /\ PageMax \in Nat /\ NoName \notin Name
  BY TmpfsAssumption
<1>2. 0 \in Int /\ InodeMax - 1 \in Int
  BY <1>1
<1>3. IsFiniteSet(Ino)
  BY <1>2, FS_Interval DEF Ino
<1>4. QED
  BY <1>1, <1>3 DEF Ino, RootIno

PageSet(t) == {i \in Ino : t.node[i].page}

LEMMA PageUsed ==
  ASSUME NEW t, TmpOK(t), ~t.torn, NEW i \in Ino, t.node[i].page
  PROVE  t.used > 0
<1>1. PageSet(t) # {} /\ IsFiniteSet(PageSet(t))
  BY InoFact, FS_Subset DEF PageSet
<1>2. Cardinality(PageSet(t)) \in Nat /\ Cardinality(PageSet(t)) # 0
  BY <1>1, FS_EmptySet, FS_CardinalityType
<1>3. t.used \in Nat /\ Cardinality(PageSet(t)) <= t.used
  BY DEF TmpOK, TmpTyped, Whole, PageSet
<1>4. QED
  BY <1>2, <1>3

LEMMA TypedFact ==
  ASSUME NEW t, TmpOK(t)
  PROVE  /\ t \in [node : [Ino -> Inode], used : Nat, torn : BOOLEAN]
         /\ t.node \in [Ino -> Inode] /\ t.used \in Nat /\ t.torn \in BOOLEAN
         /\ t.node[RootIno].name = NoName
         /\ ~t.torn => t.used <= PageMax
  BY DEF TmpOK, TmpTyped, Whole

\* One inode changes.
LEMMA InodeStep ==
  ASSUME NEW t, TmpOK(t), NEW i \in Ino, NEW r \in Inode, NEW k \in Nat,
         i = RootIno => r.name = NoName,
         ~t.torn => k <= PageMax /\ t.used + One(r.page) <= k + One(t.node[i].page),
         ~t.torn /\ i # RootIno /\ r.active =>
           \A j \in Ino \ {RootIno, i} :
             t.node[j].active /\ t.node[j].parent = r.parent => t.node[j].name # r.name
  PROVE  TmpOK([node |-> [t.node EXCEPT ![i] = r], used |-> k, torn |-> t.torn])
<1> DEFINE n == [t.node EXCEPT ![i] = r]
           u == [node |-> n, used |-> k, torn |-> t.torn]
<1>1. t.node \in [Ino -> Inode] /\ t.used \in Nat /\ t.torn \in BOOLEAN
  BY TypedFact
<1>2. n \in [Ino -> Inode] /\ n[i] = r /\ \A j \in Ino \ {i} : n[j] = t.node[j]
  BY <1>1
<1>3. /\ u.node = n /\ u.used = k /\ u.torn = t.torn
      /\ u \in [node : [Ino -> Inode], used : Nat, torn : BOOLEAN]
  BY <1>1, <1>2
<1> HIDE DEF n, u
<1>4. TmpTyped(u)
  BY <1>2, <1>3, InoFact, TypedFact DEF TmpTyped
<1>5. ASSUME ~t.torn PROVE Whole(u)
  <2>0. Whole(t)
    BY <1>5 DEF TmpOK
  <2>1. ASSUME NEW a \in Ino \ {RootIno}, NEW b \in Ino \ {RootIno, a},
               u.node[a].active, u.node[b].active, u.node[a].parent = u.node[b].parent
        PROVE  u.node[a].name # u.node[b].name
    <3>1. \A c \in Ino \ {RootIno}, d \in Ino : d \in Ino \ {RootIno, c} =>
            (t.node[c].active /\ t.node[d].active /\ t.node[c].parent = t.node[d].parent
             => t.node[c].name # t.node[d].name)
      BY <2>0 DEF Whole
    <3>2. CASE a = i
      BY <1>2, <1>3, <1>5, <2>1, <3>2
    <3>3. CASE b = i
      BY <1>2, <1>3, <1>5, <2>1, <3>3
    <3>4. CASE a # i /\ b # i
      BY <1>2, <1>3, <2>1, <3>1, <3>4
    <3>5. QED
      BY <3>2, <3>3, <3>4
  <2>2. Cardinality(PageSet(u)) <= u.used
    <3>1. /\ PageSet(t) \in SUBSET Ino /\ PageSet(u) \in SUBSET Ino
          /\ \A x \in Ino \ {i} : x \in PageSet(t) <=> x \in PageSet(u)
      BY <1>2, <1>3 DEF PageSet
    <3>2. (i \in PageSet(t) <=> t.node[i].page) /\ (i \in PageSet(u) <=> r.page)
      BY <1>2, <1>3 DEF PageSet
    <3>3. /\ Cardinality(PageSet(t)) \in Nat /\ Cardinality(PageSet(u)) \in Nat
          /\ Cardinality(PageSet(u)) + One(i \in PageSet(t))
               = Cardinality(PageSet(t)) + One(i \in PageSet(u))
      BY <3>1, InoFact, CountOne
    <3>4. Cardinality(PageSet(t)) <= t.used
      BY <2>0 DEF Whole, PageSet
    <3>5. One(i \in PageSet(t)) = One(t.node[i].page) /\ One(i \in PageSet(u)) = One(r.page)
      BY <3>2 DEF One
    <3>6. One(t.node[i].page) \in Nat /\ One(r.page) \in Nat
      BY DEF One
    <3>7. QED
      BY <1>1, <1>3, <1>5, <3>3, <3>4, <3>5, <3>6
  <2>3. u.used <= PageMax
    BY <1>3, <1>5
  <2>4. QED
    BY <2>1, <2>2, <2>3 DEF Whole, PageSet
<1>6. TmpOK(u)
  BY <1>3, <1>4, <1>5 DEF TmpOK
<1>7. QED
  BY <1>6 DEF u, n

\* Two mounts meet.
LEMMA TornOK ==
  ASSUME NEW t, TmpOK(t), NEW b \in BOOLEAN, t.torn => b
  PROVE  TmpOK([t EXCEPT !.torn = b])
<1> DEFINE u == [t EXCEPT !.torn = b]
<1>1. t \in [node : [Ino -> Inode], used : Nat, torn : BOOLEAN]
  BY TypedFact
<1>2. /\ u \in [node : [Ino -> Inode], used : Nat, torn : BOOLEAN]
      /\ u.node = t.node /\ u.used = t.used /\ u.torn = b
  BY <1>1
<1> HIDE DEF u
<1>3. TmpTyped(u)
  BY <1>2, TypedFact DEF TmpTyped
<1>4. ~t.torn => Whole(u)
  BY <1>2 DEF TmpOK, Whole
<1>5. TmpOK(u)
  BY <1>2, <1>3, <1>4 DEF TmpOK
<1>6. QED
  BY <1>5 DEF u

LEMMA MountedOK == TmpOK(TmpMounted)
<1> DEFINE b == [i \in Ino |-> [BlankInode EXCEPT
                   !.active = (i = RootIno), !.type = IF i = RootIno THEN "DIR" ELSE "FILE"]]
<1>1. /\ TmpMounted.node = b /\ TmpMounted.used = 0 /\ TmpMounted.torn = FALSE
      /\ TmpMounted = [node |-> b, used |-> 0, torn |-> FALSE]
  BY DEF TmpMounted
<1>2. ASSUME NEW i \in Ino
      PROVE  /\ b[i] \in Inode /\ b[i].name = NoName /\ b[i].page = FALSE
             /\ b[i].active => i = RootIno
  <2>1. 0 \in 0..FileMax /\ RootIno \in Ino
    BY InoFact
  <2>2. b[i] = [active |-> (i = RootIno), type |-> IF i = RootIno THEN "DIR" ELSE "FILE",
                name |-> NoName, parent |-> RootIno, size |-> 0, page |-> FALSE]
    BY DEF BlankInode
  <2> HIDE DEF b
  <2>3. CASE i = RootIno
    BY <2>1, <2>2, <2>3 DEF Inode
  <2>4. CASE i # RootIno
    <3>1. (i = RootIno) = FALSE
      BY <2>4
    <3>2. b[i] = [active |-> FALSE, type |-> "FILE",
                  name |-> NoName, parent |-> RootIno, size |-> 0, page |-> FALSE]
      BY <2>2, <2>4, <3>1
    <3>3. QED
      BY <2>1, <2>4, <3>2 DEF Inode
  <2>5. QED
    BY <2>3, <2>4
<1>3. b \in [Ino -> Inode]
  BY <1>2
<1> HIDE DEF b
<1>4. {i \in Ino : TmpMounted.node[i].page} = {}
  BY <1>1, <1>2
<1>5. Cardinality({i \in Ino : TmpMounted.node[i].page}) = 0
  BY <1>4, FS_EmptySet
<1>6. TmpMounted \in [node : [Ino -> Inode], used : Nat, torn : BOOLEAN]
  BY <1>1, <1>3
<1>7. TmpMounted.node[RootIno].name = NoName
  BY <1>1, <1>2, InoFact
<1>8. \A i \in Ino \ {RootIno} : ~TmpMounted.node[i].active
  BY <1>1, <1>2
<1>9. TmpMounted.used <= PageMax
  BY <1>1, InoFact
<1>10. QED
  BY <1>1, <1>5, <1>6, <1>7, <1>8, <1>9 DEF TmpOK, TmpTyped, Whole

\* A look-up finds an entry of the directory, which is not the root.
LEMMA EntryFact ==
  ASSUME NEW t, TmpOK(t), NEW d, NEW n \in Name, Entries(t, d, n) # {}
  PROVE  /\ FirstEntry(t, d, n) \in Ino \ {RootIno}
         /\ t.node[FirstEntry(t, d, n)].active
         /\ t.node[FirstEntry(t, d, n)].name = n /\ t.node[FirstEntry(t, d, n)].parent = d
<1>1. Entries(t, d, n) \in SUBSET Nat
  BY InoFact DEF Entries
<1>2. FirstEntry(t, d, n) \in Entries(t, d, n)
  BY <1>1, MinFact DEF FirstEntry
<1>3. t.node[RootIno].name # n
  BY InoFact, TypedFact
<1>4. QED
  BY <1>2, <1>3 DEF Entries

\* A page given back.
LEMMA UsedFact ==
  ASSUME NEW t, TmpOK(t), NEW i \in Ino, NEW b, b = FALSE
  PROVE  /\ UsedWithout(t, i) \in Nat
         /\ ~t.torn => /\ UsedWithout(t, i) <= PageMax
                       /\ t.used + One(b) <= UsedWithout(t, i) + One(t.node[i].page)
<1>1. t.used \in Nat /\ UintMax \in Nat /\ (~t.torn => t.used <= PageMax)
  BY TypedFact, TmpfsAssumption
<1>2. ~t.torn /\ t.node[i].page => t.used > 0
  BY PageUsed
<1>3. QED
  BY <1>1, <1>2, InoFact DEF UsedWithout, One

LEMMA FreedOK ==
  ASSUME NEW t, TmpOK(t), NEW i \in Ino \ {RootIno}
  PROVE  TmpOK(InodeFreed(t, i))
<1> DEFINE r == [BlankInode EXCEPT !.type = t.node[i].type]
           k == UsedWithout(t, i)
<1>1. t.node[i] \in Inode
  BY TypedFact
<1>2. r \in Inode /\ r.active = FALSE /\ r.page = FALSE
  <2>1. 0 \in 0..FileMax /\ RootIno \in Ino /\ t.node[i].type \in {"FILE", "DIR"}
    BY <1>1, InoFact DEF Inode
  <2>2. BlankInode \in Inode /\ BlankInode.active = FALSE /\ BlankInode.page = FALSE
    BY <2>1 DEF Inode, BlankInode
  <2>3. QED
    BY <2>1, <2>2 DEF Inode
<1>3. /\ k \in Nat
      /\ ~t.torn => k <= PageMax /\ t.used + One(r.page) <= k + One(t.node[i].page)
  <2> HIDE DEF r
  <2>1. QED
    BY <1>2, UsedFact
<1>4. InodeFreed(t, i) = [node |-> [t.node EXCEPT ![i] = r], used |-> k, torn |-> t.torn]
  BY DEF InodeFreed
<1> HIDE DEF r, k
<1>5. QED
  BY <1>2, <1>3, <1>4, InodeStep

LEMMA CreatedOK ==
  ASSUME NEW t, TmpOK(t), NEW d \in Ino, NEW n \in Name, NEW kind \in {"FILE", "DIR"},
         CanCreate(t, d, n)
  PROVE  TmpOK(Created(t, d, n, kind)) /\ Min(FreeInodes(t)) \in Ino \ {RootIno}
<1> DEFINE i == Min(FreeInodes(t))
           r == [active |-> TRUE, type |-> kind, name |-> n, parent |-> d,
                 size |-> 0, page |-> FALSE]
<1>1. /\ t \in [node : [Ino -> Inode], used : Nat, torn : BOOLEAN]
      /\ ~t.torn => t.used <= PageMax
  BY TypedFact
<1>2. FreeInodes(t) \in SUBSET Nat /\ FreeInodes(t) # {} /\ Entries(t, d, n) = {}
  BY InoFact DEF FreeInodes, CanCreate
<1>3. i \in Ino \ {RootIno} /\ ~t.node[i].active
  <2>1. i \in FreeInodes(t)
    BY <1>2, MinFact
  <2>2. QED
    BY <2>1 DEF FreeInodes
<1>4. Created(t, d, n, kind) = [t EXCEPT !.node[i] = r]
  BY DEF Created
<1> HIDE DEF i
<1>5. r \in Inode /\ r.page = FALSE /\ r.parent = d /\ r.name = n
  BY InoFact DEF Inode
<1> HIDE DEF r
<1>6. [t EXCEPT !.node[i] = r]
        = [node |-> [t.node EXCEPT ![i] = r], used |-> t.used, torn |-> t.torn]
  BY <1>1
<1>7. \A j \in Ino \ {RootIno, i} :
        t.node[j].active /\ t.node[j].parent = r.parent => t.node[j].name # r.name
  BY <1>2, <1>5 DEF Entries
<1>8. t.used \in Nat /\ t.used + One(r.page) <= t.used + One(t.node[i].page)
  BY <1>1, <1>5 DEF One
<1>9. TmpOK([node |-> [t.node EXCEPT ![i] = r], used |-> t.used, torn |-> t.torn])
  BY <1>1, <1>3, <1>5, <1>7, <1>8, InodeStep
<1>10. QED
  BY <1>3, <1>4, <1>6, <1>9 DEF i

LEMMA UnlinkedOK ==
  ASSUME NEW t, TmpOK(t), NEW d, NEW n \in Name, CanUnlink(t, d, n)
  PROVE  TmpOK(Unlinked(t, d, n))
  BY EntryFact, FreedOK DEF CanUnlink, Unlinked

LEMMA RenamedOK ==
  ASSUME NEW t, TmpOK(t), NEW od, NEW on \in Name, NEW nd \in Ino, NEW nn \in Name,
         CanRename(t, od, on, nd, nn)
  PROVE  TmpOK(Renamed(t, od, on, nd, nn))
<1> DEFINE s == FirstEntry(t, od, on)
           e == FirstEntry(t, nd, nn)
           rid == IF Entries(t, nd, nn) = {} THEN t ELSE InodeFreed(t, e)
           r == [rid.node[s] EXCEPT !.parent = nd, !.name = nn]
<1>1. s \in Ino \ {RootIno}
  BY EntryFact DEF CanRename
<1>2. TmpOK(rid)
  BY EntryFact, FreedOK
<1>3. Renamed(t, od, on, nd, nn)
        = IF rid.node[s].active THEN [rid EXCEPT !.node[s].parent = nd, !.node[s].name = nn]
          ELSE rid
  BY DEF Renamed
<1>4. ASSUME ~rid.torn, NEW j \in Ino \ {RootIno}, rid.node[j].active, rid.node[j].parent = nd
      PROVE  rid.node[j].name # nn
  <2>1. CASE Entries(t, nd, nn) = {}
    <3>1. rid = t
      BY <2>1
    <3> HIDE DEF rid
    <3>2. QED
      BY <1>4, <2>1, <3>1 DEF Entries
  <2>2. CASE Entries(t, nd, nn) # {}
    <3>1. /\ e \in Ino \ {RootIno} /\ t.node[e].active /\ t.node[e].name = nn
          /\ t.node[e].parent = nd
      BY <2>2, EntryFact
    <3> HIDE DEF e
    <3>2. rid.node = [t.node EXCEPT ![e] = [BlankInode EXCEPT !.type = t.node[e].type]]
      BY <2>2 DEF InodeFreed
    <3>3. t.node \in [Ino -> Inode] /\ t.torn = rid.torn
      BY <2>2, TypedFact DEF InodeFreed
    <3>4. rid.node[e].active = FALSE /\ \A c \in Ino \ {e} : rid.node[c] = t.node[c]
      BY <3>1, <3>2, <3>3 DEF BlankInode
    <3> HIDE DEF rid
    <3>5. j # e /\ rid.node[j] = t.node[j]
      BY <1>4, <3>4
    <3>6. t.node[j].parent = t.node[e].parent => t.node[j].name # t.node[e].name
      BY <1>4, <3>1, <3>3, <3>5 DEF TmpOK, Whole
    <3>7. QED
      BY <1>4, <3>1, <3>5, <3>6
  <2>3. QED
    BY <2>1, <2>2
<1> HIDE DEF s, rid
<1>5. CASE rid.node[s].active
  <2>1. /\ rid \in [node : [Ino -> Inode], used : Nat, torn : BOOLEAN] /\ rid.node[s] \in Inode
        /\ ~rid.torn => rid.used <= PageMax
    BY <1>1, <1>2, TypedFact
  <2>2. r \in Inode /\ r.page = rid.node[s].page /\ r.parent = nd /\ r.name = nn
    BY <2>1 DEF Inode
  <2>3. [rid EXCEPT !.node[s].parent = nd, !.node[s].name = nn]
          = [node |-> [rid.node EXCEPT ![s] = r], used |-> rid.used, torn |-> rid.torn]
    <3>1. [rid EXCEPT !.node[s].parent = nd, !.node[s].name = nn]
            = [rid EXCEPT !.node = [[rid.node EXCEPT ![s].parent = nd] EXCEPT ![s].name = nn]]
      BY <2>1
    <3>2. [[rid.node EXCEPT ![s].parent = nd] EXCEPT ![s].name = nn] = [rid.node EXCEPT ![s] = r]
      BY <1>1, <2>1
    <3> HIDE DEF r
    <3>3. QED
      BY <2>1, <3>1, <3>2
  <2> HIDE DEF r
  <2>4. rid.used \in Nat /\ rid.used + One(r.page) <= rid.used + One(rid.node[s].page)
    BY <2>1, <2>2 DEF One
  <2>5. ~rid.torn => \A j \in Ino \ {RootIno, s} :
          rid.node[j].active /\ rid.node[j].parent = r.parent => rid.node[j].name # r.name
    BY <1>4, <2>2
  <2>6. TmpOK([node |-> [rid.node EXCEPT ![s] = r], used |-> rid.used, torn |-> rid.torn])
    BY <1>1, <1>2, <2>1, <2>2, <2>4, <2>5, InodeStep
  <2>7. QED
    BY <1>3, <1>5, <2>3, <2>6
<1>6. CASE ~rid.node[s].active
  BY <1>2, <1>3, <1>6
<1>7. QED
  BY <1>5, <1>6

\* An inode that keeps its name and its place keeps the names apart.
LEMMA SameNameOK ==
  ASSUME NEW t, TmpOK(t), NEW i \in Ino, NEW r \in Inode, NEW k \in Nat,
         r.active = t.node[i].active, r.name = t.node[i].name, r.parent = t.node[i].parent,
         ~t.torn => k <= PageMax /\ t.used + One(r.page) <= k + One(t.node[i].page)
  PROVE  TmpOK([node |-> [t.node EXCEPT ![i] = r], used |-> k, torn |-> t.torn])
<1>1. i = RootIno => r.name = NoName
  BY TypedFact
<1>2. ~t.torn /\ i # RootIno /\ r.active =>
        \A j \in Ino \ {RootIno, i} :
          t.node[j].active /\ t.node[j].parent = r.parent => t.node[j].name # r.name
  BY DEF TmpOK, Whole
<1>3. QED
  BY <1>1, <1>2, InodeStep

LEMMA TruncatedOK ==
  ASSUME NEW t, TmpOK(t), NEW i \in Ino
  PROVE  TmpOK(Truncated(t, i))
<1> DEFINE r == [t.node[i] EXCEPT !.page = FALSE, !.size = 0]
           k == UsedWithout(t, i)
<1>1. t.node \in [Ino -> Inode] /\ t.node[i] \in Inode
  BY TypedFact
<1>2. /\ r \in Inode /\ r.page = FALSE /\ r.active = t.node[i].active
      /\ r.name = t.node[i].name /\ r.parent = t.node[i].parent
  <2>1. 0 \in 0..FileMax
    BY InoFact
  <2>2. QED
    BY <1>1, <2>1 DEF Inode
<1>3. Truncated(t, i) = [node |-> [t.node EXCEPT ![i] = r], used |-> k, torn |-> t.torn]
  <2>1. [t.node EXCEPT ![i].page = FALSE, ![i].size = 0] = [t.node EXCEPT ![i] = r]
    BY <1>1
  <2>2. QED
    BY <2>1 DEF Truncated
<1>4. /\ k \in Nat
      /\ ~t.torn => k <= PageMax /\ t.used + One(r.page) <= k + One(t.node[i].page)
  <2> HIDE DEF r
  <2>1. QED
    BY <1>2, UsedFact
<1> HIDE DEF r, k
<1>5. QED
  BY <1>2, <1>3, <1>4, SameNameOK

\* A write stays within the page and the pages within the limit.
LEMMA WrittenOK ==
  ASSUME NEW t, TmpOK(t), NEW i \in Ino, NEW off \in Nat, NEW n \in Nat, CanWrite(t, i, off)
  PROVE  /\ TmpOK(Written(t, i, off, n)) /\ WriteLen(off, n) \in Nat
         /\ Written(t, i, off, n).node[i].size \in 0..FileMax
<1> DEFINE w == WriteLen(off, n)
           z == Max({t.node[i].size, off + w})
           r == [t.node[i] EXCEPT !.page = TRUE, !.size = z]
           k == IF t.node[i].page THEN t.used ELSE t.used + 1
<1>1. /\ t.node \in [Ino -> Inode] /\ t.node[i] \in Inode /\ t.used \in Nat
      /\ ~t.torn => t.used <= PageMax
      /\ off < FileMax /\ (t.node[i].page \/ t.used < PageMax)
  BY TypedFact DEF CanWrite
<1>2. w \in Nat /\ off + w <= FileMax
  <2>1. {n, FileMax - off} \in SUBSET Nat /\ {n, FileMax - off} # {}
    BY <1>1, InoFact
  <2>2. w \in {n, FileMax - off} /\ \A y \in {n, FileMax - off} : w <= y
    BY <2>1, MinFact DEF WriteLen
  <2> HIDE DEF w
  <2>3. QED
    BY <1>1, <2>1, <2>2, InoFact
<1> HIDE DEF w
<1>3. z \in 0..FileMax
  <2> DEFINE a == t.node[i].size
             b == off + w
  <2>1. a \in 0..FileMax /\ b \in 0..FileMax
    BY <1>1, <1>2, InoFact DEF Inode
  <2> HIDE DEF a, b
  <2>2. \E x \in {a, b} : \A y \in {a, b} : x >= y
    BY <2>1, InoFact
  <2>3. Max({a, b}) \in {a, b}
    BY <2>2 DEF Max
  <2>4. QED
    BY <2>1, <2>3 DEF a, b
<1> HIDE DEF z
<1>4. /\ r \in Inode /\ r.page = TRUE /\ r.active = t.node[i].active /\ r.size = z
      /\ r.name = t.node[i].name /\ r.parent = t.node[i].parent
  BY <1>1, <1>3, InoFact DEF Inode
<1>5. Written(t, i, off, n) = [node |-> [t.node EXCEPT ![i] = r], used |-> k, torn |-> t.torn]
  <2>1. [t.node EXCEPT ![i].page = TRUE, ![i].size = Max({@, off + w})] = [t.node EXCEPT ![i] = r]
    BY <1>1 DEF z
  <2>2. QED
    BY <2>1 DEF Written, w
<1>6. /\ k \in Nat
      /\ ~t.torn => k <= PageMax /\ t.used + One(r.page) <= k + One(t.node[i].page)
  <2> HIDE DEF r
  <2>1. QED
    BY <1>1, <1>4, InoFact DEF One
<1> HIDE DEF r, k
<1>7. Written(t, i, off, n).node[i].size = z
  BY <1>1, <1>4, <1>5
<1>8. QED
  BY <1>2, <1>3, <1>4, <1>5, <1>6, <1>7, SameNameOK DEF w

-----------------------------------------------------------------------------
(* The calls, once their paths are resolved *)

LEMMA LastFact ==
  ASSUME NEW s \in Seq(Name), s # << >>
  PROVE  Last(s) \in Name
<1>1. Len(s) \in 1..Len(s)
  OBVIOUS
<1>2. QED
  BY <1>1 DEF Last

LEMMA GotFact ==
  ASSUME IInv, NEW p \in Proc, loc[p].pc = "got"
  PROVE  /\ loc[p] \in Loc /\ scratch \in Nat /\ TmpOK(tmp) /\ Holding(loc[p]) /\ Within(loc[p])
         /\ loc[p].pc \notin Elsewhere /\ loc[p].call \in PathCalls /\ loc[p].walk \in {1, 2}
         /\ loc[p].cur \in Vnode /\ loc[p].pin = NULL /\ loc[p].child = NULL
         /\ loc[p].par # NULL <=> loc[p].walk = 2 /\ Op(p) \in {"rename", "link"}
         /\ loc[p].walk = 2 => Op(p) \in {"rename", "link", "open"}
         /\ loc[p].buf = CallBufs(loc[p])
         /\ \/ Op(p) \in {"mkdir", "unlink", "rename"}
            \/ Op(p) = "open" /\ loc[p].walk = 2
            => Last(loc[p].call.path) \in Name
         /\ Op(p) \in {"rename", "link"} => Last(loc[p].call.to) \in Name
         /\ Writable(loc[p].cur) => vnode[loc[p].cur].ino \in Ino
<1>1. loc[p] \in Loc /\ scratch \in Nat /\ TmpOK(tmp) /\ Holding(loc[p]) /\ Within(loc[p])
  BY DEF IInv, Typed
<1>2. /\ loc[p].pc \notin Elsewhere /\ loc[p].call \in PathCalls /\ loc[p].walk \in {1, 2}
      /\ loc[p].walk = 2 => Op(p) \in {"rename", "link", "open"}
      /\ loc[p].walk = 2 /\ Op(p) = "open" => "creat" \in loc[p].call.flags
  BY <1>1 DEF Elsewhere, Handling, Within, Walking, Op
<1>3. /\ loc[p].cur \in Vnode /\ loc[p].pin = NULL /\ loc[p].child = NULL
      /\ loc[p].par # NULL <=> loc[p].walk = 2 /\ Op(p) \in {"rename", "link"}
      /\ loc[p].buf = CallBufs(loc[p])
  BY <1>1 DEF Loc, Holding, HasCur, HasChild, HasPar, Walking, Bufs, Op
<1>4. /\ \/ Op(p) \in {"mkdir", "unlink", "rename"}
         \/ Op(p) = "open" /\ loc[p].walk = 2
         => Last(loc[p].call.path) \in Name
      /\ Op(p) \in {"rename", "link"} => Last(loc[p].call.to) \in Name
  BY <1>2, PathAssumption, LastFact DEF Op
<1>5. ASSUME Writable(loc[p].cur) PROVE vnode[loc[p].cur].ino \in Ino
  <2>1. Fits(vnode[loc[p].cur])
    BY <1>3, HandActive
  <2>2. QED
    BY <1>5, <2>1 DEF Fits, Writable, InRoot
<1>6. QED
  BY <1>1, <1>2, <1>3, <1>4, <1>5

LEMMA StatKept ==
  ASSUME IInv, NEW p \in Proc, Stat(p), UNCHANGED <<file, fdmap, io>>
  PROVE  IInv'
<1> DEFINE D == {"cur"}
<1>1. /\ loc[p].pc = "got" /\ Op(p) \in {"stat", "lstat"} /\ Return(p, D, 0)
      /\ UNCHANGED <<mnt, tmp>>
  BY DEF Stat, At
<1>2. TmpOK(tmp') /\ loc[p].pc \notin Elsewhere /\ loc[p].buf = 0
  BY <1>1, GotFact DEF CallBufs, Op
<1>3. D \in SUBSET Hands /\ \A h \in Hands \ D : loc[p][h] = NULL
  BY <1>1, GotFact DEF Hands
<1> HIDE DEF D
<1>4. QED
  BY <1>1, <1>2, <1>3, ReturnKept

LEMMA MkdirKept ==
  ASSUME IInv, NEW p \in Proc, Mkdir(p), UNCHANGED <<file, fdmap, io>>
  PROVE  IInv'
<1> DEFINE D == {"cur"}
           d == loc[p].cur
           n == Last(loc[p].call.path)
<1>1. /\ loc[p].pc = "got" /\ Op(p) = "mkdir" /\ Return(p, D, 1) /\ UNCHANGED mnt
      /\ tmp' = IF Writable(d) /\ CanCreate(tmp, vnode[d].ino, n)
                THEN Created(tmp, vnode[d].ino, n, "DIR") ELSE tmp
  BY DEF Mkdir, At
<1>2. /\ loc[p].pc \notin Elsewhere /\ loc[p].buf = 1 /\ TmpOK(tmp) /\ n \in Name
      /\ Writable(d) => vnode[d].ino \in Ino
  BY <1>1, GotFact DEF CallBufs, Op
<1>3. TmpOK(tmp')
  BY <1>1, <1>2, CreatedOK
<1>4. D \in SUBSET Hands /\ \A h \in Hands \ D : loc[p][h] = NULL
  BY <1>1, GotFact DEF Hands
<1> HIDE DEF D
<1>5. QED
  BY <1>1, <1>2, <1>3, <1>4, ReturnKept

LEMMA UnlinkKept ==
  ASSUME IInv, NEW p \in Proc, Unlink(p), UNCHANGED <<file, fdmap, io>>
  PROVE  IInv'
<1> DEFINE D == {"cur"}
           d == loc[p].cur
           n == Last(loc[p].call.path)
<1>1. /\ loc[p].pc = "got" /\ Op(p) = "unlink" /\ Return(p, D, 1) /\ UNCHANGED mnt
      /\ tmp' = IF Writable(d) /\ CanUnlink(tmp, vnode[d].ino, n)
                THEN Unlinked(tmp, vnode[d].ino, n) ELSE tmp
  BY DEF Unlink, At
<1>2. loc[p].pc \notin Elsewhere /\ loc[p].buf = 1 /\ TmpOK(tmp) /\ n \in Name
  BY <1>1, GotFact DEF CallBufs, Op
<1>3. TmpOK(tmp')
  BY <1>1, <1>2, UnlinkedOK
<1>4. D \in SUBSET Hands /\ \A h \in Hands \ D : loc[p][h] = NULL
  BY <1>1, GotFact DEF Hands
<1> HIDE DEF D
<1>5. QED
  BY <1>1, <1>2, <1>3, <1>4, ReturnKept

LEMMA RenameKept ==
  ASSUME IInv, NEW p \in Proc, Rename(p), UNCHANGED <<file, fdmap, io>>
  PROVE  IInv'
<1> DEFINE D == {"par", "cur"}
           o == loc[p].par
           d == loc[p].cur
           on == Last(loc[p].call.path)
           nn == Last(loc[p].call.to)
<1>1. /\ loc[p].pc = "got" /\ Op(p) = "rename" /\ Return(p, D, 2) /\ UNCHANGED mnt
      /\ tmp' = IF /\ Writable(o) /\ Writable(d) /\ vnode[o].mount = vnode[d].mount
                   /\ CanRename(tmp, vnode[o].ino, on, vnode[d].ino, nn)
                THEN Renamed(tmp, vnode[o].ino, on, vnode[d].ino, nn) ELSE tmp
  BY DEF Rename, At
<1>2. /\ loc[p].pc \notin Elsewhere /\ loc[p].buf = 2 /\ TmpOK(tmp) /\ on \in Name /\ nn \in Name
      /\ Writable(d) => vnode[d].ino \in Ino
  BY <1>1, GotFact DEF CallBufs, Op
<1>3. TmpOK(tmp')
  BY <1>1, <1>2, RenamedOK
<1>4. D \in SUBSET Hands /\ \A h \in Hands \ D : loc[p][h] = NULL
  BY <1>1, GotFact DEF Hands
<1> HIDE DEF D
<1>5. QED
  BY <1>1, <1>2, <1>3, <1>4, ReturnKept

LEMMA LinkRefusedKept ==
  ASSUME IInv, NEW p \in Proc, LinkRefused(p), UNCHANGED <<file, fdmap, io>>
  PROVE  IInv'
<1> DEFINE D == {"cur", "par"}
<1>1. /\ loc[p].pc = "got" /\ Op(p) = "link" /\ loc[p].walk = 2 /\ Return(p, D, 1)
      /\ UNCHANGED <<mnt, tmp>>
  BY DEF LinkRefused, At
<1>2. TmpOK(tmp') /\ loc[p].pc \notin Elsewhere /\ loc[p].buf = 1
  BY <1>1, GotFact DEF CallBufs, Op
<1>3. D \in SUBSET Hands /\ \A h \in Hands \ D : loc[p][h] = NULL
  BY <1>1, GotFact DEF Hands
<1> HIDE DEF D
<1>4. QED
  BY <1>1, <1>2, <1>3, ReturnKept

\* The second walk of a call: its first result, if it keeps one, is the parent.
LEMMA AgainKept ==
  ASSUME IInv, NEW p \in Proc, NEW b \in Nat, NEW f \in Loc, Again(p, b, f),
         loc[p].pc \notin Elsewhere, loc[p].call \in PathCalls,
         Op(p) \in {"rename", "link", "open"},
         Op(p) = "open" => "creat" \in loc[p].call.flags,
         f.call = loc[p].call, f.cur = NULL, f.pin = NULL, f.child = NULL, f.buf = loc[p].buf,
         \A v \in Vnode : Held(f, v) = Held(loc[p], v),
         f.par # NULL <=> Op(p) \in {"rename", "link"},
         loc[p].buf + b = IF Op(p) = "rename" THEN 2 ELSE 1,
         scratch' \in Nat, scratch = scratch' + b,
         UNCHANGED <<vnode, mnt, tmp, file, fdmap, io>>
  PROVE  IInv'
<1> DEFINE r == [f EXCEPT !.pc = "norm", !.walk = 2, !.loops = 0,
                   !.todo = Components(loc[p].call, 2), !.done = << >>, !.buf = @ + b]
<1>1. loc' = [loc EXCEPT ![p] = r]
  BY DEF Again, Move
<1>2. loc[p].buf \in Nat /\ scratch \in Nat /\ TmpOK(tmp')
  BY DEF IInv, Typed, Loc
<1>3. r \in Loc
  <2>1. Components(loc[p].call, 2) \in Seq(Name) /\ << >> \in Seq(Name)
    BY ComponentsFact DEF Op
  <2>2. "norm" \in Points /\ 2 \in 0..2 /\ f.buf + b \in Nat
    BY <1>2 DEF Points, Walking
  <2>3. QED
    BY <2>1, <2>2 DEF Loc
<1>4. /\ r.pc = "norm" /\ r.walk = 2 /\ r.call = loc[p].call /\ r.buf = loc[p].buf + b
      /\ r.cur = NULL /\ r.pin = NULL /\ r.child = NULL /\ r.par = f.par
  BY DEF Loc
<1> HIDE DEF r
<1>5. CallBufs(r) = IF Op(p) = "rename" THEN 2 ELSE 1
  BY <1>4 DEF CallBufs, Op
<1>6. Holding(r)
  BY <1>4, <1>5 DEF Holding, HasCur, HasChild, HasPar, Walking, Bufs, Op
<1>7. Within(r)
  BY <1>4 DEF Within, Walking, Calling, Mounting, Op
<1>8. \A v \in Vnode : Held(r, v) = Held(loc[p], v)
  <2>1. \A v \in Vnode : Held(r, v) = Held(f, v)
    BY <1>4 DEF Held
  <2>2. QED
    BY <2>1
<1>9. scratch' + r.buf = scratch + loc[p].buf
  BY <1>2, <1>4
<1>10. r.pc \notin Mounting \cup Elsewhere /\ r.pc \notin {"link", "readlink"}
  BY <1>4 DEF Elsewhere, Handling, Mounting
<1>11. QED
  BY <1>1, <1>2, <1>3, <1>6, <1>7, <1>8, <1>9, <1>10, QuietKept

LEMMA RenameToKept ==
  ASSUME IInv, NEW p \in Proc, RenameTo(p), UNCHANGED <<file, fdmap, io>>
  PROVE  IInv'
<1> DEFINE f == [loc[p] EXCEPT !.par = loc[p].cur, !.cur = NULL]
<1>1. /\ loc[p].pc = "got" /\ Op(p) = "rename" /\ loc[p].walk = 1 /\ Again(p, 0, f)
      /\ UNCHANGED <<vnode, mnt, tmp, scratch>>
  BY DEF RenameTo, At
<1>2. /\ loc[p] \in Loc /\ scratch \in Nat /\ loc[p].pc \notin Elsewhere /\ loc[p].call \in PathCalls
      /\ loc[p].cur \in Vnode /\ loc[p].pin = NULL /\ loc[p].child = NULL /\ loc[p].par = NULL
      /\ loc[p].buf = 2
  BY <1>1, GotFact DEF CallBufs, Op
<1>3. /\ f \in Loc /\ f.call = loc[p].call /\ f.cur = NULL /\ f.pin = NULL /\ f.child = NULL
      /\ f.par = loc[p].cur /\ f.buf = loc[p].buf
  BY <1>2 DEF Loc
<1> HIDE DEF f
<1>4. \A v \in Vnode : Held(f, v) = Held(loc[p], v)
  BY <1>2, <1>3, Constants DEF Held, One
<1>5. f.par # NULL
  BY <1>2, <1>3, Constants
<1>6. 0 \in Nat /\ loc[p].buf + 0 = 2 /\ scratch' \in Nat /\ scratch = scratch' + 0
  BY <1>1, <1>2
<1>7. QED
  BY <1>1, <1>2, <1>3, <1>4, <1>5, <1>6, AgainKept

LEMMA LinkToKept ==
  ASSUME IInv, NEW p \in Proc, LinkTo(p), UNCHANGED <<file, fdmap, io>>
  PROVE  IInv'
<1>1. loc[p].pc = "got" /\ Op(p) = "link" /\ loc[p].walk = 1 /\ UNCHANGED <<mnt, tmp>>
  BY DEF LinkTo, At
<1>2. /\ loc[p] \in Loc /\ scratch \in Nat /\ loc[p].pc \notin Elsewhere /\ loc[p].call \in PathCalls
      /\ loc[p].cur \in Vnode /\ loc[p].pin = NULL /\ loc[p].child = NULL /\ loc[p].par = NULL
      /\ loc[p].buf = 0 /\ TmpOK(tmp)
  BY <1>1, GotFact DEF CallBufs, Op
<1>3. CASE scratch = 0
  <2> DEFINE D == {"cur"}
  <2>1. Return(p, D, 0) /\ D \in SUBSET Hands /\ \A h \in Hands \ D : loc[p][h] = NULL
    BY <1>2, <1>3 DEF LinkTo, Hands
  <2> HIDE DEF D
  <2>2. QED
    BY <1>1, <1>2, <2>1, ReturnKept
<1>4. CASE scratch # 0
  <2> DEFINE f == [loc[p] EXCEPT !.par = loc[p].cur, !.cur = NULL]
  <2>1. Again(p, 1, f) /\ scratch' = scratch - 1 /\ UNCHANGED vnode
    BY <1>4 DEF LinkTo
  <2>2. /\ f \in Loc /\ f.call = loc[p].call /\ f.cur = NULL /\ f.pin = NULL /\ f.child = NULL
        /\ f.par = loc[p].cur /\ f.buf = loc[p].buf
    BY <1>2 DEF Loc
  <2> HIDE DEF f
  <2>3. \A v \in Vnode : Held(f, v) = Held(loc[p], v)
    BY <1>2, <2>2, Constants DEF Held, One
  <2>4. f.par # NULL
    BY <1>2, <2>2, Constants
  <2>5. 1 \in Nat /\ loc[p].buf + 1 = 1 /\ scratch' \in Nat /\ scratch = scratch' + 1
    BY <1>2, <1>4, <2>1
  <2>6. QED
    BY <1>1, <1>2, <2>1, <2>2, <2>3, <2>4, <2>5, AgainKept
<1>5. QED
  BY <1>3, <1>4

-----------------------------------------------------------------------------
(* The mount table *)

Quiet(r) == r.cur = NULL /\ r.pin = NULL /\ r.child = NULL /\ r.par = NULL /\ r.buf = 0

LEMMA QuietHolds ==
  ASSUME NEW r, Quiet(r)
  PROVE  /\ \A v \in Vnode : Held(r, v) = 0
         /\ r.pc \in {"idle"} \cup Mounting \cup Handling \cup {"namebuf"} => Holding(r)
<1>1. \A v \in Vnode : Held(r, v) = 0
  BY Constants DEF Quiet, Held, One
<1>2. r.pc \in {"idle"} \cup Mounting \cup Handling \cup {"namebuf"} => Holding(r)
  BY DEF Quiet, Holding, HasCur, HasChild, HasPar, Walking, Bufs, Mounting, Handling
<1>3. QED
  BY <1>1, <1>2

LEMMA HoldsQuiet ==
  ASSUME NEW r, Holding(r), r.pc \in {"idle"} \cup Mounting \cup Handling \cup {"namebuf"}
  PROVE  Quiet(r)
  BY DEF Quiet, Holding, HasCur, HasChild, HasPar, Walking, Bufs, Mounting, Handling

MountChange(p, r, s, m) ==
  /\ loc' = [loc EXCEPT ![p] = r] /\ Quiet(loc[p]) /\ Quiet(r)
  /\ mnt' = [mnt EXCEPT ![s] = m] /\ UNCHANGED <<file, io>>

LEMMA MountCounts ==
  ASSUME IInv, NEW p \in Proc, NEW r \in Loc, NEW s \in Slot, NEW m \in MountType,
         MountChange(p, r, s, m), NEW v \in Vnode, vnode'[v].refcnt \in Nat,
         vnode'[v].refcnt + Same(mnt[s].root, v) = vnode[v].refcnt + Same(m.root, v)
  PROVE  vnode'[v].refcnt = InHands(v)' + Closing(v)' + InFiles(v)' + AsRoot(v)'
<1>1. /\ Typed /\ VnodeRefs /\ loc \in [Proc -> Loc] /\ mnt \in [Slot -> MountType]
      /\ vnode[v].refcnt \in Nat
  BY DEF IInv, Typed, Fields
<1>2. vnode[v].refcnt = InHands(v) + Closing(v) + InFiles(v) + AsRoot(v)
  BY <1>1, RefsSum
<1>3. InHands(v)' \in Nat /\ InHands(v)' + Held(loc[p], v) = InHands(v) + Held(r, v)
  BY <1>1, HandsStep DEF MountChange
<1>4. AsRoot(v)' \in Nat /\ AsRoot(v)' + Same(mnt[s].root, v) = AsRoot(v) + Same(m.root, v)
  BY <1>1, RootsStep DEF MountChange
<1>5. Closing(v)' = Closing(v) /\ InFiles(v)' = InFiles(v)
  BY DEF Closing, InFiles, MountChange
<1>6. /\ InHands(v) \in Nat /\ Held(loc[p], v) = 0 /\ Held(r, v) = 0
      /\ Closing(v) \in Nat /\ InFiles(v) \in Nat /\ AsRoot(v) \in Nat
  BY HandsNat, OthersNat, QuietHolds DEF InHands, MountChange
<1>7. Same(mnt[s].root, v) \in Nat /\ Same(m.root, v) \in Nat
  BY DEF Same
<1>8. QED
  BY <1>1, <1>2, <1>3, <1>4, <1>5, <1>6, <1>7

\* A step that changes one slot of the mount table and its root: what it does to
\* the vnodes, and which process takes it.
MountOf(s, m) ==
  /\ mnt' = [mnt EXCEPT ![s] = m] /\ vnode' \in [Vnode -> Fields]
  /\ \A v \in Vnode : vnode'[v].refcnt + Same(mnt[s].root, v)
                      = vnode[v].refcnt + Same(m.root, v)
  /\ \A v \in Vnode : vnode'[v] = vnode[v] \/ vnode[v].refcnt = 0 \/ mnt[s].root = v
  /\ \A v \in Vnode : \/ vnode'[v] = BlankVnode
                      \/ /\ vnode'[v].refcnt > 0 /\ Fits(vnode'[v])
                         /\ \/ vnode'[v].mount = s /\ m.state = "ACTIVE"
                            \/ vnode'[v].mount = s /\ m.root = v /\ vnode'[v].refcnt = 1
                            \/ vnode'[v].mount # s /\ vnode'[v] = vnode[v]
  /\ m.state = "FREE" => m.root = NULL
  /\ m.state = "ACTIVE" => m.root # NULL
  /\ m.root # NULL => vnode'[m.root].mount = s /\ vnode'[m.root].type = "DIR"

MountBy(p, r, s, m) ==
  /\ loc' = [loc EXCEPT ![p] = r] /\ Quiet(loc[p]) /\ Quiet(r) /\ Within(r)
  /\ r.pc \in {"idle"} \cup Mounting /\ loc[p].pc \in {"idle"} \cup Mounting
  /\ \A q \in Proc \ {p} : loc[q].pc \in Mounting => loc[q].slot # s
  /\ r.pc \in Mounting => /\ r.slot = s /\ m.state = "MOUNTING"
                          /\ r.pc = "fs_mount" <=> m.root = NULL

LEMMA MountKept ==
  ASSUME IInv, NEW p \in Proc, NEW r \in Loc, NEW s \in Slot \ {RootSlot}, NEW m \in MountType,
         MountBy(p, r, s, m), MountOf(s, m),
         UNCHANGED <<scratch, file, fdmap, io>>, TmpOK(tmp')
  PROVE  IInv'
<1> USE DEF MountBy, MountOf
<1>1. /\ Typed /\ VnodesFit /\ MountsFit /\ VnodeRefs /\ BuffersReturned
      /\ \A q \in Proc : Holding(loc[q]) /\ Within(loc[q])
      /\ \A q \in Proc : MakingMount(q) /\ AtLink(q)
  BY DEF IInv
<1>2. /\ loc \in [Proc -> Loc] /\ vnode \in [Vnode -> Fields] /\ mnt \in [Slot -> MountType]
      /\ scratch \in Nat
  BY <1>1 DEF Typed
<1>3. loc'[p] = r /\ \A q \in Proc \ {p} : loc'[q] = loc[q]
  BY <1>2
<1>4. mnt'[s] = m /\ (\A c \in Slot \ {s} : mnt'[c] = mnt[c]) /\ mnt' \in [Slot -> MountType]
  BY <1>2
<1>5. Holding(r)
  BY QuietHolds
<1>6. Typed'
  BY <1>1, <1>2, <1>4 DEF Typed
<1>7. \A q \in Proc : Holding(loc'[q]) /\ Within(loc'[q])
  BY <1>1, <1>3, <1>5
<1>8. VnodeRefs'
  <2>1. ASSUME NEW v \in Vnode
        PROVE  vnode'[v].refcnt = InHands(v)' + Closing(v)' + InFiles(v)' + AsRoot(v)'
    <3>1. vnode'[v].refcnt \in Nat /\ s \in Slot
      BY DEF Fields
    <3>2. vnode'[v].refcnt + Same(mnt[s].root, v) = vnode[v].refcnt + Same(m.root, v)
      OBVIOUS
    <3>3. MountChange(p, r, s, m)
      BY DEF MountChange
    <3>4. QED
      BY <3>1, <3>2, <3>3, MountCounts
  <2>2. QED
    BY <2>1 DEF VnodeRefs, InHands, HandCount, Closing, InFiles, AsRoot
<1>9. BuffersReturned'
  <2>1. scratch' \in Nat /\ scratch' + r.buf = scratch + loc[p].buf
    BY <1>2 DEF Quiet
  <2>2. QED
    BY <1>1, <1>2, <1>5, <2>1, BufsStep
<1>10. DescRefs' /\ FilesFit' /\ \A q \in Proc : Handles(q)'
  <2>1. loc[p].pc \notin Elsewhere /\ r.pc \notin Elsewhere
    BY DEF Elsewhere, Handling, Mounting
  <2>2. QED
    BY <2>1, FdSame
<1>11. VnodesFit'
  <2>1. SUFFICES ASSUME NEW v \in Vnode
                 PROVE  \/ vnode'[v] = BlankVnode
                        \/ vnode'[v].refcnt > 0 /\ Fits(vnode'[v]) /\ Mounted(v)'
    BY DEF VnodesFit
  <2>2. CASE vnode'[v].mount = s /\ vnode'[v] # BlankVnode
    BY <1>4, <2>2 DEF Mounted
  <2>3. CASE vnode'[v].mount # s /\ vnode'[v] # BlankVnode
    <3>1. vnode'[v] = vnode[v] /\ vnode'[v].refcnt > 0 /\ Fits(vnode'[v])
      BY <2>3
    <3>2. Mounted(v) /\ vnode[v].mount \in Slot
      BY <1>1, <2>3, <3>1, Constants DEF VnodesFit, Fits
    <3>3. mnt'[vnode[v].mount] = mnt[vnode[v].mount]
      BY <1>4, <2>3, <3>1, <3>2
    <3>4. QED
      BY <3>1, <3>2, <3>3 DEF Mounted
  <2>4. QED
    BY <2>2, <2>3
<1>12. MountsFit'
  <2>1. mnt'[RootSlot] = [state |-> "ACTIVE", path |-> << >>, root |-> RootVnode]
    BY <1>1, <1>4, Constants DEF MountsFit
  <2>2. ASSUME NEW c \in Slot \ {s}, mnt[c].root # NULL
        PROVE  vnode'[mnt[c].root].mount = c /\ vnode'[mnt[c].root].type = "DIR"
    <3>1. PICK v \in Vnode : v = mnt[c].root
      BY <1>2, <2>2 DEF MountType
    <3>2. vnode[v].mount = c /\ vnode[v].type = "DIR" /\ vnode[v].refcnt > 0
      BY <1>1, <2>2, <3>1, Referred DEF MountsFit
    <3>3. mnt[s].root # v
      BY <1>1, <3>1, <3>2, Constants DEF MountsFit
    <3>4. vnode'[v] = vnode[v]
      BY <3>2, <3>3
    <3>5. QED
      BY <3>1, <3>2, <3>4
  <2>3. ASSUME NEW c \in Slot
        PROVE  /\ mnt'[c].state = "FREE" => mnt'[c].root = NULL
               /\ mnt'[c].state = "ACTIVE" => mnt'[c].root # NULL
               /\ mnt'[c].root # NULL => /\ vnode'[mnt'[c].root].mount = c
                                         /\ vnode'[mnt'[c].root].type = "DIR"
    <3>1. CASE c = s
      BY <1>4, <3>1
    <3>2. CASE c # s
      <4>1. mnt'[c] = mnt[c]
        BY <1>4, <3>2
      <4>2. QED
        BY <1>1, <2>2, <3>2, <4>1 DEF MountsFit
    <3>3. QED
      BY <3>1, <3>2
  <2>4. QED
    BY <2>1, <2>3 DEF MountsFit
<1>13. ASSUME NEW q \in Proc PROVE MakingMount(q)'
  <2>1. CASE q = p
    <3>1. loc'[q] = r
      BY <1>3, <2>1
    <3>2. QED
      BY <1>3, <1>4, <2>1, <3>1 DEF MakingMount
  <2>2. CASE q # p /\ loc[q].pc \in Mounting
    <3>1. loc'[q] = loc[q] /\ loc[q].slot # s /\ loc[q].slot \in Slot
      BY <1>1, <1>3, <2>2 DEF Within
    <3>2. mnt'[loc[q].slot] = mnt[loc[q].slot]
      BY <1>4, <3>1
    <3>3. MakingMount(q)
      BY <1>1
    <3>4. \A x \in Proc \ {q} : loc'[x].pc \in Mounting => loc'[x].slot # loc[q].slot
      BY <1>3, <2>2, <3>1, <3>3 DEF MakingMount
    <3>5. QED
      BY <2>2, <3>1, <3>2, <3>3, <3>4 DEF MakingMount
  <2>3. CASE q # p /\ loc[q].pc \notin Mounting
    BY <1>3, <2>3 DEF MakingMount
  <2>4. QED
    BY <2>1, <2>2, <2>3
<1>14. ASSUME NEW q \in Proc PROVE AtLink(q)'
  <2>1. CASE q = p
    BY <1>3, <2>1 DEF AtLink, Mounting
  <2>2. CASE q # p /\ loc[q].pc \in {"link", "readlink"}
    <3>1. loc'[q] = loc[q] /\ Holding(loc[q]) /\ loc[q] \in Loc
      BY <1>1, <1>2, <1>3, <2>2
    <3>2. PICK v \in Vnode : v = loc[q].child
      BY <2>2, <3>1 DEF Holding, HasChild, Loc
    <3>3. vnode[v].refcnt > 0 /\ vnode[v].type = "SYMLINK"
      BY <1>1, <2>2, <3>2, Referred DEF AtLink
    <3>4. mnt[s].root # v
      BY <1>1, <3>3, Constants DEF MountsFit
    <3>5. vnode'[v] = vnode[v]
      BY <3>3, <3>4
    <3>6. QED
      BY <3>1, <3>2, <3>3, <3>5 DEF AtLink
  <2>3. CASE q # p /\ loc[q].pc \notin {"link", "readlink"}
    BY <1>3, <2>3 DEF AtLink
  <2>4. QED
    BY <2>1, <2>2, <2>3
<1>15. QED
  BY <1>6, <1>7, <1>8, <1>9, <1>10, <1>11, <1>12, <1>13, <1>14 DEF IInv

\* No vnode in use belongs to a mount that is not active and has no root.
LEMMA NoneOf ==
  ASSUME IInv, NEW s \in Slot, mnt[s].state # "ACTIVE", mnt[s].root = NULL, NEW v \in Vnode,
         vnode[v] # BlankVnode
  PROVE  vnode[v].mount # s /\ vnode[v].refcnt > 0 /\ Fits(vnode[v])
  BY Constants DEF IInv, VnodesFit, Mounted

LEMMA MountReserveKept ==
  ASSUME IInv, NEW p \in Proc, NEW path \in MountPaths, MountReserve(p, path),
         UNCHANGED <<file, fdmap, io>>
  PROVE  IInv'
<1> DEFINE free == {c \in Slot : mnt[c].state = "FREE"}
           s == Min(free)
           m == [state |-> "MOUNTING", path |-> path, root |-> NULL]
           r == [loc[p] EXCEPT !.pc = "fs_mount", !.slot = s]
<1>1. /\ loc[p].pc = "idle" /\ free # {} /\ mnt' = [mnt EXCEPT ![s] = m]
      /\ loc' = [loc EXCEPT ![p] = r] /\ UNCHANGED <<vnode, scratch>>
  BY DEF MountReserve, At, Move
<1>1a. TmpOK(tmp')
  <2> DEFINE b == tmp.torn \/ \E c \in Slot \ {RootSlot} : mnt[c].state # "FREE"
  <2>1. tmp' = [tmp EXCEPT !.torn = b]
    BY DEF MountReserve
  <2>2. TmpOK(tmp) /\ b \in BOOLEAN /\ (tmp.torn => b)
    BY DEF IInv
  <2> HIDE DEF b
  <2>3. QED
    BY <2>1, <2>2, TornOK
<1>2. s \in Slot /\ mnt[s].state = "FREE"
  <2>1. free \in SUBSET Nat
    BY Constants
  <2>2. s \in free
    BY <1>1, <2>1, MinFact
  <2>3. QED
    BY <2>2
<1> HIDE DEF free, s
<1>3. /\ loc[p] \in Loc /\ Holding(loc[p]) /\ vnode \in [Vnode -> Fields] /\ TmpOK(tmp')
      /\ MountsFit /\ \A q \in Proc : Within(loc[q]) /\ MakingMount(q)
  BY <1>1, <1>1a DEF IInv, Typed
<1>4. Quiet(loc[p])
  BY <1>1, <1>3, HoldsQuiet
<1>5. r \in Loc
  <2>1. "fs_mount" \in Points
    BY DEF Points, Mounting
  <2>2. QED
    BY <1>2, <1>3, <2>1 DEF Loc
<1>6. /\ r.pc = "fs_mount" /\ r.slot = s /\ r.cur = loc[p].cur /\ r.pin = loc[p].pin
      /\ r.child = loc[p].child /\ r.par = loc[p].par /\ r.buf = loc[p].buf
  BY <1>3 DEF Loc
<1> HIDE DEF r
<1>7. Quiet(r)
  BY <1>4, <1>6 DEF Quiet
<1>8. Within(r)
  BY <1>2, <1>6 DEF Within, Calling, Walking, Mounting
<1>9. m \in MountType /\ m.state = "MOUNTING" /\ m.root = NULL
  BY PathAssumption DEF MountType
<1> HIDE DEF m
<1>10. mnt[s].root = NULL /\ s # RootSlot /\ mnt[s].state # "ACTIVE"
  BY <1>2, <1>3 DEF MountsFit
<1>11. \A v \in Vnode : vnode'[v].refcnt + Same(mnt[s].root, v) = vnode[v].refcnt + Same(m.root, v)
  BY <1>1, <1>9, <1>10
<1>12. \A v \in Vnode : \/ vnode'[v] = BlankVnode
                        \/ /\ vnode'[v].refcnt > 0 /\ Fits(vnode'[v])
                           /\ vnode'[v].mount # s /\ vnode'[v] = vnode[v]
  BY <1>1, <1>2, <1>10, NoneOf
<1>13. \A q \in Proc \ {p} : loc[q].pc \in Mounting => loc[q].slot # s
  BY <1>2, <1>3 DEF MakingMount
<1>14. loc[p].pc \in {"idle"} \cup Mounting /\ r.pc \in {"idle"} \cup Mounting
  BY <1>1, <1>6 DEF Mounting
<1>15. MountBy(p, r, s, m)
  BY <1>1, <1>4, <1>6, <1>7, <1>8, <1>9, <1>13, <1>14 DEF MountBy
<1>16. MountOf(s, m)
  BY <1>1, <1>3, <1>9, <1>11, <1>12 DEF MountOf
<1>17. QED
  BY <1>1, <1>2, <1>3, <1>5, <1>9, <1>10, <1>15, <1>16, MountKept

LEMMA IdleQuiet == Quiet(Idle) /\ Idle \in Loc /\ Within(Idle) /\ Idle.pc = "idle"
  BY IdleFact DEF Quiet, Idle

\* What a process that makes a mount knows of its slot.
LEMMA MakingFact ==
  ASSUME IInv, NEW p \in Proc, loc[p].pc \in Mounting
  PROVE  /\ loc[p] \in Loc /\ Quiet(loc[p]) /\ loc[p].slot \in Slot \ {RootSlot}
         /\ mnt[loc[p].slot] \in MountType /\ mnt[loc[p].slot].state = "MOUNTING"
         /\ loc[p].pc = "fs_mount" <=> mnt[loc[p].slot].root = NULL
         /\ \A q \in Proc \ {p} : loc[q].pc \in Mounting => loc[q].slot # loc[p].slot
<1>1. /\ loc[p] \in Loc /\ Holding(loc[p]) /\ Within(loc[p]) /\ MakingMount(p) /\ MountsFit
      /\ mnt \in [Slot -> MountType]
  BY DEF IInv, Typed
<1>2. Quiet(loc[p])
  BY <1>1, HoldsQuiet
<1>3. loc[p].slot \in Slot /\ mnt[loc[p].slot].state = "MOUNTING"
  BY <1>1 DEF Within, MakingMount
<1>4. loc[p].slot # RootSlot
  BY <1>1, <1>3 DEF MountsFit
<1>5. QED
  BY <1>1, <1>2, <1>3, <1>4 DEF MakingMount

LEMMA NothingReleased ==
  ASSUME IInv, NEW p \in Proc
  PROVE  Released(vnode, p, {}) = vnode
<1>1. vnode \in [Vnode -> Fields]
  BY DEF IInv, Typed
<1>2. ASSUME NEW v \in Vnode PROVE Cardinality({h \in {} : loc[p][h] = v}) = 0
  <2>1. {h \in {} : loc[p][h] = v} = {}
    OBVIOUS
  <2>2. QED
    BY <2>1, FS_EmptySet
<1>3. Released(vnode, p, {}) = [v \in Vnode |-> vnode[v]]
  BY <1>2 DEF Released
<1>4. QED
  BY <1>1, <1>3

LEMMA ActivateKept ==
  ASSUME IInv, NEW p \in Proc, Activate(p), UNCHANGED <<file, fdmap, io>>
  PROVE  IInv'
<1> DEFINE s == loc[p].slot
           m == [mnt[s] EXCEPT !.state = "ACTIVE"]
<1>1. /\ loc[p].pc = "activate" /\ mnt' = [mnt EXCEPT ![s].state = "ACTIVE"]
      /\ Return(p, {}, 0) /\ UNCHANGED tmp
  BY DEF Activate, At
<1>2. loc[p].pc \in Mounting /\ loc[p].pc # "fs_mount" /\ loc[p].pc \in {"idle"} \cup Mounting
  BY <1>1 DEF Mounting
<1>3. /\ loc[p] \in Loc /\ Quiet(loc[p]) /\ s \in Slot \ {RootSlot} /\ mnt[s] \in MountType
      /\ mnt[s].state = "MOUNTING" /\ mnt[s].root # NULL
      /\ \A q \in Proc \ {p} : loc[q].pc \in Mounting => loc[q].slot # s
  BY <1>2, MakingFact
<1> HIDE DEF s
<1>4. /\ mnt \in [Slot -> MountType] /\ vnode \in [Vnode -> Fields] /\ scratch \in Nat
      /\ TmpOK(tmp') /\ VnodesFit /\ MountsFit
  BY <1>1 DEF IInv, Typed
<1>5. vnode' = vnode /\ scratch' = scratch /\ loc' = [loc EXCEPT ![p] = Idle]
  BY <1>1, <1>4, NothingReleased DEF Return
<1>6. mnt' = [mnt EXCEPT ![s] = m]
  BY <1>1, <1>3, <1>4
<1>7. m \in MountType /\ m.state = "ACTIVE" /\ m.root = mnt[s].root
  BY <1>3 DEF MountType
<1> HIDE DEF m
<1>8. \A v \in Vnode : vnode'[v].refcnt + Same(mnt[s].root, v) = vnode[v].refcnt + Same(m.root, v)
  BY <1>5, <1>7
<1>9. \A v \in Vnode : \/ vnode'[v] = BlankVnode
                       \/ /\ vnode'[v].refcnt > 0 /\ Fits(vnode'[v])
                          /\ \/ vnode'[v].mount = s /\ m.state = "ACTIVE"
                             \/ vnode'[v].mount # s /\ vnode'[v] = vnode[v]
  BY <1>4, <1>5, <1>7 DEF VnodesFit
<1>10. vnode'[m.root].mount = s /\ vnode'[m.root].type = "DIR"
  BY <1>3, <1>4, <1>5, <1>7 DEF MountsFit
<1>11. Idle.pc \notin Mounting /\ Idle.pc \in {"idle"} \cup Mounting
  BY IdleQuiet DEF Mounting
<1>12. MountBy(p, Idle, s, m)
  BY <1>2, <1>3, <1>5, <1>11, IdleQuiet DEF MountBy
<1>13. MountOf(s, m)
  BY <1>3, <1>4, <1>5, <1>6, <1>7, <1>8, <1>9, <1>10 DEF MountOf
<1>14. QED
  BY <1>3, <1>4, <1>5, <1>7, <1>12, <1>13, IdleQuiet, MountKept

LEMMA FsMountKept ==
  ASSUME IInv, NEW p \in Proc, FsMount(p), UNCHANGED <<file, fdmap, io>>
  PROVE  IInv'
<1> DEFINE s == loc[p].slot
<1>1. loc[p].pc = "fs_mount"
  BY DEF FsMount, At
<1>2. loc[p].pc \in Mounting /\ loc[p].pc \in {"idle"} \cup Mounting
  BY <1>1 DEF Mounting
<1>3. /\ loc[p] \in Loc /\ Quiet(loc[p]) /\ s \in Slot \ {RootSlot} /\ mnt[s] \in MountType
      /\ mnt[s].state = "MOUNTING" /\ mnt[s].root = NULL
      /\ \A q \in Proc \ {p} : loc[q].pc \in Mounting => loc[q].slot # s
  BY <1>1, <1>2, MakingFact
<1>4. /\ mnt \in [Slot -> MountType] /\ vnode \in [Vnode -> Fields] /\ scratch \in Nat
      /\ TmpOK(tmp) /\ VnodesFit /\ MountsFit
  BY DEF IInv, Typed
<1>5. ASSUME NEW v \in Vnode, vnode[v] # BlankVnode
      PROVE  vnode[v].mount # s /\ vnode[v].refcnt > 0 /\ Fits(vnode[v])
  <2>1. s \in Slot /\ mnt[s].state # "ACTIVE"
    BY <1>3
  <2> HIDE DEF s
  <2>2. QED
    BY <1>3, <1>5, <2>1, NoneOf
<1>6. CASE FreeVnodes # {}
  <2> DEFINE g == Min(FreeVnodes)
             m == [mnt[s] EXCEPT !.root = g]
             r == [loc[p] EXCEPT !.pc = "activate"]
             w == [refcnt |-> 1, mount |-> s, ino |-> RootIno, type |-> "DIR", size |-> 0]
  <2>1. /\ vnode' = NewVnode(s, RootIno, "DIR", 0) /\ mnt' = [mnt EXCEPT ![s].root = g]
        /\ tmp' = [TmpMounted EXCEPT !.torn = tmp.torn] /\ loc' = [loc EXCEPT ![p] = r] /\ scratch' = scratch
    BY <1>6 DEF FsMount, Move
  <2>2. g \in Vnode /\ vnode[g].refcnt = 0
    BY <1>6, FreeVnodeFact
  <2>3. vnode' = [vnode EXCEPT ![g] = w]
    BY <2>1 DEF NewVnode
  <2> HIDE DEF g, s
  <2>4. w \in Fields /\ Fits(w) /\ w.refcnt = 1 /\ w.mount = s /\ w.type = "DIR"
    <3>1. 0 \in 0..FileMax /\ RootIno \in Ino
      BY InoFact
    <3>2. QED
      BY <1>3, <3>1 DEF Fields, Fits, Kinds
  <2> HIDE DEF w
  <2>5. /\ vnode' \in [Vnode -> Fields] /\ vnode'[g] = w
        /\ \A v \in Vnode \ {g} : vnode'[v] = vnode[v]
    BY <1>4, <2>2, <2>3, <2>4
  <2>6. mnt' = [mnt EXCEPT ![s] = m] /\ m \in MountType /\ m.state = "MOUNTING" /\ m.root = g
    BY <1>3, <1>4, <2>1, <2>2 DEF MountType
  <2> HIDE DEF m
  <2>7. r \in Loc
    <3>1. "activate" \in Points
      BY DEF Points, Mounting
    <3>2. QED
      BY <1>3, <3>1 DEF Loc
  <2>8. /\ r.pc = "activate" /\ r.slot = s /\ r.cur = loc[p].cur /\ r.pin = loc[p].pin
        /\ r.child = loc[p].child /\ r.par = loc[p].par /\ r.buf = loc[p].buf
    BY <1>3 DEF Loc, s
  <2> HIDE DEF r
  <2>9. Quiet(r)
    BY <1>3, <2>8 DEF Quiet
  <2>10. Within(r)
    BY <1>3, <2>8 DEF Within, Calling, Walking, Mounting
  <2>11. g # NULL
    BY <2>2, Constants
  <2>12. ASSUME NEW v \in Vnode
         PROVE  vnode'[v].refcnt + Same(mnt[s].root, v) = vnode[v].refcnt + Same(m.root, v)
    <3>1. Same(mnt[s].root, v) = 0
      BY <1>3, Constants DEF Same
    <3>2. vnode[v].refcnt \in Nat
      BY <1>4 DEF Fields
    <3>3. CASE v = g
      BY <2>2, <2>4, <2>5, <2>6, <3>1, <3>3 DEF Same
    <3>4. CASE v # g
      BY <2>5, <2>6, <3>1, <3>2, <3>4 DEF Same
    <3>5. QED
      BY <3>3, <3>4
  <2>13. \A v \in Vnode : vnode'[v] = vnode[v] \/ vnode[v].refcnt = 0
    BY <2>2, <2>5
  <2>14. \A v \in Vnode : \/ vnode'[v] = BlankVnode
                          \/ /\ vnode'[v].refcnt > 0 /\ Fits(vnode'[v])
                             /\ \/ vnode'[v].mount = s /\ m.root = v /\ vnode'[v].refcnt = 1
                                \/ vnode'[v].mount # s /\ vnode'[v] = vnode[v]
    BY <1>5, <2>4, <2>5, <2>6
  <2>15. vnode'[m.root].mount = s /\ vnode'[m.root].type = "DIR"
    BY <2>4, <2>5, <2>6
  <2>16. TmpOK(tmp')
    <3>1. TmpMounted.torn = FALSE /\ tmp.torn \in BOOLEAN
      BY <1>4, TypedFact DEF TmpMounted
    <3>2. QED
      BY <2>1, <3>1, MountedOK, TornOK
  <2>17. r.pc \in {"idle"} \cup Mounting /\ r.pc # "fs_mount"
    BY <2>8 DEF Mounting
  <2>18. MountBy(p, r, s, m)
    BY <1>2, <1>3, <2>1, <2>6, <2>8, <2>9, <2>10, <2>11, <2>17 DEF MountBy
  <2>19. MountOf(s, m)
    BY <2>5, <2>6, <2>12, <2>13, <2>14, <2>15 DEF MountOf
  <2>20. QED
    BY <1>3, <2>1, <2>6, <2>7, <2>16, <2>18, <2>19, MountKept
<1>7. CASE FreeVnodes = {}
  <2>1. mnt' = [mnt EXCEPT ![s] = BlankMount] /\ Return(p, {}, 0) /\ tmp' = tmp
    BY <1>7 DEF FsMount
  <2> HIDE DEF s
  <2>2. vnode' = vnode /\ scratch' = scratch /\ loc' = [loc EXCEPT ![p] = Idle]
    BY <1>4, <2>1, NothingReleased DEF Return
  <2>3. BlankMount \in MountType /\ BlankMount.state = "FREE" /\ BlankMount.root = NULL
    <3>1. << >> \in Seq(Name)
      OBVIOUS
    <3>2. QED
      BY <3>1 DEF BlankMount, MountType
  <2>4. \A v \in Vnode : vnode'[v].refcnt + Same(mnt[s].root, v)
                         = vnode[v].refcnt + Same(BlankMount.root, v)
    BY <1>3, <2>2, <2>3
  <2>5. \A v \in Vnode : \/ vnode'[v] = BlankVnode
                         \/ /\ vnode'[v].refcnt > 0 /\ Fits(vnode'[v])
                            /\ vnode'[v].mount # s /\ vnode'[v] = vnode[v]
    BY <1>5, <2>2
  <2>6. Idle.pc \notin Mounting /\ Idle.pc \in {"idle"} \cup Mounting
    BY IdleQuiet DEF Mounting
  <2>7. MountBy(p, Idle, s, BlankMount)
    BY <1>2, <1>3, <2>2, <2>6, IdleQuiet DEF MountBy
  <2>8. MountOf(s, BlankMount)
    BY <1>4, <2>1, <2>2, <2>3, <2>4, <2>5 DEF MountOf
  <2>9. QED
    BY <1>3, <1>4, <2>1, <2>2, <2>3, <2>7, <2>8, IdleQuiet, MountKept
<1>8. QED
  BY <1>6, <1>7

LEMMA UmountKept ==
  ASSUME IInv, NEW p \in Proc, NEW path \in MountPaths, Umount(p, path),
         UNCHANGED <<file, fdmap, io>>
  PROVE  IInv'
<1>1. PICK s \in Slot \ {RootSlot} :
        /\ loc[p].pc = "idle" /\ mnt[s].state = "ACTIVE" /\ ~Busy(s)
        /\ vnode' = [vnode EXCEPT ![mnt[s].root] = BlankVnode]
        /\ mnt' = [mnt EXCEPT ![s] = BlankMount] /\ UNCHANGED <<tmp, scratch, loc>>
  BY DEF Umount, At
<1>2. /\ loc \in [Proc -> Loc] /\ loc[p] \in Loc /\ Holding(loc[p]) /\ Within(loc[p])
      /\ vnode \in [Vnode -> Fields] /\ TmpOK(tmp')
      /\ VnodesFit /\ \A q \in Proc : MakingMount(q)
  BY <1>1 DEF IInv, Typed
<1>3. Quiet(loc[p]) /\ loc' = [loc EXCEPT ![p] = loc[p]]
  BY <1>1, <1>2, HoldsQuiet
<1>4. PICK g \in Vnode : /\ g = mnt[s].root /\ vnode[g].refcnt > 0
  BY <1>1, RootFact
<1>5. vnode[g].refcnt = 1 /\ \A v \in Vnode \ {g} : vnode[v].refcnt > 0 => vnode[v].mount # s
  <2>1. ~(vnode[g].refcnt > 1) /\ vnode[g].refcnt \in Nat
    BY <1>1, <1>2, <1>4 DEF Busy, Fields
  <2>2. QED
    BY <1>1, <1>4, <2>1 DEF Busy
<1>6. BlankVnode \in Fields /\ BlankVnode.refcnt = 0
  <2>1. 0 \in 0..FileMax
    BY InoFact
  <2>2. QED
    BY <2>1 DEF BlankVnode, Fields, Kinds
<1>7. /\ vnode' \in [Vnode -> Fields] /\ vnode'[g] = BlankVnode
      /\ \A v \in Vnode \ {g} : vnode'[v] = vnode[v]
  BY <1>1, <1>2, <1>4, <1>6
<1>8. BlankMount \in MountType /\ BlankMount.state = "FREE" /\ BlankMount.root = NULL
  <2>1. << >> \in Seq(Name)
    OBVIOUS
  <2>2. QED
    BY <2>1 DEF BlankMount, MountType
<1>9. ASSUME NEW v \in Vnode
      PROVE  vnode'[v].refcnt + Same(mnt[s].root, v) = vnode[v].refcnt + Same(BlankMount.root, v)
  <2>1. Same(BlankMount.root, v) = 0
    BY <1>8, Constants DEF Same
  <2>2. CASE v = g
    BY <1>4, <1>5, <1>6, <1>7, <2>1, <2>2 DEF Same
  <2>3. CASE v # g
    BY <1>4, <1>7, <2>1, <2>3 DEF Same
  <2>4. QED
    BY <2>2, <2>3
<1>10. \A v \in Vnode : \/ vnode'[v] = BlankVnode
                        \/ /\ vnode'[v].refcnt > 0 /\ Fits(vnode'[v])
                           /\ vnode'[v].mount # s /\ vnode'[v] = vnode[v]
  BY <1>2, <1>5, <1>7 DEF VnodesFit
<1>11. \A v \in Vnode : vnode'[v] = vnode[v] \/ mnt[s].root = v
  BY <1>4, <1>7
<1>12. \A q \in Proc \ {p} : loc[q].pc \in Mounting => loc[q].slot # s
  BY <1>1, <1>2 DEF MakingMount
<1>13. loc[p].pc \notin Mounting /\ loc[p].pc \in {"idle"} \cup Mounting
  BY <1>1 DEF Mounting
<1>14. MountBy(p, loc[p], s, BlankMount)
  BY <1>2, <1>3, <1>12, <1>13 DEF MountBy
<1>15. MountOf(s, BlankMount)
  BY <1>1, <1>7, <1>8, <1>9, <1>10, <1>11 DEF MountOf
<1>16. QED
  BY <1>1, <1>2, <1>8, <1>14, <1>15, MountKept

-----------------------------------------------------------------------------
(* open *)

LEMMA NameBufKept ==
  ASSUME IInv, NEW p \in Proc, NameBuf(p)
  PROVE  IInv'
<1>1. loc[p].pc = "namebuf" /\ UNCHANGED <<mnt, tmp, file, fdmap, io>>
  BY DEF NameBuf, At
<1>2. /\ loc[p] \in Loc /\ Holding(loc[p]) /\ scratch \in Nat /\ TmpOK(tmp')
      /\ loc[p].call \in PathCalls /\ Op(p) = "open" /\ loc[p].pc \notin Elsewhere
  BY <1>1 DEF IInv, Typed, Within, Calling, Op, Elsewhere, Handling
<1> "creat" \in loc[p].call.flags
  BY <1>1 DEF IInv, Within
<1>3. Quiet(loc[p])
  BY <1>1, <1>2, HoldsQuiet
<1>4. CASE scratch = 0
  <2> DEFINE D == {}
  <2>1. Return(p, D, 0) /\ D \in SUBSET Hands /\ \A h \in Hands \ D : loc[p][h] = NULL
    BY <1>3, <1>4 DEF NameBuf, Hands, Quiet
  <2> HIDE DEF D
  <2>2. loc[p].buf = 0
    BY <1>3 DEF Quiet
  <2>3. QED
    BY <1>1, <1>2, <2>1, <2>2, ReturnKept
<1>5. CASE scratch # 0
  <2>1. Again(p, 1, loc[p]) /\ scratch' = scratch - 1 /\ UNCHANGED vnode
    BY <1>5 DEF NameBuf
  <2>2. /\ loc[p].cur = NULL /\ loc[p].pin = NULL /\ loc[p].child = NULL /\ loc[p].par = NULL
        /\ loc[p].buf + 1 = 1
    BY <1>3 DEF Quiet
  <2>3. 1 \in Nat /\ scratch' \in Nat /\ scratch = scratch' + 1
    BY <1>2, <1>5, <2>1
  <2>4. QED
    BY <1>1, <1>2, <2>1, <2>2, <2>3, AgainKept
<1>6. QED
  BY <1>4, <1>5

LEMMA OpenCreateKept ==
  ASSUME IInv, NEW p \in Proc, OpenCreate(p)
  PROVE  IInv'
<1> DEFINE d == loc[p].cur
           n == Last(loc[p].call.path)
           i == Min(FreeInodes(tmp))
           can == Writable(d) /\ FreeVnodes # {} /\ CanCreate(tmp, vnode[d].ino, n)
<1>1. /\ loc[p].pc = "got" /\ Op(p) = "open" /\ loc[p].walk = 2
      /\ UNCHANGED <<mnt, file, fdmap, io>>
  BY DEF OpenCreate, At
<1>2. /\ loc[p] \in Loc /\ scratch \in Nat /\ TmpOK(tmp) /\ loc[p].pc \notin Elsewhere
      /\ loc[p].call \in PathCalls /\ d \in Vnode /\ loc[p].pin = NULL /\ loc[p].child = NULL
      /\ loc[p].par = NULL /\ loc[p].buf = 1 /\ n \in Name
      /\ Writable(d) => vnode[d].ino \in Ino
  BY <1>1, GotFact DEF CallBufs, Op
<1>3. CASE ~can
  <2> DEFINE D == {"cur"}
  <2>1. Return(p, D, 1) /\ tmp' = tmp
    BY <1>3 DEF OpenCreate
  <2>2. D \in SUBSET Hands /\ \A h \in Hands \ D : loc[p][h] = NULL
    BY <1>2 DEF Hands
  <2> HIDE DEF D
  <2>3. QED
    BY <1>1, <1>2, <2>1, <2>2, ReturnKept
<1>4. CASE can
  <2> DEFINE g == Min(FreeVnodes)
             m == vnode[d].mount
             r == [loc[p] EXCEPT !.pc = "created", !.par = d, !.cur = g]
             w == [refcnt |-> 1, mount |-> m, ino |-> i, type |-> "FILE", size |-> 0]
  <2>1. /\ tmp' = Created(tmp, vnode[d].ino, n, "FILE") /\ vnode' = NewVnode(m, i, "FILE", 0)
        /\ loc' = [loc EXCEPT ![p] = r] /\ scratch' = scratch
    BY <1>4 DEF OpenCreate, Move
  <2>2. TmpOK(tmp') /\ i \in Ino
    BY <1>2, <1>4, <2>1, CreatedOK
  <2>3. Fits(vnode[d]) /\ mnt[m].state = "ACTIVE"
    BY <1>2, HandActive
  <2>4. m \in Slot \ {RootSlot}
    BY <1>4, <2>3 DEF Fits, Writable, InRoot
  <2> HIDE DEF i, m
  <2>5. w \in Fields /\ Fits(w)
    <3>1. 0 \in 0..FileMax
      BY InoFact
    <3>2. QED
      BY <2>2, <2>4, <3>1 DEF Fields, Fits, Kinds
  <2>6. Steady /\ \A v \in Vnode : vnode'[v].refcnt = vnode[v].refcnt + One(v = g)
    BY <1>4, <2>1, <2>3, <2>5, NewSteady
  <2>7. g \in Vnode /\ Held(loc[p], g) = 0
    BY <1>4, FreeVnodeFact
  <2> HIDE DEF g
  <2>8. r \in Loc
    <3>1. "created" \in Points
      BY DEF Points, Calling
    <3>2. QED
      BY <1>2, <2>7, <3>1 DEF Loc
  <2>9. /\ r.pc = "created" /\ r.cur = g /\ r.par = d /\ r.pin = NULL /\ r.child = NULL
        /\ r.call = loc[p].call /\ r.buf = 1
    BY <1>2 DEF Loc
  <2> HIDE DEF r
  <2>10. Holding(r)
    BY <1>2, <2>7, <2>9, Constants DEF Holding, HasCur, HasChild, HasPar, Walking, Bufs
  <2>11. Within(r)
    BY <1>1, <1>2, <2>9 DEF Within, Calling, Walking, Mounting, Op
  <2>12. ASSUME NEW v \in Vnode
         PROVE  vnode'[v].refcnt + Held(loc[p], v) = vnode[v].refcnt + Held(r, v)
    <3>1. Held(r, v) = Held(loc[p], v) + One(v = g)
      BY <1>2, <2>9, Constants DEF Held, One
    <3>2. Held(loc[p], v) \in Nat /\ One(v = g) \in Nat
      BY DEF Held, One
    <3>3. vnode[v].refcnt \in Nat /\ vnode'[v].refcnt = vnode[v].refcnt + One(v = g)
      BY <2>6 DEF IInv, Typed, Fields
    <3>4. QED
      BY <3>1, <3>2, <3>3
  <2>13. r.pc \notin Mounting \cup Elsewhere /\ r.pc \notin {"link", "readlink"}
    BY <2>9 DEF Elsewhere, Handling, Mounting
  <2>14. scratch' \in Nat /\ scratch' + r.buf = scratch + loc[p].buf
    BY <1>2, <2>1, <2>9
  <2>15. QED
    BY <1>1, <1>2, <2>1, <2>2, <2>6, <2>8, <2>10, <2>11, <2>12, <2>13, <2>14, PathKept
<1>5. QED
  BY <1>3, <1>4

\* What open holds between its walk and its file.
LEMMA OpeningFact ==
  ASSUME IInv, NEW p \in Proc, loc[p].pc \in {"created", "trunc", "desc", "fill"}
  PROVE  /\ loc[p] \in Loc /\ scratch \in Nat /\ TmpOK(tmp) /\ Holding(loc[p]) /\ Within(loc[p])
         /\ loc[p].call \in PathCalls /\ Op(p) = "open"
         /\ loc[p].cur \in Vnode /\ loc[p].pin = NULL /\ loc[p].child = NULL
         /\ loc[p].pc = "created" => loc[p].par \in Vnode /\ loc[p].buf = 1
         /\ loc[p].pc # "created" => loc[p].par = NULL /\ loc[p].buf = 0
<1>1. loc[p] \in Loc /\ scratch \in Nat /\ TmpOK(tmp) /\ Holding(loc[p]) /\ Within(loc[p])
  BY DEF IInv, Typed
<1>2. loc[p].call \in PathCalls /\ Op(p) = "open"
  BY <1>1 DEF Within, Calling, Op
<1>3. /\ loc[p].cur \in Vnode /\ loc[p].pin = NULL /\ loc[p].child = NULL
      /\ loc[p].pc = "created" => loc[p].par \in Vnode
      /\ loc[p].pc # "created" => loc[p].par = NULL
  BY <1>1 DEF Loc, Holding, HasCur, HasChild, HasPar, Walking
<1>4. /\ loc[p].pc = "created" => loc[p].buf = 1
      /\ loc[p].pc # "created" => loc[p].buf = 0
  BY <1>1 DEF Holding, Walking, Bufs
<1>5. QED
  BY <1>1, <1>2, <1>3, <1>4

LEMMA OpenCreatedKept ==
  ASSUME IInv, NEW p \in Proc, OpenCreated(p)
  PROVE  IInv'
<1> DEFINE D == {"par"}
           r == [loc[p] EXCEPT !.pc = "trunc", !.par = NULL, !.buf = @ - 1]
<1>1. /\ loc[p].pc = "created" /\ UNCHANGED <<mnt, tmp, file, fdmap, io>>
      /\ vnode' = Released(vnode, p, D) /\ scratch' = scratch + 1
      /\ loc' = [loc EXCEPT ![p] = r] /\ D \in SUBSET Hands
  BY DEF OpenCreated, At, Move, Hands
<1>2. /\ loc[p] \in Loc /\ scratch \in Nat /\ TmpOK(tmp) /\ loc[p].call \in PathCalls
      /\ Op(p) = "open" /\ loc[p].cur \in Vnode /\ loc[p].pin = NULL /\ loc[p].child = NULL
      /\ loc[p].par \in Vnode /\ loc[p].buf = 1
  BY <1>1, OpeningFact
<1>3. Steady /\ \A v \in Vnode : vnode'[v].refcnt + HeldIn(loc[p], D, v) = vnode[v].refcnt
  BY <1>1, ReleasedSteady
<1>4. r \in Loc
  <2>1. "trunc" \in Points /\ loc[p].buf - 1 \in Nat
    BY <1>2 DEF Points, Calling
  <2>2. QED
    BY <1>2, <2>1 DEF Loc
<1>5. /\ r.pc = "trunc" /\ r.cur = loc[p].cur /\ r.par = NULL /\ r.pin = NULL /\ r.child = NULL
      /\ r.call = loc[p].call /\ r.buf = 0
  BY <1>2 DEF Loc
<1> HIDE DEF r
<1>6. Holding(r)
  BY <1>2, <1>5, Constants DEF Holding, HasCur, HasChild, HasPar, Walking, Bufs
<1>7. Within(r)
  BY <1>2, <1>5 DEF Within, Calling, Walking, Mounting, Op
<1>8. ASSUME NEW v \in Vnode
      PROVE  vnode'[v].refcnt + Held(loc[p], v) = vnode[v].refcnt + Held(r, v)
  <2>1. Held(loc[p], v) = Held(r, v) + HeldIn(loc[p], D, v)
    BY <1>2, <1>5, Constants DEF Held, HeldIn, One
  <2>2. Held(r, v) \in Nat /\ HeldIn(loc[p], D, v) \in Nat /\ vnode'[v].refcnt \in Nat
    BY <1>3 DEF Steady, Fields, Held, HeldIn, One
  <2>3. vnode[v].refcnt \in Nat /\ vnode'[v].refcnt + HeldIn(loc[p], D, v) = vnode[v].refcnt
    BY <1>3 DEF IInv, Typed, Fields
  <2>4. QED
    BY <2>1, <2>2, <2>3
<1>9. /\ r.pc \notin Mounting \cup Elsewhere /\ r.pc \notin {"link", "readlink"}
      /\ loc[p].pc \notin Elsewhere
  BY <1>1, <1>5 DEF Elsewhere, Handling, Mounting
<1>10. scratch' \in Nat /\ scratch' + r.buf = scratch + loc[p].buf
  BY <1>1, <1>2, <1>5
<1>11. QED
  BY <1>1, <1>2, <1>3, <1>4, <1>6, <1>7, <1>8, <1>9, <1>10, PathKept

LEMMA OpenFoundKept ==
  ASSUME IInv, NEW p \in Proc, OpenFound(p)
  PROVE  IInv'
<1> DEFINE r == [loc[p] EXCEPT !.pc = "trunc"]
<1>1. /\ loc[p].pc = "got" /\ Op(p) = "open" /\ loc[p].walk = 1
      /\ loc' = [loc EXCEPT ![p] = r] /\ UNCHANGED <<vnode, mnt, tmp, scratch, file, fdmap, io>>
  BY DEF OpenFound, At, Move
<1>2. /\ loc[p] \in Loc /\ scratch \in Nat /\ TmpOK(tmp) /\ loc[p].pc \notin Elsewhere
      /\ loc[p].call \in PathCalls /\ loc[p].cur \in Vnode /\ loc[p].pin = NULL
      /\ loc[p].child = NULL /\ loc[p].par = NULL /\ loc[p].buf = 0
  BY <1>1, GotFact DEF CallBufs, Op
<1>3. r \in Loc
  <2>1. "trunc" \in Points
    BY DEF Points, Calling
  <2>2. QED
    BY <1>2, <2>1 DEF Loc
<1>4. /\ r.pc = "trunc" /\ r.cur = loc[p].cur /\ r.par = NULL /\ r.pin = NULL /\ r.child = NULL
      /\ r.call = loc[p].call /\ r.buf = 0
  BY <1>2 DEF Loc
<1> HIDE DEF r
<1>5. Holding(r)
  BY <1>2, <1>4, Constants DEF Holding, HasCur, HasChild, HasPar, Walking, Bufs
<1>6. Within(r)
  BY <1>1, <1>2, <1>4 DEF Within, Calling, Walking, Mounting, Op
<1>7. \A v \in Vnode : Held(r, v) = Held(loc[p], v)
  BY <1>2, <1>4 DEF Held
<1>8. r.pc \notin Mounting \cup Elsewhere /\ r.pc \notin {"link", "readlink"}
  BY <1>4 DEF Elsewhere, Handling, Mounting
<1>9. scratch' \in Nat /\ scratch' + r.buf = scratch + loc[p].buf
  BY <1>1, <1>2, <1>4
<1>10. QED
  BY <1>1, <1>2, <1>3, <1>5, <1>6, <1>7, <1>8, <1>9, QuietKept

\* A file changes its size as one of its vnodes knows it.
LEMMA SizeSteady ==
  ASSUME IInv, NEW g \in Vnode, NEW z \in 0..FileMax, vnode' = [vnode EXCEPT ![g].size = z]
  PROVE  /\ vnode[g].refcnt > 0 => Steady
         /\ \A v \in Vnode : vnode'[v].refcnt = vnode[v].refcnt
<1>1. vnode \in [Vnode -> Fields] /\ VnodesFit
  BY DEF IInv, Typed
<1>2. /\ vnode'[g].refcnt = vnode[g].refcnt /\ Like(vnode[g], vnode'[g])
      /\ vnode'[g] \in Fields
  BY <1>1 DEF Fields, Like
<1>3. \A v \in Vnode \ {g} : vnode'[v] = vnode[v]
  BY <1>1
<1>4. \A v \in Vnode : vnode[v].refcnt \in Nat
  BY <1>1 DEF Fields
<1>5. vnode' \in [Vnode -> Fields]
  BY <1>1, <1>2, <1>3
<1>6. ASSUME NEW v \in Vnode \ {g}
      PROVE \/ vnode'[v] = BlankVnode
            \/ /\ vnode'[v].refcnt > 0 /\ vnode[v].refcnt > 0 /\ Like(vnode[v], vnode'[v])
               /\ vnode'[v].refcnt <= vnode[v].refcnt
  BY <1>1, <1>3, <1>4 DEF VnodesFit, Like
<1>7. vnode[g].refcnt > 0 => Steady
  BY <1>2, <1>4, <1>5, <1>6 DEF Steady
<1>8. QED
  BY <1>2, <1>3, <1>7

LEMMA SameSteady ==
  ASSUME IInv, UNCHANGED vnode
  PROVE  Steady
<1>1. vnode \in [Vnode -> Fields] /\ VnodesFit
  BY DEF IInv, Typed
<1>2. ASSUME NEW v \in Vnode
      PROVE \/ vnode'[v] = BlankVnode
            \/ /\ vnode'[v].refcnt > 0 /\ vnode[v].refcnt > 0 /\ Like(vnode[v], vnode'[v])
               /\ vnode'[v].refcnt <= vnode[v].refcnt
  BY <1>1 DEF VnodesFit, Like, Fields
<1>3. QED
  BY <1>1, <1>2 DEF Steady

LEMMA OpenTruncKept ==
  ASSUME IInv, NEW p \in Proc, OpenTrunc(p)
  PROVE  IInv'
<1> DEFINE v == loc[p].cur
           cut == "trunc" \in loc[p].call.flags /\ vnode[v].type = "FILE"
           refused == cut /\ ~InRoot(v) /\ tmp.node[vnode[v].ino].type = "DIR"
<1>1. loc[p].pc = "trunc" /\ UNCHANGED <<mnt, file, fdmap, io>>
  BY DEF OpenTrunc, At
<1>2. /\ loc[p] \in Loc /\ scratch \in Nat /\ TmpOK(tmp) /\ loc[p].call \in PathCalls
      /\ Op(p) = "open" /\ v \in Vnode /\ loc[p].pin = NULL /\ loc[p].child = NULL
      /\ loc[p].par = NULL /\ loc[p].buf = 0
  BY <1>1, OpeningFact
<1>3. loc[p].pc \notin Elsewhere
  BY <1>1 DEF Elsewhere, Handling
<1>4. CASE refused
  <2> DEFINE D == {"cur"}
  <2>1. Return(p, D, 0) /\ tmp' = tmp
    BY <1>4 DEF OpenTrunc
  <2>2. D \in SUBSET Hands /\ \A h \in Hands \ D : loc[p][h] = NULL
    BY <1>2 DEF Hands
  <2> HIDE DEF D
  <2>3. QED
    BY <1>1, <1>2, <1>3, <2>1, <2>2, ReturnKept
<1>5. CASE ~refused
  <2> DEFINE r == [loc[p] EXCEPT !.pc = "desc"]
  <2>1. /\ tmp' = IF cut /\ ~InRoot(v) THEN Truncated(tmp, vnode[v].ino) ELSE tmp
        /\ vnode' = IF cut THEN [vnode EXCEPT ![v].size = 0] ELSE vnode
        /\ loc' = [loc EXCEPT ![p] = r] /\ scratch' = scratch
    BY <1>5 DEF OpenTrunc, Move
  <2>2. Fits(vnode[v]) /\ vnode[v].refcnt > 0
    BY <1>2, HandActive
  <2>3. TmpOK(tmp')
    <3>1. ~InRoot(v) => vnode[v].ino \in Ino
      BY <2>2 DEF Fits, InRoot
    <3>2. QED
      BY <1>2, <2>1, <3>1, TruncatedOK
  <2>4. Steady /\ \A w \in Vnode : vnode'[w].refcnt = vnode[w].refcnt
    <3>1. CASE cut
      <4>1. 0 \in 0..FileMax /\ vnode' = [vnode EXCEPT ![v].size = 0]
        BY <2>1, <3>1, InoFact
      <4> HIDE DEF v
      <4>2. QED
        BY <1>2, <2>2, <4>1, SizeSteady
    <3>2. CASE ~cut
      <4>1. vnode' = vnode
        BY <2>1, <3>2
      <4>2. QED
        BY <4>1, SameSteady
    <3>3. QED
      BY <3>1, <3>2
  <2> HIDE DEF v, cut
  <2>5. r \in Loc
    <3>1. "desc" \in Points
      BY DEF Points, Calling
    <3>2. QED
      BY <1>2, <3>1 DEF Loc
  <2>6. /\ r.pc = "desc" /\ r.cur = loc[p].cur /\ r.par = NULL /\ r.pin = NULL
        /\ r.child = NULL /\ r.call = loc[p].call /\ r.buf = 0
    BY <1>2 DEF Loc
  <2> HIDE DEF r
  <2>7. Holding(r)
    BY <1>2, <2>6, Constants DEF Holding, HasCur, HasChild, HasPar, Walking, Bufs, v
  <2>8. Within(r)
    BY <1>2, <2>6 DEF Within, Calling, Walking, Mounting, Op
  <2>9. \A w \in Vnode : vnode'[w].refcnt + Held(loc[p], w) = vnode[w].refcnt + Held(r, w)
    <3>1. \A w \in Vnode : Held(r, w) = Held(loc[p], w)
      BY <1>2, <2>6 DEF Held
    <3>2. QED
      BY <2>4, <3>1
  <2>10. r.pc \notin Mounting \cup Elsewhere /\ r.pc \notin {"link", "readlink"}
    BY <2>6 DEF Elsewhere, Handling, Mounting
  <2>11. scratch' \in Nat /\ scratch' + r.buf = scratch + loc[p].buf
    BY <1>2, <2>1, <2>6
  <2>12. QED
    BY <1>1, <1>3, <2>1, <2>3, <2>4, <2>5, <2>7, <2>8, <2>9, <2>10, <2>11, PathKept
<1>6. QED
  BY <1>4, <1>5

-----------------------------------------------------------------------------
(* Who refers to an entry of the pool *)

\* A process that is where r says, with what j says in hand, works on d.
Works(r, j, d) == j.desc = d /\ r.pc \in Busying
WorkOn(r, j, d) == IF Works(r, j, d) THEN 1 ELSE 0

NameCount(m, d) == Cardinality({x \in Proc \X Fd : m[x[1]][x[2]] = d})
UseCount(l, i, d) == Cardinality({p \in Proc : Works(l[p], i[p], d)})
NamedBy(d) == NameCount(fdmap, d)
InUse(d) == UseCount(loc, io, d)

LEMMA DescSum ==
  DescRefs <=> \A d \in Desc : /\ file[d].refcnt = NamedBy(d) + InUse(d)
                               /\ \A p \in Proc, f \in Fd : fdmap[p][f] = d => file[d].ops # "none"
<1>1. \A p \in Proc, d \in Desc : Working(p, d) <=> Works(loc[p], io[p], d)
  BY DEF Working, Works, Busying
<1>2. \A d \in Desc : {p \in Proc : Working(p, d)} = {p \in Proc : Works(loc[p], io[p], d)}
  BY <1>1
<1>3. QED
  BY <1>2 DEF DescRefs, NamedBy, InUse, NameCount, UseCount

LEMMA NamedNat ==
  ASSUME NEW m, NEW l, NEW i, NEW d
  PROVE  /\ NameCount(m, d) \in Nat /\ UseCount(l, i, d) \in Nat
         /\ \A p \in Proc, f \in Fd : m[p][f] = d => NameCount(m, d) > 0
         /\ \A p \in Proc : Works(l[p], i[p], d) => UseCount(l, i, d) > 0
         /\ \A p \in Proc : \A q \in Proc \ {p} :
              Works(l[p], i[p], d) /\ Works(l[q], i[q], d) => UseCount(l, i, d) > 1
<1> DEFINE T == {x \in Proc \X Fd : m[x[1]][x[2]] = d}
           U == {p \in Proc : Works(l[p], i[p], d)}
<1>1. IsFiniteSet(T)
  BY Finite, FS_Product, FS_Subset
<1>2. IsFiniteSet(U)
  BY Finite, FS_Subset
<1>3. Cardinality(T) \in Nat /\ Cardinality(U) \in Nat
  BY <1>1, <1>2, FS_CardinalityType
<1>4. ASSUME NEW p \in Proc, NEW f \in Fd, m[p][f] = d PROVE Cardinality(T) > 0
  <2>1. <<p, f>> \in T
    BY <1>4
  <2> HIDE DEF T
  <2>2. T # {}
    BY <2>1
  <2>3. QED
    BY <1>1, <1>3, <2>2, FS_EmptySet
<1>5. ASSUME NEW p \in Proc, Works(l[p], i[p], d) PROVE Cardinality(U) > 0
  <2>1. U # {}
    BY <1>5
  <2> HIDE DEF U
  <2>2. QED
    BY <1>2, <1>3, <2>1, FS_EmptySet
<1>6. ASSUME NEW p \in Proc, NEW q \in Proc \ {p}, Works(l[p], i[p], d), Works(l[q], i[q], d)
      PROVE  Cardinality(U) > 1
  <2>1. p \in U /\ q \in U /\ p # q
    BY <1>6
  <2> HIDE DEF U
  <2>2. /\ IsFiniteSet(U \ {p}) /\ Cardinality(U \ {p}) = Cardinality(U) - 1
        /\ U \ {p} # {}
    BY <1>2, <2>1, FS_RemoveElement
  <2>3. Cardinality(U \ {p}) \in Nat /\ Cardinality(U \ {p}) # 0
    BY <2>2, FS_EmptySet, FS_CardinalityType
  <2>4. QED
    BY <1>3, <2>2, <2>3
<1>7. QED
  BY <1>3, <1>4, <1>5, <1>6 DEF NameCount, UseCount

LEMMA WorkStep ==
  ASSUME NEW d, NEW p \in Proc, NEW r, NEW j, loc \in [Proc -> Loc], io \in [Proc -> IoType],
         loc' = [loc EXCEPT ![p] = r], io' = [io EXCEPT ![p] = j]
  PROVE  InUse(d)' \in Nat /\ InUse(d)' + WorkOn(loc[p], io[p], d) = InUse(d) + WorkOn(r, j, d)
<1> DEFINE T == {q \in Proc : Works(loc[q], io[q], d)}
           U == {q \in Proc : Works(loc'[q], io'[q], d)}
<1>1. /\ loc'[p] = r /\ io'[p] = j
      /\ \A q \in Proc \ {p} : loc'[q] = loc[q] /\ io'[q] = io[q]
  OBVIOUS
<1>2. T \in SUBSET Proc /\ U \in SUBSET Proc /\ \A q \in Proc \ {p} : q \in T <=> q \in U
  BY <1>1
<1>3. (p \in T <=> Works(loc[p], io[p], d)) /\ (p \in U <=> Works(r, j, d))
  BY <1>1
<1> HIDE DEF T, U
<1>4. Cardinality(U) \in Nat /\ Cardinality(U) + One(p \in T) = Cardinality(T) + One(p \in U)
  BY <1>2, Finite, CountOne
<1>5. One(p \in T) = WorkOn(loc[p], io[p], d) /\ One(p \in U) = WorkOn(r, j, d)
  BY <1>3 DEF One, WorkOn
<1>6. QED
  BY <1>4, <1>5 DEF InUse, UseCount, T, U

\* One descriptor changes.
LEMMA NameStep ==
  ASSUME NEW d, NEW p \in Proc, NEW f \in Fd, NEW x,
         fdmap \in [Proc -> [Fd -> Desc \cup {NULL}]], fdmap' = [fdmap EXCEPT ![p][f] = x]
  PROVE  NamedBy(d)' \in Nat /\ NamedBy(d)' + Same(fdmap[p][f], d) = NamedBy(d) + Same(x, d)
<1> DEFINE S == Proc \X Fd
           T == {y \in S : fdmap[y[1]][y[2]] = d}
           U == {y \in S : fdmap'[y[1]][y[2]] = d}
           a == <<p, f>>
<1>1. IsFiniteSet(S)
  BY Finite, FS_Product
<1>2. ASSUME NEW q \in Proc, NEW g \in Fd
      PROVE  fdmap'[q][g] = IF q = p /\ g = f THEN x ELSE fdmap[q][g]
  OBVIOUS
<1>3. \A y \in S \ {a} : y \in T <=> y \in U
  <2>1. ASSUME NEW y \in S \ {a} PROVE y \in T <=> y \in U
    <3>1. PICK q \in Proc, g \in Fd : y = <<q, g>>
      OBVIOUS
    <3>2. ~(q = p /\ g = f)
      BY <3>1
    <3>3. fdmap'[q][g] = fdmap[q][g]
      BY <1>2, <3>2
    <3>4. QED
      BY <3>1, <3>3
  <2>2. QED
    BY <2>1
<1>4. T \in SUBSET S /\ U \in SUBSET S /\ a \in S
  OBVIOUS
<1>5. (a \in T <=> fdmap[p][f] = d) /\ (a \in U <=> x = d)
  BY <1>2
<1>6. /\ Cardinality(T) = NamedBy(d) /\ Cardinality(U) = NamedBy(d)'
  BY DEF NamedBy, NameCount
<1> HIDE DEF S, T, U, a
<1>7. Cardinality(U) \in Nat /\ Cardinality(U) + One(a \in T) = Cardinality(T) + One(a \in U)
  BY <1>1, <1>3, <1>4, CountOne
<1>8. QED
  BY <1>5, <1>6, <1>7 DEF One, Same

\* A process that had none gets all the descriptors of another.
RowOf(x, d) == {f \in Fd : fdmap[x][f] = d}

LEMMA RowStep ==
  ASSUME NEW d, NEW p \in Proc, NEW q \in Proc,
         fdmap \in [Proc -> [Fd -> Desc \cup {NULL}]], fdmap' = [fdmap EXCEPT ![q] = fdmap[p]]
  PROVE  /\ NamedBy(d)' \in Nat
         /\ NamedBy(d)' + Cardinality(RowOf(q, d)) = NamedBy(d) + Cardinality(RowOf(p, d))
<1> DEFINE T == {y \in Proc \X Fd : fdmap[y[1]][y[2]] = d}
           U == {y \in Proc \X Fd : fdmap'[y[1]][y[2]] = d}
           t == RowOf(q, d)
           u == RowOf(p, d)
<1>1. fdmap'[q] = fdmap[p] /\ \A x \in Proc \ {q} : fdmap'[x] = fdmap[x]
  OBVIOUS
<1>2. /\ T \in SUBSET (Proc \X Fd) /\ U \in SUBSET (Proc \X Fd)
      /\ t \in SUBSET Fd /\ u \in SUBSET Fd
  BY DEF RowOf
<1>3. \A x \in Proc \ {q} : \A h \in Fd : <<x, h>> \in T <=> <<x, h>> \in U
  BY <1>1
<1>4. \A h \in Fd : (h \in t <=> <<q, h>> \in T) /\ (h \in u <=> <<q, h>> \in U)
  BY <1>1 DEF RowOf
<1>5. Cardinality(T) = NamedBy(d) /\ Cardinality(U) = NamedBy(d)'
  BY DEF NamedBy, NameCount
<1> HIDE DEF T, U, t, u
<1>6. Rows(Proc, Fd, T, U, q, t, u)
  BY <1>2, <1>3, <1>4, Finite DEF Rows
<1>7. Cardinality(U) \in Nat /\ Cardinality(U) + Cardinality(t) = Cardinality(T) + Cardinality(u)
  BY <1>6, CountRow
<1>8. QED
  BY <1>5, <1>7 DEF t, u

-----------------------------------------------------------------------------
(* The calls on descriptors *)

Touchable(p, d) == \/ \E q \in Proc, f \in Fd : fdmap[q][f] = d
                   \/ Working(p, d)
                   \/ file[d].refcnt = 0

\* A step of a process that goes on where r says, with what j says in hand: the
\* counts of vnodes and of entries follow, an entry that another process works on
\* or a descriptor names stays, and p has what it needs there.
FdVnodes(p, r, j) ==
  \A v \in Vnode :
    /\ InFiles(v)' \in Nat
    /\ vnode'[v].refcnt + Held(loc[p], v) + Same(io[p].vn, v) + InFiles(v)
       = vnode[v].refcnt + Held(r, v) + Same(j.vn, v) + InFiles(v)'

FdDescs(p, r, j) ==
  /\ file' \in [Desc -> FileType] /\ fdmap' \in [Proc -> [Fd -> Desc \cup {NULL}]]
  /\ \A d \in Desc :
       /\ NamedBy(d)' \in Nat
       /\ file'[d].refcnt + WorkOn(loc[p], io[p], d) + NamedBy(d)
          = file[d].refcnt + WorkOn(r, j, d) + NamedBy(d)'
       /\ file'[d].ops = "vfs" <=> file'[d].vnode # NULL
       /\ file'[d] = file[d] \/ Touchable(p, d)
       /\ file'[d].ops # "none" \/ file'[d].refcnt = 0 \/ file[d].ops = "none"
       /\ \A q \in Proc, f \in Fd : fdmap'[q][f] = d => file[d].ops # "none"
  /\ \A q \in Proc \ {p} : loc[q].pc # "idle" => fdmap'[q] = fdmap[q]

FdHandles(p, r, j) ==
  /\ j.vn # NULL => r.pc = "close"
  /\ r.pc \in Busying => j.desc # NULL
  /\ r.pc = "fill" => file'[j.desc].refcnt = 1 /\ file'[j.desc].ops = "none"
  /\ r.pc \in {"install", "io", "put"} => file'[j.desc].ops # "none"
  /\ r.pc = "close" => j.op \in {"idle", "dup2"}
  /\ r.pc = "dup2" \/ (r.pc = "close" /\ j.op = "dup2") =>
       /\ j.fd \in Fd /\ fdmap'[p][j.fd] = NULL /\ j.desc # NULL
       /\ \E f \in Fd : fdmap'[p][f] = j.desc

LEMMA FdDescsKept ==
  ASSUME IInv, NEW p \in Proc, NEW r \in Loc, NEW j \in IoType,
         loc' = [loc EXCEPT ![p] = r], io' = [io EXCEPT ![p] = j],
         FdDescs(p, r, j), FdHandles(p, r, j)
  PROVE  DescRefs' /\ FilesFit' /\ \A q \in Proc : Handles(q)'
<1>1. /\ loc \in [Proc -> Loc] /\ io \in [Proc -> IoType] /\ file \in [Desc -> FileType]
      /\ fdmap \in [Proc -> [Fd -> Desc \cup {NULL}]]
      /\ DescRefs /\ \A q \in Proc : Handles(q)
  BY DEF IInv, Typed
<1>2. /\ loc'[p] = r /\ io'[p] = j
      /\ \A q \in Proc \ {p} : loc'[q] = loc[q] /\ io'[q] = io[q]
  BY <1>1
<1>3. FilesFit'
  BY DEF FdDescs, FilesFit
<1>4. ASSUME NEW d \in Desc PROVE file'[d].refcnt = NamedBy(d)' + InUse(d)'
  <2>1. file[d].refcnt = NamedBy(d) + InUse(d)
    BY <1>1, DescSum
  <2>2. InUse(d)' \in Nat /\ InUse(d)' + WorkOn(loc[p], io[p], d) = InUse(d) + WorkOn(r, j, d)
    BY <1>1, WorkStep
  <2>3. /\ NamedBy(d)' \in Nat
        /\ file'[d].refcnt + WorkOn(loc[p], io[p], d) + NamedBy(d)
           = file[d].refcnt + WorkOn(r, j, d) + NamedBy(d)'
    BY DEF FdDescs
  <2>4. NamedBy(d) \in Nat /\ InUse(d) \in Nat
    BY NamedNat DEF NamedBy, InUse
  <2>5. /\ WorkOn(loc[p], io[p], d) \in Nat /\ WorkOn(r, j, d) \in Nat
        /\ file'[d].refcnt \in Nat /\ file[d].refcnt \in Nat
    BY <1>1 DEF WorkOn, FdDescs, FileType
  <2>6. QED
    BY <2>1, <2>2, <2>3, <2>4, <2>5
<1>5. ASSUME NEW d \in Desc, NEW q \in Proc, NEW f \in Fd, fdmap'[q][f] = d
      PROVE  file'[d].ops # "none"
  <2>1. file[d].ops # "none"
    BY <1>5 DEF FdDescs
  <2>2. NamedBy(d)' > 0 /\ NamedBy(d)' \in Nat /\ InUse(d)' \in Nat
    BY <1>5, NamedNat DEF NamedBy, InUse
  <2>3. file'[d].refcnt # 0
    BY <1>4, <2>2
  <2>4. QED
    BY <2>1, <2>3 DEF FdDescs
<1>6. DescRefs'
  <2>1. \A q \in Proc, d \in Desc : Working(q, d)' <=> Works(loc'[q], io'[q], d)
    BY DEF Working, Works, Busying
  <2>2. \A d \in Desc : {q \in Proc : Working(q, d)'} = {q \in Proc : Works(loc'[q], io'[q], d)}
    BY <2>1
  <2>3. QED
    BY <1>4, <1>5, <2>2 DEF DescRefs, NamedBy, InUse, NameCount, UseCount
<1>7. Handles(p)'
  BY <1>2 DEF Handles, FdHandles, Doubling
<1>8. ASSUME NEW q \in Proc \ {p} PROVE Handles(q)'
  <2>1. Handles(q) /\ loc'[q] = loc[q] /\ io'[q] = io[q] /\ io[q] \in IoType
    BY <1>1, <1>2
  <2>2. ASSUME loc[q].pc = "fill"
        PROVE  file'[io[q].desc].refcnt = 1 /\ file'[io[q].desc].ops = "none"
    <3>1. PICK d \in Desc : d = io[q].desc
      BY <2>1, <2>2 DEF Handles, Busying, IoType
    <3>2. file[d].refcnt = 1 /\ file[d].ops = "none"
      BY <2>1, <2>2, <3>1 DEF Handles
    <3>3. \A x \in Proc, f \in Fd : fdmap[x][f] # d
      BY <1>1, <3>2 DEF DescRefs
    <3>4. ~Working(p, d)
      <4>1. SUFFICES ASSUME Working(p, d) PROVE FALSE
        OBVIOUS
      <4>2. Working(q, d)
        BY <2>2, <3>1 DEF Working
      <4>3. InUse(d) > 1 /\ NamedBy(d) \in Nat /\ InUse(d) \in Nat
        BY <4>1, <4>2, NamedNat DEF NamedBy, InUse, Working, Works, Busying
      <4>4. file[d].refcnt = NamedBy(d) + InUse(d)
        BY <1>1, DescSum
      <4>5. QED
        BY <3>2, <4>3, <4>4
    <3>5. ~Touchable(p, d)
      BY <3>2, <3>3, <3>4 DEF Touchable
    <3>6. file'[d] = file[d]
      BY <3>5 DEF FdDescs
    <3>7. QED
      BY <3>1, <3>2, <3>6
  <2>3. ASSUME loc[q].pc \in {"install", "io", "put"} PROVE file'[io[q].desc].ops # "none"
    <3>1. PICK d \in Desc : d = io[q].desc
      BY <2>1, <2>3 DEF Handles, Busying, IoType
    <3>2. file[d].ops # "none"
      BY <2>1, <2>3, <3>1 DEF Handles
    <3>3. Works(loc'[q], io'[q], d)
      BY <2>1, <2>3, <3>1 DEF Works, Busying
    <3>4. InUse(d)' > 0 /\ InUse(d)' \in Nat /\ NamedBy(d)' \in Nat
      BY <3>3, NamedNat DEF NamedBy, InUse
    <3>5. file'[d].refcnt # 0
      BY <1>4, <3>4
    <3>6. QED
      BY <3>1, <3>2, <3>5 DEF FdDescs
  <2>4. Doubling(q)' <=> Doubling(q)
    BY <2>1 DEF Doubling
  <2>5. Doubling(q) => fdmap'[q] = fdmap[q]
    BY DEF Doubling, FdDescs
  <2>6. QED
    BY <2>1, <2>2, <2>3, <2>4, <2>5 DEF Handles
<1>9. QED
  BY <1>3, <1>6, <1>7, <1>8

LEMMA FdKept ==
  ASSUME IInv, NEW p \in Proc, NEW r \in Loc, NEW j \in IoType,
         loc' = [loc EXCEPT ![p] = r], io' = [io EXCEPT ![p] = j], UNCHANGED mnt,
         Steady, FdVnodes(p, r, j), FdDescs(p, r, j), FdHandles(p, r, j),
         Holding(r), Within(r), r.pc \notin Mounting, r.pc \notin {"link", "readlink"},
         scratch' \in Nat, scratch' + r.buf = scratch + loc[p].buf, TmpOK(tmp')
  PROVE  IInv'
<1>1. /\ loc \in [Proc -> Loc] /\ io \in [Proc -> IoType]  /\ vnode \in [Vnode -> Fields]
      /\ mnt \in [Slot -> MountType]
  BY DEF IInv, Typed
<1>2. ASSUME NEW v \in Vnode
      PROVE  /\ Closing(v)' \in Nat /\ InFiles(v)' \in Nat
             /\ vnode'[v].refcnt + Held(loc[p], v) + Closing(v) + InFiles(v)
                = vnode[v].refcnt + Held(r, v) + Closing(v)' + InFiles(v)'
  <2>1. Closing(v)' \in Nat /\ Closing(v)' + Same(io[p].vn, v) = Closing(v) + Same(j.vn, v)
    BY <1>1, ClosingStep
  <2>2. /\ InFiles(v)' \in Nat
        /\ vnode'[v].refcnt + Held(loc[p], v) + Same(io[p].vn, v) + InFiles(v)
           = vnode[v].refcnt + Held(r, v) + Same(j.vn, v) + InFiles(v)'
    BY DEF FdVnodes
  <2>3. /\ Closing(v) \in Nat /\ InFiles(v) \in Nat /\ Held(loc[p], v) \in Nat
        /\ Held(r, v) \in Nat /\ Same(io[p].vn, v) \in Nat /\ Same(j.vn, v) \in Nat
    BY OthersNat DEF Held, One, Same
  <2>4. vnode'[v].refcnt \in Nat /\ vnode[v].refcnt \in Nat
    BY <1>1 DEF Steady, Fields
  <2> DEFINE a == vnode'[v].refcnt
             b == vnode[v].refcnt
             h == Held(loc[p], v)
             k == Held(r, v)
             s == Same(io[p].vn, v)
             t == Same(j.vn, v)
             c == Closing(v)
             e == Closing(v)'
             f == InFiles(v)
             g == InFiles(v)'
  <2>5. /\ a \in Nat /\ b \in Nat /\ h \in Nat /\ k \in Nat /\ s \in Nat /\ t \in Nat
        /\ c \in Nat /\ e \in Nat /\ f \in Nat /\ g \in Nat
    BY <2>1, <2>2, <2>3, <2>4
  <2>6. e + s = c + t
    BY <2>1
  <2>7. a + h + s + f = b + k + t + g
    BY <2>2
  <2> HIDE DEF a, b, h, k, s, t, c, e, f, g
  <2>8. a + h + c + f = b + k + e + g
    BY <2>5, <2>6, <2>7
  <2>9. QED
    BY <2>5, <2>8 DEF a, b, h, k, c, e, f, g
<1>3. /\ loc' \in [Proc -> Loc]
      /\ VnodeRefs' /\ BuffersReturned' /\ VnodesFit' /\ MountsFit'
      /\ \A q \in Proc : Holding(loc'[q]) /\ Within(loc'[q])
      /\ \A q \in Proc : MakingMount(q)' /\ AtLink(q)'
  BY <1>2, VfsStep
<1>4. DescRefs' /\ FilesFit' /\ \A q \in Proc : Handles(q)'
  BY FdDescsKept
<1>5. Typed'
  BY <1>1, <1>3 DEF Typed, Steady, FdDescs
<1>6. QED
  BY <1>3, <1>4, <1>5 DEF IInv

\* Where a process is that holds neither vnodes nor buffers itself.
Standing(c) == [Idle EXCEPT !.pc = c]
Free(r) == r.pc \in Handling \cup {"idle"}

LEMMA StandFact ==
  ASSUME NEW c \in Handling \cup {"idle"}
  PROVE  /\ Standing(c) \in Loc /\ Standing(c).pc = c /\ Quiet(Standing(c))
         /\ Holding(Standing(c)) /\ Within(Standing(c)) /\ Free(Standing(c))
         /\ Standing(c).pc \notin Mounting /\ Standing(c).pc \notin {"link", "readlink"}
<1>1. c \in Points
  BY DEF Points
<1>2. Standing(c) \in Loc
  BY <1>1, IdleFact DEF Standing, Loc
<1>3. Standing(c).pc = c /\ Quiet(Standing(c))
  BY DEF Standing, Idle, Quiet
<1> HIDE DEF Standing
<1>4. Holding(Standing(c))
  BY <1>3, QuietHolds
<1>5. /\ c \notin Mounting /\ c \notin {"link", "readlink"} /\ c \notin Calling
      /\ c \notin Walking /\ c # "mount" /\ c # "namebuf" /\ c \notin {"names", "bufs"}
  BY DEF Handling, Mounting, Calling, Walking
<1>6. Within(Standing(c))
  BY <1>3, <1>5 DEF Within
<1>7. QED
  BY <1>2, <1>3, <1>4, <1>5, <1>6 DEF Free

LEMMA StandIdle == Standing("idle") = Idle
  BY DEF Standing, Idle

LEMMA FreeQuiet ==
  ASSUME IInv, NEW p \in Proc, Free(loc[p])
  PROVE  /\ Quiet(loc[p]) /\ loc[p].buf = 0 /\ \A v \in Vnode : Held(loc[p], v) = 0
<1>1. Holding(loc[p])
  BY DEF IInv
<1>2. Quiet(loc[p])
  BY <1>1, HoldsQuiet DEF Free
<1>3. QED
  BY <1>2, QuietHolds DEF Quiet

Resting(r) == r \in Loc /\ Quiet(r) /\ Holding(r) /\ Within(r) /\ Free(r)

LEMMA RestFact ==
  ASSUME IInv, NEW p \in Proc, Free(loc[p])
  PROVE  Resting(loc[p])
  BY FreeQuiet DEF IInv, Typed, Resting

\* A step between two such points.
LEMMA RestKept ==
  ASSUME IInv, NEW p \in Proc, NEW r, NEW j \in IoType, Free(loc[p]), Resting(r),
         loc' = [loc EXCEPT ![p] = r], io' = [io EXCEPT ![p] = j],
         UNCHANGED <<mnt, scratch>>, Steady, TmpOK(tmp'),
         FdVnodes(p, r, j), FdDescs(p, r, j), FdHandles(p, r, j)
  PROVE  IInv'
<1>1. /\ r \in Loc /\ Quiet(r) /\ Holding(r) /\ Within(r)
  BY DEF Resting
<1>2. scratch \in Nat
  BY DEF IInv, Typed
<1>3. scratch' \in Nat /\ scratch' + r.buf = scratch + loc[p].buf
  BY <1>1, <1>2, FreeQuiet DEF Quiet
<1>4. r.pc \notin Mounting /\ r.pc \notin {"link", "readlink"}
  BY DEF Resting, Free, Handling, Mounting
<1>5. QED
  BY <1>1, <1>3, <1>4, FdKept

\* A step that changes one entry of the pool.
OneFile(p, r, j, d, x) ==
  /\ d \in Desc /\ x \in FileType /\ (x.ops = "vfs" <=> x.vnode # NULL) /\ Touchable(p, d)
  /\ file' = [file EXCEPT ![d] = x]
  /\ x.ops # "none" \/ x.refcnt = 0 \/ file[d].ops = "none"
  /\ NamedBy(d)' \in Nat
  /\ x.refcnt + WorkOn(loc[p], io[p], d) + NamedBy(d)
     = file[d].refcnt + WorkOn(r, j, d) + NamedBy(d)'
  /\ \A e \in Desc \ {d} :
       /\ NamedBy(e)' \in Nat
       /\ WorkOn(loc[p], io[p], e) + NamedBy(e) = WorkOn(r, j, e) + NamedBy(e)'

MapKept(p) ==
  /\ fdmap' \in [Proc -> [Fd -> Desc \cup {NULL}]]
  /\ \A q \in Proc, f \in Fd :
       fdmap'[q][f] # NULL => file[fdmap'[q][f]].ops # "none"
  /\ \A q \in Proc \ {p} : loc[q].pc # "idle" => fdmap'[q] = fdmap[q]

LEMMA OneFileDescs ==
  ASSUME IInv, NEW p \in Proc, NEW r, NEW j, NEW d, NEW x,
         OneFile(p, r, j, d, x), MapKept(p)
  PROVE  FdDescs(p, r, j)
<1>1. file \in [Desc -> FileType] /\ FilesFit /\ NULL \notin Desc
  BY Constants DEF IInv, Typed
<1>2. d \in Desc /\ x \in FileType /\ file' = [file EXCEPT ![d] = x]
  BY DEF OneFile
<1>3. file'[d] = x /\ \A e \in Desc \ {d} : file'[e] = file[e]
  BY <1>1, <1>2
<1>4. file' \in [Desc -> FileType]
  BY <1>1, <1>2
<1>5. ASSUME NEW e \in Desc
      PROVE /\ NamedBy(e)' \in Nat
            /\ file'[e].refcnt + WorkOn(loc[p], io[p], e) + NamedBy(e)
               = file[e].refcnt + WorkOn(r, j, e) + NamedBy(e)'
  <2>1. CASE e = d
    BY <1>3, <2>1 DEF OneFile
  <2>2. CASE e # d
    <3>1. file[e].refcnt \in Nat /\ file'[e] = file[e]
      BY <1>1, <1>3, <2>2 DEF FileType
    <3>2. /\ WorkOn(loc[p], io[p], e) \in Nat /\ WorkOn(r, j, e) \in Nat
          /\ NamedBy(e) \in Nat
      BY NamedNat DEF WorkOn, NamedBy
    <3>3. /\ NamedBy(e)' \in Nat
          /\ WorkOn(loc[p], io[p], e) + NamedBy(e) = WorkOn(r, j, e) + NamedBy(e)'
      BY <2>2 DEF OneFile
    <3>4. QED
      BY <3>1, <3>2, <3>3
  <2>3. QED
    BY <2>1, <2>2
<1>6. ASSUME NEW e \in Desc
      PROVE /\ file'[e].ops = "vfs" <=> file'[e].vnode # NULL
            /\ file'[e] = file[e] \/ Touchable(p, e)
            /\ file'[e].ops # "none" \/ file'[e].refcnt = 0 \/ file[e].ops = "none"
  <2>1. CASE e = d
    BY <1>3, <2>1 DEF OneFile
  <2>2. CASE e # d
    BY <1>1, <1>3, <2>2 DEF FilesFit
  <2>3. QED
    BY <2>1, <2>2
<1>7. \A e \in Desc : \A q \in Proc, f \in Fd : fdmap'[q][f] = e => file[e].ops # "none"
  BY <1>1 DEF MapKept
<1>8. QED
  BY <1>4, <1>5, <1>6, <1>7 DEF FdDescs, MapKept

\* An entry that somebody uses.
LEMMA Entry ==
  ASSUME IInv, NEW p \in Proc, NEW d \in Desc,
         (\E f \in Fd : fdmap[p][f] = d) \/ Works(loc[p], io[p], d)
  PROVE  file[d] \in FileType /\ file[d].refcnt > 0 /\ Touchable(p, d)
<1>1. file[d].refcnt = NamedBy(d) + InUse(d)
  BY DescSum DEF IInv
<1>2. NamedBy(d) \in Nat /\ InUse(d) \in Nat
  BY NamedNat DEF NamedBy, InUse
<1>3. NamedBy(d) > 0 \/ InUse(d) > 0
  BY NamedNat DEF NamedBy, InUse
<1>4. file[d].refcnt > 0
  BY <1>1, <1>2, <1>3
<1>5. Touchable(p, d)
  BY DEF Touchable, Working, Works, Busying
<1>6. QED
  BY <1>4, <1>5 DEF IInv, Typed

\* What vfs_fd_release asks of its caller: one reference to d is gone.
LetGo(p, d, op, after) ==
  /\ d \in Desc /\ op \in {"idle", "dup2"} /\ after.desc \in Desc \cup {NULL} /\ after.fd \in Nat
  /\ Free(loc[p]) /\ io[p].vn = NULL
  /\ (\E f \in Fd : fdmap[p][f] = d) \/ Works(loc[p], io[p], d)
  /\ \A e \in Desc : /\ NamedBy(e)' \in Nat
                     /\ WorkOn(loc[p], io[p], e) + NamedBy(e) = NamedBy(e)' + Same(d, e)
  /\ op = "dup2" => /\ after.fd \in Fd /\ fdmap'[p][after.fd] = NULL /\ after.desc # NULL
                    /\ \E f \in Fd : fdmap'[p][f] = after.desc

\* vfs_fd_release
LEMMA ReleaseKept ==
  ASSUME IInv, NEW p \in Proc, NEW d, NEW op, NEW after, FdRelease(p, d, op, after),
         LetGo(p, d, op, after), MapKept(p), UNCHANGED <<vnode, mnt, tmp, scratch>>
  PROVE  IInv'
<1>1. /\ d \in Desc /\ op \in {"idle", "dup2"} /\ after.desc \in Desc \cup {NULL}
      /\ after.fd \in Nat /\ Free(loc[p]) /\ io[p].vn = NULL
      /\ (\E f \in Fd : fdmap[p][f] = d) \/ Works(loc[p], io[p], d)
  BY DEF LetGo
<1>2. file[d] \in FileType /\ file[d].refcnt > 0 /\ Touchable(p, d)
  BY <1>1, Entry
<1>3. /\ Steady /\ TmpOK(tmp') /\ NULL \notin Vnode /\ NULL \notin Desc /\ FilesFit
      /\ file \in [Desc -> FileType]
  BY SameSteady, Constants DEF IInv, Typed
<1>4. \A v \in Vnode : Held(loc[p], v) = 0 /\ Same(io[p].vn, v) = 0 /\ Same(NULL, v) = 0
  BY <1>1, <1>3, FreeQuiet DEF Same
<1>5. \A v \in Vnode : InFiles(v) \in Nat /\ vnode'[v].refcnt = vnode[v].refcnt /\ vnode[v].refcnt \in Nat
  BY OthersNat DEF IInv, Typed, Fields
<1>6. ASSUME NEW c \in {"idle", "dup2", "close"}, NEW j, NEW e \in Desc
      PROVE  /\ WorkOn(Standing(c), j, e) = 0 /\ c \in Handling \cup {"idle"}
             /\ \A v \in Vnode : Held(Standing(c), v) = 0
  <2>1. c \in Handling \cup {"idle"} /\ c \notin Busying
    BY DEF Handling, Busying
  <2>2. Standing(c).pc = c /\ Quiet(Standing(c))
    BY <2>1, StandFact
  <2>3. QED
    BY <2>1, <2>2, QuietHolds DEF WorkOn, Works
<1>7. ASSUME NEW c \in {"idle", "dup2", "close"}, NEW j, NEW x \in FileType,
             file' = [file EXCEPT ![d] = x], x.refcnt + 1 = file[d].refcnt,
             x.ops = "vfs" <=> x.vnode # NULL, x.refcnt = 0 \/ x.ops = file[d].ops
      PROVE  FdDescs(p, Standing(c), j)
  <2>1. /\ NamedBy(d)' \in Nat /\ WorkOn(loc[p], io[p], d) \in Nat /\ NamedBy(d) \in Nat
        /\ WorkOn(loc[p], io[p], d) + NamedBy(d) = NamedBy(d)' + 1
    BY <1>1, NamedNat DEF LetGo, Same, NamedBy, WorkOn
  <2>2. WorkOn(Standing(c), j, d) = 0 /\ x.refcnt \in Nat
    BY <1>1, <1>6 DEF FileType
  <2>3. x.refcnt + WorkOn(loc[p], io[p], d) + NamedBy(d)
        = file[d].refcnt + WorkOn(Standing(c), j, d) + NamedBy(d)'
    BY <1>7, <2>1, <2>2
  <2>4. ASSUME NEW e \in Desc \ {d}
        PROVE /\ NamedBy(e)' \in Nat
              /\ WorkOn(loc[p], io[p], e) + NamedBy(e) = WorkOn(Standing(c), j, e) + NamedBy(e)'
    <3>1. /\ NamedBy(e)' \in Nat /\ WorkOn(loc[p], io[p], e) + NamedBy(e) = NamedBy(e)' + Same(d, e)
      BY DEF LetGo
    <3>2. Same(d, e) = 0 /\ WorkOn(Standing(c), j, e) = 0
      BY <1>6 DEF Same
    <3>3. QED
      BY <3>1, <3>2
  <2>5. x.ops # "none" \/ x.refcnt = 0 \/ file[d].ops = "none"
    BY <1>7
  <2>6. OneFile(p, Standing(c), j, d, x)
    BY <1>1, <1>2, <1>7, <2>1, <2>3, <2>4, <2>5 DEF OneFile
  <2>7. QED
    BY <2>6, OneFileDescs
<1>8. CASE file[d].refcnt > 1
  <2> DEFINE x == [file[d] EXCEPT !.refcnt = @ - 1]
             j == [NoIo EXCEPT !.desc = after.desc, !.fd = after.fd]
  <2>1. /\ file' = [file EXCEPT ![d] = x] /\ io' = [io EXCEPT ![p] = j]
        /\ loc' = [loc EXCEPT ![p] = Standing(op)]
    BY <1>8 DEF FdRelease, Move, Standing
  <2>2. /\ x \in FileType /\ x.refcnt = file[d].refcnt - 1 /\ x.ops = file[d].ops
        /\ x.vnode = file[d].vnode
    BY <1>2, <1>8 DEF FileType
  <2>3. j \in IoType /\ j.desc = after.desc /\ j.fd = after.fd /\ j.vn = NULL
    BY <1>1 DEF NoIo, IoType
  <2> HIDE DEF x, j
  <2>4. x.refcnt + 1 = file[d].refcnt /\ (x.ops = "vfs" <=> x.vnode # NULL)
    BY <1>1, <1>2, <1>3, <2>2 DEF FileType, FilesFit
  <2>5. FdDescs(p, Standing(op), j)
    BY <1>1, <1>7, <2>1, <2>2, <2>4
  <2>6. FdVnodes(p, Standing(op), j)
    <3>1. ASSUME NEW v \in Vnode
          PROVE /\ InFiles(v)' \in Nat
                /\ vnode'[v].refcnt + Held(loc[p], v) + Same(io[p].vn, v) + InFiles(v)
                   = vnode[v].refcnt + Held(Standing(op), v) + Same(j.vn, v) + InFiles(v)'
      <4>1. InFiles(v)' \in Nat /\ InFiles(v)' + Same(file[d].vnode, v) = InFiles(v) + Same(x.vnode, v)
        BY <1>1, <1>3, <2>1, FilesStep
      <4>2. InFiles(v)' = InFiles(v)
        BY <1>5, <2>2, <4>1 DEF Same
      <4>3. Held(Standing(op), v) = 0
        BY <1>1, <1>6
      <4>4. QED
        BY <1>4, <1>5, <2>3, <4>2, <4>3
    <3>2. QED
      BY <3>1 DEF FdVnodes
  <2>7. FdHandles(p, Standing(op), j)
    <3>1. Standing(op).pc = op
      BY <1>1, <1>6, StandFact
    <3>2. QED
      BY <1>1, <2>3, <3>1 DEF FdHandles, LetGo, Busying
  <2>8. QED
    BY <1>1, <1>3, <2>1, <2>3, <2>5, <2>6, <2>7, StandFact, RestKept DEF Resting, Handling
<1>9. CASE ~(file[d].refcnt > 1)
  <2> DEFINE j == [NoIo EXCEPT !.desc = after.desc, !.fd = after.fd,
                               !.vn = file[d].vnode, !.op = op]
  <2>1. /\ file' = [file EXCEPT ![d] = BlankFile] /\ io' = [io EXCEPT ![p] = j]
        /\ loc' = [loc EXCEPT ![p] = Standing("close")]
    BY <1>9 DEF FdRelease, Move, Standing
  <2>2. /\ BlankFile \in FileType /\ BlankFile.refcnt = 0 /\ BlankFile.ops = "none"
        /\ BlankFile.vnode = NULL
    BY DEF FileType, BlankFile
  <2>3. /\ j \in IoType /\ j.desc = after.desc /\ j.fd = after.fd /\ j.vn = file[d].vnode
        /\ j.op = op
    BY <1>1, <1>2 DEF NoIo, IoType, FileType
  <2> HIDE DEF j
  <2>4. /\ BlankFile.refcnt + 1 = file[d].refcnt
        /\ BlankFile.ops = "vfs" <=> BlankFile.vnode # NULL
    BY <1>2, <1>9, <2>2 DEF FileType
  <2>5. FdDescs(p, Standing("close"), j)
    BY <1>1, <1>7, <2>1, <2>2, <2>4
  <2>6. FdVnodes(p, Standing("close"), j)
    <3>1. ASSUME NEW v \in Vnode
          PROVE /\ InFiles(v)' \in Nat
                /\ vnode'[v].refcnt + Held(loc[p], v) + Same(io[p].vn, v) + InFiles(v)
                   = vnode[v].refcnt + Held(Standing("close"), v) + Same(j.vn, v) + InFiles(v)'
      <4>1. /\ InFiles(v)' \in Nat
            /\ InFiles(v)' + Same(file[d].vnode, v) = InFiles(v) + Same(BlankFile.vnode, v)
        BY <1>1, <1>3, <2>1, FilesStep
      <4>2. Same(BlankFile.vnode, v) = 0 /\ Same(file[d].vnode, v) \in Nat
        BY <1>4, <2>2 DEF Same
      <4>3. InFiles(v)' + Same(j.vn, v) = InFiles(v)
        BY <1>5, <2>3, <4>1, <4>2
      <4>4. Held(Standing("close"), v) = 0
        BY <1>1, <1>6
      <4>5. QED
        BY <1>4, <1>5, <2>3, <4>1, <4>2, <4>3, <4>4
    <3>2. QED
      BY <3>1 DEF FdVnodes
  <2>7. FdHandles(p, Standing("close"), j)
    <3>1. Standing("close").pc = "close"
      BY StandFact DEF Handling
    <3>2. QED
      BY <1>1, <2>3, <3>1 DEF FdHandles, LetGo, Busying
  <2>8. QED
    BY <1>1, <1>3, <2>1, <2>3, <2>5, <2>6, <2>7, StandFact, RestKept DEF Resting, Handling
<1>10. QED
  BY <1>8, <1>9

\* What a descriptor names is complete.
LEMMA Named ==
  ASSUME IInv, NEW q \in Proc, NEW g \in Fd, fdmap[q][g] # NULL
  PROVE  fdmap[q][g] \in Desc /\ file[fdmap[q][g]].ops # "none"
<1>1. fdmap \in [Proc -> [Fd -> Desc \cup {NULL}]]
  BY DEF IInv, Typed
<1>2. PICK d \in Desc : d = fdmap[q][g]
  BY <1>1
<1>3. file[d].ops # "none"
  BY <1>2 DEF IInv, DescRefs
<1>4. QED
  BY <1>2, <1>3

\* A descriptor of a process is set; the others stay.
Sets(p, f, y) ==
  /\ f \in Fd /\ y \in Desc \cup {NULL} /\ fdmap' = [fdmap EXCEPT ![p][f] = y]
  /\ y # NULL => file[y].ops # "none"

LEMMA SetDescriptor ==
  ASSUME IInv, NEW p \in Proc, NEW f, NEW y, Sets(p, f, y)
  PROVE  /\ MapKept(p) /\ fdmap'[p][f] = y
         /\ \A g \in Fd \ {f} : fdmap'[p][g] = fdmap[p][g]
         /\ \A e \in Desc : /\ NamedBy(e)' \in Nat
                            /\ NamedBy(e)' + Same(fdmap[p][f], e) = NamedBy(e) + Same(y, e)
<1>1. /\ fdmap \in [Proc -> [Fd -> Desc \cup {NULL}]] /\ DescRefs /\ NULL \notin Desc
      /\ f \in Fd /\ y \in Desc \cup {NULL} /\ fdmap' = [fdmap EXCEPT ![p][f] = y]
      /\ y # NULL => file[y].ops # "none"
  BY Constants DEF IInv, Typed, Sets
<1>2. \A q \in Proc, g \in Fd : fdmap[q][g] # NULL => file[fdmap[q][g]].ops # "none"
  BY Named
<1>3. fdmap' \in [Proc -> [Fd -> Desc \cup {NULL}]]
  BY <1>1
<1>4. \A q \in Proc, g \in Fd : fdmap'[q][g] = IF q = p /\ g = f THEN y ELSE fdmap[q][g]
  BY <1>1
<1>5. \A q \in Proc, g \in Fd : fdmap'[q][g] # NULL => file[fdmap'[q][g]].ops # "none"
  BY <1>1, <1>2, <1>4
<1>6. \A q \in Proc \ {p} : fdmap'[q] = fdmap[q]
  BY <1>1
<1>7. MapKept(p)
  BY <1>3, <1>5, <1>6 DEF MapKept
<1>8. \A e \in Desc : /\ NamedBy(e)' \in Nat
                      /\ NamedBy(e)' + Same(fdmap[p][f], e) = NamedBy(e) + Same(y, e)
  BY <1>1, NameStep
<1>9. QED
  BY <1>1, <1>4, <1>7, <1>8

LEMMA SameDescriptors ==
  ASSUME IInv, NEW p \in Proc, UNCHANGED fdmap
  PROVE  MapKept(p) /\ \A e \in Desc : NamedBy(e)' = NamedBy(e) /\ NamedBy(e) \in Nat
<1>1. fdmap \in [Proc -> [Fd -> Desc \cup {NULL}]] /\ DescRefs /\ NULL \notin Desc
  BY Constants DEF IInv, Typed
<1>2. \A q \in Proc, g \in Fd : fdmap[q][g] # NULL => file[fdmap[q][g]].ops # "none"
  BY Named
<1>3. QED
  BY <1>1, <1>2, NamedNat DEF MapKept, NamedBy

LEMMA IdleHandles ==
  ASSUME IInv, NEW p \in Proc, loc[p].pc \in {"idle", "install", "io", "put", "dup2", "fill"}
  PROVE  /\ io[p].vn = NULL /\ io[p] \in IoType
         /\ loc[p].pc # "fill" => Free(loc[p])
         /\ loc[p].pc = "idle" => \A d \in Desc : WorkOn(loc[p], io[p], d) = 0
         /\ loc[p].pc \in Busying => /\ io[p].desc \in Desc
                                     /\ \A d \in Desc : WorkOn(loc[p], io[p], d) = Same(io[p].desc, d)
                                     /\ Works(loc[p], io[p], io[p].desc)
  BY DEF IInv, Typed, Handles, IoType, Free, Handling, WorkOn, Works, Busying, Same

\* open gives up at the table of descriptors; the end of a call
LEMMA PutAwayKept ==
  ASSUME IInv, NEW p \in Proc, loc[p].pc \in {"install", "put"},
         FdRelease(p, io[p].desc, "idle", NoNext), UNCHANGED <<vnode, mnt, tmp, scratch, fdmap>>
  PROVE  IInv'
<1>1. /\ io[p].vn = NULL /\ Free(loc[p]) /\ io[p].desc \in Desc
      /\ Works(loc[p], io[p], io[p].desc)
      /\ \A d \in Desc : WorkOn(loc[p], io[p], d) = Same(io[p].desc, d)
  BY IdleHandles DEF Busying
<1>2. MapKept(p) /\ \A e \in Desc : NamedBy(e)' = NamedBy(e) /\ NamedBy(e) \in Nat
  BY SameDescriptors
<1>3. \A e \in Desc : Same(io[p].desc, e) \in Nat
  BY DEF Same
<1>4. NoNext.desc = NULL /\ NoNext.fd = 0
  BY DEF NoNext
<1>5. \A e \in Desc : /\ NamedBy(e)' \in Nat
                      /\ WorkOn(loc[p], io[p], e) + NamedBy(e) = NamedBy(e)' + Same(io[p].desc, e)
  BY <1>1, <1>2, <1>3
<1>6. LetGo(p, io[p].desc, "idle", NoNext)
  BY <1>1, <1>4, <1>5 DEF LetGo
<1>7. QED
  BY <1>2, <1>6, ReleaseKept

LEMMA PutKept ==
  ASSUME IInv, NEW p \in Proc, Put(p)
  PROVE  IInv'
  BY PutAwayKept DEF Put, At

LEMMA CloseKept ==
  ASSUME IInv, NEW p \in Proc, NEW f \in OpenFds(p), Close(p, f)
  PROVE  IInv'
<1>1. /\ loc[p].pc = "idle" /\ fdmap' = [fdmap EXCEPT ![p][f] = NULL]
      /\ FdRelease(p, fdmap[p][f], "idle", NoNext) /\ UNCHANGED <<vnode, mnt, tmp, scratch>>
  BY DEF Close, At
<1>2. f \in Fd /\ fdmap[p][f] \in Desc /\ NULL \notin Desc
  BY Constants DEF OpenFds, FreeFds, IInv, Typed
<1>3. io[p].vn = NULL /\ Free(loc[p]) /\ \A d \in Desc : WorkOn(loc[p], io[p], d) = 0
  BY <1>1, IdleHandles
<1>4. /\ MapKept(p)
      /\ \A e \in Desc : /\ NamedBy(e)' \in Nat
                         /\ NamedBy(e)' + Same(fdmap[p][f], e) = NamedBy(e) + Same(NULL, e)
  <2>1. Sets(p, f, NULL)
    BY <1>1, <1>2 DEF Sets
  <2>2. QED
    BY <2>1, SetDescriptor
<1>5. ASSUME NEW e \in Desc
      PROVE  /\ NamedBy(e)' \in Nat
             /\ WorkOn(loc[p], io[p], e) + NamedBy(e) = NamedBy(e)' + Same(fdmap[p][f], e)
  <2>1. Same(NULL, e) = 0 /\ NamedBy(e) \in Nat
    BY <1>2, NamedNat DEF Same, NamedBy
  <2>2. QED
    BY <1>3, <1>4, <2>1
<1>6. NoNext.desc = NULL /\ NoNext.fd = 0
  BY DEF NoNext
<1>7. LetGo(p, fdmap[p][f], "idle", NoNext)
  BY <1>2, <1>3, <1>5, <1>6 DEF LetGo
<1>8. QED
  BY <1>1, <1>4, <1>7, ReleaseKept

\* Every entry keeps its vnode, and every vnode its count.
LEMMA StillVnodes ==
  ASSUME IInv, NEW p \in Proc, NEW r, NEW j, Free(loc[p]), Quiet(r), io[p].vn = NULL, j.vn = NULL,
         \A d \in Desc : file'[d].vnode = file[d].vnode,
         \A v \in Vnode : vnode'[v].refcnt = vnode[v].refcnt
  PROVE  FdVnodes(p, r, j)
<1>1. ASSUME NEW v \in Vnode
      PROVE  /\ InFiles(v)' \in Nat
             /\ vnode'[v].refcnt + Held(loc[p], v) + Same(io[p].vn, v) + InFiles(v)
                = vnode[v].refcnt + Held(r, v) + Same(j.vn, v) + InFiles(v)'
  <2>1. {d \in Desc : file'[d].vnode = v} = {d \in Desc : file[d].vnode = v}
    OBVIOUS
  <2>2. InFiles(v)' = InFiles(v) /\ InFiles(v) \in Nat
    BY <2>1, OthersNat DEF InFiles
  <2>3. Held(loc[p], v) = 0 /\ Held(r, v) = 0
    BY FreeQuiet, QuietHolds
  <2>4. QED
    BY <2>2, <2>3
<1>2. QED
  BY <1>1 DEF FdVnodes

LEMMA NoFileDescs ==
  ASSUME IInv, NEW p \in Proc, NEW r, NEW j, UNCHANGED file, MapKept(p),
         \A e \in Desc : /\ NamedBy(e)' \in Nat
                         /\ WorkOn(loc[p], io[p], e) + NamedBy(e) = WorkOn(r, j, e) + NamedBy(e)'
  PROVE  FdDescs(p, r, j)
<1>1. file \in [Desc -> FileType] /\ FilesFit /\ NULL \notin Desc
  BY Constants DEF IInv, Typed
<1>2. ASSUME NEW e \in Desc
      PROVE /\ NamedBy(e)' \in Nat
            /\ file'[e].refcnt + WorkOn(loc[p], io[p], e) + NamedBy(e)
               = file[e].refcnt + WorkOn(r, j, e) + NamedBy(e)'
  <2>1. file[e].refcnt \in Nat
    BY <1>1 DEF FileType
  <2>2. /\ WorkOn(loc[p], io[p], e) \in Nat /\ WorkOn(r, j, e) \in Nat
        /\ NamedBy(e) \in Nat
    BY NamedNat DEF WorkOn, NamedBy
  <2>3. QED
    BY <2>1, <2>2
<1>3. \A e \in Desc : /\ file'[e].ops = "vfs" <=> file'[e].vnode # NULL
                      /\ file'[e].ops # "none" \/ file'[e].refcnt = 0 \/ file[e].ops = "none"
  BY <1>1 DEF FilesFit
<1>4. \A e \in Desc : \A q \in Proc, f \in Fd : fdmap'[q][f] = e => file[e].ops # "none"
  BY <1>1 DEF MapKept
<1>5. QED
  BY <1>1, <1>2, <1>3, <1>4 DEF FdDescs, MapKept

\* fd_get, vfs_fd_acquire: one reference more to an entry that a descriptor names.
MoreOf(p, r, j, d) ==
  /\ d \in Desc /\ \E f \in Fd : fdmap[p][f] = d
  /\ file' = Acquired(file, d)
  /\ \A e \in Desc : /\ NamedBy(e)' \in Nat
                     /\ WorkOn(loc[p], io[p], e) + NamedBy(e) + Same(d, e)
                        = WorkOn(r, j, e) + NamedBy(e)'

LEMMA AcquireKept ==
  ASSUME IInv, NEW p \in Proc, NEW r, NEW j \in IoType, NEW d, Free(loc[p]), Resting(r),
         loc' = [loc EXCEPT ![p] = r], io' = [io EXCEPT ![p] = j],
         UNCHANGED <<vnode, mnt, tmp, scratch>>, io[p].vn = NULL, j.vn = NULL,
         MoreOf(p, r, j, d), MapKept(p), FdHandles(p, r, j)
  PROVE  IInv'
<1> DEFINE x == [file[d] EXCEPT !.refcnt = @ + 1]
<1>1. /\ d \in Desc /\ file \in [Desc -> FileType] /\ FilesFit /\ TmpOK(tmp')
      /\ \E f \in Fd : fdmap[p][f] = d
  BY DEF MoreOf, IInv, Typed
<1>2. /\ file[d] \in FileType /\ file[d].refcnt > 0 /\ Touchable(p, d) /\ file[d].refcnt \in Nat
      /\ file[d].ops # "none"
  BY <1>1, Entry, Named, Constants DEF FileType
<1>3. file' = [file EXCEPT ![d] = x]
  BY DEF MoreOf, Acquired
<1>4. /\ x \in FileType /\ x.refcnt = file[d].refcnt + 1 /\ x.ops = file[d].ops
      /\ x.vnode = file[d].vnode
  BY <1>2 DEF FileType
<1> HIDE DEF x
<1>5. x.ops = "vfs" <=> x.vnode # NULL
  BY <1>1, <1>4 DEF FilesFit
<1>6. /\ NamedBy(d)' \in Nat
      /\ x.refcnt + WorkOn(loc[p], io[p], d) + NamedBy(d)
         = file[d].refcnt + WorkOn(r, j, d) + NamedBy(d)'
  <2>1. /\ WorkOn(loc[p], io[p], d) \in Nat /\ WorkOn(r, j, d) \in Nat
        /\ NamedBy(d) \in Nat
    BY NamedNat DEF WorkOn, NamedBy
  <2>2. NamedBy(d)' \in Nat /\ WorkOn(loc[p], io[p], d) + NamedBy(d) + 1 = WorkOn(r, j, d) + NamedBy(d)'
    BY <1>1 DEF MoreOf, Same
  <2>3. QED
    BY <1>2, <1>4, <2>1, <2>2
<1>7. ASSUME NEW e \in Desc \ {d}
      PROVE  /\ NamedBy(e)' \in Nat
             /\ WorkOn(loc[p], io[p], e) + NamedBy(e) = WorkOn(r, j, e) + NamedBy(e)'
  <2>1. /\ NamedBy(e)' \in Nat
        /\ WorkOn(loc[p], io[p], e) + NamedBy(e) + Same(d, e) = WorkOn(r, j, e) + NamedBy(e)'
    BY DEF MoreOf
  <2>2. Same(d, e) = 0 /\ WorkOn(loc[p], io[p], e) \in Nat /\ NamedBy(e) \in Nat
    BY NamedNat DEF Same, WorkOn, NamedBy
  <2>3. QED
    BY <2>1, <2>2
<1>8. OneFile(p, r, j, d, x)
  BY <1>1, <1>2, <1>3, <1>4, <1>5, <1>6, <1>7 DEF OneFile
<1>9. FdDescs(p, r, j)
  BY <1>8, OneFileDescs
<1>10. \A e \in Desc : file'[e].vnode = file[e].vnode
  BY <1>1, <1>3, <1>4
<1>11. Quiet(r) /\ Steady /\ \A v \in Vnode : vnode'[v].refcnt = vnode[v].refcnt
  BY SameSteady DEF Resting
<1>12. FdVnodes(p, r, j)
  BY <1>10, <1>11, StillVnodes
<1>13. QED
  BY <1>1, <1>9, <1>11, <1>12, RestKept

LEMMA GetKept ==
  ASSUME IInv, NEW p \in Proc, NEW f \in OpenFds(p), NEW op \in {"read", "write", "lseek"},
         NEW n \in Lens, Get(p, f, op, n)
  PROVE  IInv'
<1> DEFINE d == fdmap[p][f]
           j == [NoIo EXCEPT !.desc = d, !.op = op, !.n = n]
           r == Standing("io")
<1>1. /\ loc[p].pc = "idle" /\ file' = Acquired(file, d) /\ io' = [io EXCEPT ![p] = j]
      /\ loc' = [loc EXCEPT ![p] = r] /\ UNCHANGED <<vnode, mnt, tmp, scratch, fdmap>>
  BY DEF Get, At, Move, Standing
<1>2. f \in Fd /\ d \in Desc /\ file[d].ops # "none" /\ file \in [Desc -> FileType]
  BY Named DEF OpenFds, FreeFds, IInv, Typed
<1>3. io[p].vn = NULL /\ Free(loc[p]) /\ \A e \in Desc : WorkOn(loc[p], io[p], e) = 0
  BY <1>1, IdleHandles
<1>4. j \in IoType /\ j.desc = d /\ j.vn = NULL
  <2>1. n \in Nat
    BY FilesAssumption
  <2>2. QED
    BY <1>2, <2>1 DEF NoIo, IoType
<1>5. Resting(r) /\ r.pc = "io"
  BY StandFact DEF Handling, Resting
<1>6. MapKept(p) /\ \A e \in Desc : NamedBy(e)' = NamedBy(e) /\ NamedBy(e) \in Nat
  BY <1>1, SameDescriptors
<1>7. \E g \in Fd : fdmap[p][g] = d
  BY <1>2
<1>8. file'[d].ops # "none" /\ d # NULL
  BY <1>1, <1>2, Constants DEF Acquired, FileType
<1> HIDE DEF d, j, r
<1>9. MoreOf(p, r, j, d)
  <2>1. ASSUME NEW e \in Desc PROVE WorkOn(r, j, e) = Same(d, e) /\ Same(d, e) \in Nat
    BY <1>4, <1>5 DEF WorkOn, Works, Busying, Same
  <2>2. QED
    BY <1>1, <1>2, <1>3, <1>6, <1>7, <2>1 DEF MoreOf
<1>10. FdHandles(p, r, j)
  BY <1>4, <1>5, <1>8 DEF FdHandles, Busying
<1>11. QED
  BY <1>1, <1>3, <1>4, <1>5, <1>6, <1>9, <1>10, AcquireKept

LEMMA FreeFdFact ==
  ASSUME NEW p \in Proc, FreeFds(p) # {}
  PROVE  Min(FreeFds(p)) \in Fd /\ fdmap[p][Min(FreeFds(p))] = NULL
<1>1. FdMax \in Nat
  BY FilesAssumption
<1>2. FreeFds(p) \in SUBSET Nat
  BY <1>1 DEF FreeFds, Fd
<1>3. Min(FreeFds(p)) \in FreeFds(p)
  BY <1>2, MinFact
<1>4. QED
  BY <1>3 DEF FreeFds

\* An entry gets one name more in place of nothing.
LEMMA NameOneMore ==
  ASSUME IInv, NEW p \in Proc, NEW g \in Fd, NEW d \in Desc, fdmap[p][g] = NULL,
         fdmap' = [fdmap EXCEPT ![p][g] = d], file[d].ops # "none"
  PROVE  /\ MapKept(p)
         /\ \A e \in Desc : /\ NamedBy(e)' \in Nat /\ NamedBy(e) \in Nat
                            /\ Same(d, e) \in Nat /\ NamedBy(e)' = NamedBy(e) + Same(d, e)
<1>1. NULL \notin Desc
  BY Constants
<1>2. /\ MapKept(p)
      /\ \A e \in Desc : /\ NamedBy(e)' \in Nat
                         /\ NamedBy(e)' + Same(fdmap[p][g], e) = NamedBy(e) + Same(d, e)
  <2>1. Sets(p, g, d)
    BY DEF Sets
  <2>2. QED
    BY <2>1, SetDescriptor
<1>3. \A e \in Desc : Same(NULL, e) = 0 /\ Same(d, e) \in Nat /\ NamedBy(e) \in Nat
  BY <1>1, NamedNat DEF Same, NamedBy
<1>4. QED
  BY <1>2, <1>3

LEMMA DupKept ==
  ASSUME IInv, NEW p \in Proc, NEW f \in OpenFds(p), Dup(p, f)
  PROVE  IInv'
<1> DEFINE d == fdmap[p][f]
           g == Min(FreeFds(p))
           r == loc[p]
           j == io[p]
<1>1. /\ loc[p].pc = "idle" /\ file' = Acquired(file, d) /\ FreeFds(p) # {}
      /\ fdmap' = [fdmap EXCEPT ![p][g] = d] /\ UNCHANGED <<vnode, mnt, tmp, scratch, loc, io>>
  BY DEF Dup, At
<1>2. f \in Fd /\ d \in Desc /\ file[d].ops # "none"
  BY Named DEF OpenFds, FreeFds
<1>3. g \in Fd /\ fdmap[p][g] = NULL
  BY <1>1, FreeFdFact
<1>4. /\ io[p].vn = NULL /\ Free(loc[p]) /\ io[p] \in IoType
      /\ \A e \in Desc : WorkOn(loc[p], io[p], e) = 0
  BY <1>1, IdleHandles
<1>5. loc' = [loc EXCEPT ![p] = r] /\ io' = [io EXCEPT ![p] = j]
  BY <1>1 DEF IInv, Typed
<1>6. Resting(r)
  BY <1>4, RestFact
<1>7. \E h \in Fd : fdmap[p][h] = d
  BY <1>2
<1> HIDE DEF d, g
<1>8. /\ MapKept(p)
      /\ \A e \in Desc : /\ NamedBy(e)' \in Nat /\ NamedBy(e) \in Nat
                         /\ Same(d, e) \in Nat /\ NamedBy(e)' = NamedBy(e) + Same(d, e)
  BY <1>1, <1>2, <1>3, NameOneMore
<1>9. MoreOf(p, r, j, d)
  BY <1>1, <1>2, <1>4, <1>7, <1>8 DEF MoreOf
<1>10. FdHandles(p, r, j)
  BY <1>1, <1>4 DEF FdHandles, Busying
<1> HIDE DEF r, j
<1>11. j \in IoType /\ j.vn = NULL
  BY <1>4 DEF j
<1>12. QED
  BY <1>1, <1>4, <1>5, <1>6, <1>8, <1>9, <1>10, <1>11, AcquireKept

LEMMA NoIoFact == NoIo \in IoType /\ NoIo.vn = NULL /\ NoIo.desc = NULL
  BY DEF NoIo, IoType

LEMMA Dup2TakeKept ==
  ASSUME IInv, NEW p \in Proc, Dup2Take(p)
  PROVE  IInv'
<1> DEFINE d == io[p].desc
           g == io[p].fd
<1>1. /\ loc[p].pc = "dup2" /\ file' = Acquired(file, d) /\ io' = [io EXCEPT ![p] = NoIo]
      /\ fdmap' = [fdmap EXCEPT ![p][g] = d] /\ loc' = [loc EXCEPT ![p] = Idle]
      /\ UNCHANGED <<vnode, mnt, tmp, scratch>>
  BY DEF Dup2Take, At, Move
<1>2. /\ io[p].vn = NULL /\ Free(loc[p]) /\ io[p] \in IoType
  BY <1>1, IdleHandles
<1>3. /\ g \in Fd /\ fdmap[p][g] = NULL /\ d # NULL
      /\ \E f \in Fd : fdmap[p][f] = d
  BY <1>1 DEF IInv, Handles, Doubling
<1>4. d \in Desc /\ file[d].ops # "none"
  BY <1>3, Named
<1>5. \A e \in Desc : WorkOn(loc[p], io[p], e) = 0
  BY <1>1 DEF WorkOn, Works, Busying
<1> HIDE DEF d, g
<1>6. /\ MapKept(p)
      /\ \A e \in Desc : /\ NamedBy(e)' \in Nat /\ NamedBy(e) \in Nat
                         /\ Same(d, e) \in Nat /\ NamedBy(e)' = NamedBy(e) + Same(d, e)
  BY <1>1, <1>3, <1>4, NameOneMore
<1>7. Resting(Idle) /\ Idle.pc = "idle"
  BY StandFact, StandIdle DEF Resting
<1>8. \A e \in Desc : WorkOn(Idle, NoIo, e) = 0
  BY <1>7 DEF WorkOn, Works, Busying
<1>9. MoreOf(p, Idle, NoIo, d)
  BY <1>1, <1>3, <1>4, <1>5, <1>6, <1>8 DEF MoreOf
<1>10. FdHandles(p, Idle, NoIo)
  BY <1>7, NoIoFact DEF FdHandles, Busying
<1>11. QED
  BY <1>1, <1>2, <1>6, <1>7, <1>9, <1>10, NoIoFact, AcquireKept

LEMMA OpenInstallKept ==
  ASSUME IInv, NEW p \in Proc, OpenInstall(p)
  PROVE  IInv'
<1> DEFINE d == io[p].desc
           g == Min(FreeFds(p))
<1>1. loc[p].pc = "install" /\ UNCHANGED <<vnode, mnt, tmp, scratch>>
  BY DEF OpenInstall, At
<1>2. /\ io[p].vn = NULL /\ Free(loc[p]) /\ io[p] \in IoType /\ d \in Desc
      /\ \A e \in Desc : WorkOn(loc[p], io[p], e) = Same(d, e)
  BY <1>1, IdleHandles DEF Busying
<1>3. CASE FreeFds(p) = {}
  <2>1. FdRelease(p, io[p].desc, "idle", NoNext) /\ UNCHANGED fdmap
    BY <1>3 DEF OpenInstall
  <2>2. QED
    BY <1>1, <2>1, PutAwayKept
<1>4. CASE FreeFds(p) # {}
  <2>1. /\ fdmap' = [fdmap EXCEPT ![p][g] = d] /\ io' = [io EXCEPT ![p] = NoIo]
        /\ loc' = [loc EXCEPT ![p] = Idle] /\ UNCHANGED file
    BY <1>4 DEF OpenInstall, Move
  <2>2. g \in Fd /\ fdmap[p][g] = NULL
    BY <1>4, FreeFdFact
  <2>3. file[d].ops # "none"
    BY <1>1 DEF IInv, Handles
  <2> HIDE DEF d, g
  <2>4. /\ MapKept(p)
        /\ \A e \in Desc : /\ NamedBy(e)' \in Nat /\ NamedBy(e) \in Nat
                           /\ Same(d, e) \in Nat /\ NamedBy(e)' = NamedBy(e) + Same(d, e)
    BY <1>2, <2>1, <2>2, <2>3, NameOneMore
  <2>5. Resting(Idle) /\ Idle.pc = "idle" /\ Quiet(Idle)
    BY StandFact, StandIdle DEF Resting
  <2>6. \A e \in Desc : WorkOn(Idle, NoIo, e) = 0
    BY <2>5 DEF WorkOn, Works, Busying
  <2>7. FdDescs(p, Idle, NoIo)
    BY <1>2, <2>1, <2>4, <2>6, NoFileDescs
  <2>8. Steady /\ TmpOK(tmp')
    BY <1>1, SameSteady DEF IInv
  <2>9. FdVnodes(p, Idle, NoIo)
    BY <1>1, <1>2, <2>1, <2>5, NoIoFact, StillVnodes
  <2>10. FdHandles(p, Idle, NoIo)
    BY <2>5, NoIoFact DEF FdHandles, Busying
  <2>11. QED
    BY <1>1, <1>2, <2>1, <2>5, <2>7, <2>8, <2>9, <2>10, NoIoFact, RestKept
<1>5. QED
  BY <1>3, <1>4

LEMMA Dup2Kept ==
  ASSUME IInv, NEW p \in Proc, NEW f \in OpenFds(p), NEW g \in Fd, Dup2(p, f, g)
  PROVE  IInv'
<1>1. loc[p].pc = "idle" /\ f # g /\ UNCHANGED <<vnode, mnt, tmp, scratch>>
  BY DEF Dup2, At
<1>2. f \in Fd /\ fdmap[p][f] \in Desc /\ NULL \notin Desc /\ Fd \subseteq Nat
  BY Named, Constants, FilesAssumption DEF OpenFds, FreeFds, Fd
<1>3. /\ io[p].vn = NULL /\ Free(loc[p]) /\ io[p] \in IoType
      /\ \A e \in Desc : WorkOn(loc[p], io[p], e) = 0
  BY <1>1, IdleHandles
<1>4. CASE fdmap[p][g] # NULL
  <2> DEFINE after == [desc |-> fdmap[p][f], fd |-> g]
  <2>1. fdmap' = [fdmap EXCEPT ![p][g] = NULL] /\ FdRelease(p, fdmap[p][g], "dup2", after)
    BY <1>4 DEF Dup2
  <2>2. fdmap[p][g] \in Desc
    BY <1>4, Named
  <2>3. /\ MapKept(p) /\ fdmap'[p][g] = NULL /\ fdmap'[p][f] = fdmap[p][f]
        /\ \A e \in Desc : /\ NamedBy(e)' \in Nat
                           /\ NamedBy(e)' + Same(fdmap[p][g], e) = NamedBy(e) + Same(NULL, e)
    <3>1. Sets(p, g, NULL)
      BY <2>1 DEF Sets
    <3>2. QED
      BY <1>1, <1>2, <3>1, SetDescriptor
  <2>4. ASSUME NEW e \in Desc
        PROVE  /\ NamedBy(e)' \in Nat
               /\ WorkOn(loc[p], io[p], e) + NamedBy(e) = NamedBy(e)' + Same(fdmap[p][g], e)
    <3>1. Same(NULL, e) = 0 /\ NamedBy(e) \in Nat
      BY <1>2, NamedNat DEF Same, NamedBy
    <3>2. QED
      BY <1>3, <2>3, <3>1
  <2>5. after.desc = fdmap[p][f] /\ after.fd = g
    OBVIOUS
  <2> HIDE DEF after
  <2>6. LetGo(p, fdmap[p][g], "dup2", after)
    BY <1>2, <1>3, <2>2, <2>3, <2>4, <2>5 DEF LetGo
  <2>7. QED
    BY <1>1, <2>1, <2>3, <2>6, ReleaseKept
<1>5. CASE fdmap[p][g] = NULL
  <2> DEFINE j == [NoIo EXCEPT !.fd = g, !.desc = fdmap[p][f]]
             r == Standing("dup2")
  <2>1. /\ io' = [io EXCEPT ![p] = j] /\ loc' = [loc EXCEPT ![p] = r] /\ UNCHANGED <<file, fdmap>>
    BY <1>5 DEF Dup2, Move, Standing
  <2>2. j \in IoType /\ j.fd = g /\ j.desc = fdmap[p][f] /\ j.vn = NULL
    BY <1>2 DEF NoIo, IoType
  <2>3. Resting(r) /\ r.pc = "dup2" /\ Quiet(r)
    BY StandFact DEF Handling, Resting
  <2> HIDE DEF j, r
  <2>4. \A e \in Desc : WorkOn(r, j, e) = 0
    BY <2>3 DEF WorkOn, Works, Busying
  <2>5. MapKept(p) /\ \A e \in Desc : NamedBy(e)' = NamedBy(e) /\ NamedBy(e) \in Nat
    BY <2>1, SameDescriptors
  <2>6. FdDescs(p, r, j)
    BY <1>3, <2>1, <2>4, <2>5, NoFileDescs
  <2>7. Steady /\ TmpOK(tmp')
    BY <1>1, SameSteady DEF IInv
  <2>8. FdVnodes(p, r, j)
    BY <1>1, <1>3, <2>1, <2>2, <2>3, StillVnodes
  <2>9. FdHandles(p, r, j)
    BY <1>2, <1>5, <2>1, <2>2, <2>3 DEF FdHandles, Busying
  <2>10. QED
    BY <1>1, <1>3, <2>1, <2>2, <2>3, <2>6, <2>7, <2>8, <2>9, RestKept
<1>6. QED
  BY <1>4, <1>5

LEMMA BlankFact == BlankVnode \in Fields /\ BlankVnode.refcnt = 0
<1>1. FileMax \in Nat
  BY TmpfsAssumption
<1>2. QED
  BY <1>1 DEF BlankVnode, Fields, Kinds

LEMMA CloseOpsKept ==
  ASSUME IInv, NEW p \in Proc, CloseOps(p)
  PROVE  IInv'
<1> DEFINE w == io[p].vn
           j == [io[p] EXCEPT !.vn = NULL]
           r == Standing(io[p].op)
<1>1. /\ loc[p].pc = "close" /\ io' = [io EXCEPT ![p].vn = NULL]
      /\ loc' = [loc EXCEPT ![p] = r] /\ UNCHANGED <<mnt, tmp, scratch, file, fdmap>>
      /\ vnode' = [v \in Vnode |-> IF v # w THEN vnode[v]
                     ELSE IF vnode[v].refcnt > 1 THEN [vnode[v] EXCEPT !.refcnt = @ - 1]
                     ELSE BlankVnode]
  BY DEF CloseOps, At, Move, Standing
<1>2. /\ io \in [Proc -> IoType] /\ io[p] \in IoType /\ vnode \in [Vnode -> Fields]
      /\ Handles(p) /\ TmpOK(tmp') /\ VnodesFit /\ Typed /\ VnodeRefs /\ NULL \notin Vnode
  BY <1>1, Constants DEF IInv, Typed
<1>3. io[p].op \in {"idle", "dup2"} /\ Free(loc[p])
  BY <1>1, <1>2 DEF Handles, Free, Handling
<1>4. io' = [io EXCEPT ![p] = j]
  BY <1>1, <1>2
<1>5. j \in IoType /\ j.vn = NULL /\ j.op = io[p].op /\ j.fd = io[p].fd /\ j.desc = io[p].desc
  BY <1>2 DEF IoType
<1>6. Resting(r) /\ r.pc = io[p].op /\ Quiet(r)
  BY <1>3, StandFact DEF Handling, Resting
<1> HIDE DEF r, j
<1>7. ASSUME NEW v \in Vnode
      PROVE /\ vnode'[v] \in Fields
            /\ vnode'[v].refcnt + Same(w, v) = vnode[v].refcnt
            /\ \/ vnode'[v] = BlankVnode
               \/ /\ vnode'[v].refcnt > 0 /\ vnode[v].refcnt > 0 /\ Like(vnode[v], vnode'[v])
                  /\ vnode'[v].refcnt <= vnode[v].refcnt
  <2>1. vnode[v] \in Fields /\ vnode[v].refcnt \in Nat
    BY <1>2 DEF Fields
  <2>2. CASE v # w
    <3>1. vnode'[v] = vnode[v] /\ Same(w, v) = 0
      BY <1>1, <2>2 DEF Same
    <3>2. vnode[v] = BlankVnode \/ vnode[v].refcnt > 0
      BY <1>2 DEF VnodesFit
    <3>3. QED
      BY <2>1, <3>1, <3>2 DEF Like
  <2>3. CASE v = w
    <3>1. vnode[v].refcnt > 0 /\ Same(w, v) = 1
      BY <1>2, <2>3, Referred DEF Same
    <3>2. CASE vnode[v].refcnt > 1
      <4> DEFINE x == [vnode[v] EXCEPT !.refcnt = @ - 1]
      <4>1. vnode'[v] = x
        BY <1>1, <2>3, <3>2
      <4>2. x \in Fields /\ x.refcnt = vnode[v].refcnt - 1 /\ Like(vnode[v], x)
        BY <2>1, <3>2 DEF Fields, Like
      <4> HIDE DEF x
      <4>3. QED
        BY <2>1, <3>1, <3>2, <4>1, <4>2
    <3>3. CASE ~(vnode[v].refcnt > 1)
      <4>1. vnode'[v] = BlankVnode
        BY <1>1, <2>3, <3>3
      <4>2. QED
        BY <2>1, <3>1, <3>3, <4>1, BlankFact
    <3>4. QED
      BY <3>2, <3>3
  <2>4. QED
    BY <2>2, <2>3
<1>8. Steady
  <2>1. vnode' \in [Vnode -> Fields]
    BY <1>1, <1>7
  <2>2. QED
    BY <1>7, <2>1 DEF Steady
<1>9. FdVnodes(p, r, j)
  <2>1. ASSUME NEW v \in Vnode
        PROVE  /\ InFiles(v)' \in Nat
               /\ vnode'[v].refcnt + Held(loc[p], v) + Same(io[p].vn, v) + InFiles(v)
                  = vnode[v].refcnt + Held(r, v) + Same(j.vn, v) + InFiles(v)'
    <3>1. InFiles(v)' = InFiles(v) /\ InFiles(v) \in Nat
      BY <1>1, OthersNat DEF InFiles
    <3>2. Held(loc[p], v) = 0 /\ Held(r, v) = 0 /\ Same(j.vn, v) = 0 /\ Same(w, v) \in Nat
      BY <1>2, <1>3, <1>5, <1>6, FreeQuiet, QuietHolds DEF Same
    <3>3. vnode'[v].refcnt + Same(w, v) = vnode[v].refcnt /\ vnode'[v].refcnt \in Nat
      BY <1>7 DEF Fields
    <3>4. QED
      BY <3>1, <3>2, <3>3
  <2>2. QED
    BY <2>1 DEF FdVnodes
<1>10. FdDescs(p, r, j)
  <2>1. MapKept(p) /\ \A e \in Desc : NamedBy(e)' = NamedBy(e) /\ NamedBy(e) \in Nat
    BY <1>1, SameDescriptors
  <2>2. \A e \in Desc : WorkOn(loc[p], io[p], e) = 0 /\ WorkOn(r, j, e) = 0
    BY <1>1, <1>3, <1>6 DEF WorkOn, Works, Busying
  <2>3. QED
    BY <1>1, <2>1, <2>2, NoFileDescs
<1>11. FdHandles(p, r, j)
  BY <1>1, <1>2, <1>3, <1>5, <1>6 DEF FdHandles, Busying, Handles, Doubling
<1>12. QED
  BY <1>1, <1>2, <1>3, <1>4, <1>5, <1>6, <1>8, <1>9, <1>10, <1>11, RestKept

LEMMA InheritKept ==
  ASSUME IInv, NEW p \in Proc, NEW q \in Proc, Inherit(p, q)
  PROVE  IInv'
<1> DEFINE n(d) == Cardinality(RowOf(p, d))
           r == loc[p]
           j == io[p]
<1>1. /\ loc[p].pc = "idle" /\ loc[q].pc = "idle" /\ p # q /\ OpenFds(q) = {}
      /\ fdmap' = [fdmap EXCEPT ![q] = fdmap[p]]
      /\ file' = [d \in Desc |-> [file[d] EXCEPT !.refcnt = @ + n(d)]]
      /\ UNCHANGED <<vnode, mnt, tmp, scratch, loc, io>>
  BY DEF Inherit, At, RowOf
<1>2. /\ fdmap \in [Proc -> [Fd -> Desc \cup {NULL}]] /\ NULL \notin Desc /\ FilesFit
      /\ file \in [Desc -> FileType]
  BY Constants DEF IInv, Typed
<1>3. /\ io[p].vn = NULL /\ Free(loc[p]) /\ io[p] \in IoType
      /\ \A e \in Desc : WorkOn(loc[p], io[p], e) = 0
  BY <1>1, IdleHandles
<1>4. loc' = [loc EXCEPT ![p] = r] /\ io' = [io EXCEPT ![p] = j]
  BY <1>1 DEF IInv, Typed
<1>5. Resting(r) /\ Quiet(r)
  BY <1>3, RestFact DEF Resting
<1>6. ASSUME NEW d \in Desc
      PROVE  /\ n(d) \in Nat /\ NamedBy(d)' \in Nat /\ NamedBy(d) \in Nat
             /\ NamedBy(d)' = NamedBy(d) + n(d)
             /\ n(d) # 0 => \E f \in Fd : fdmap[p][f] = d
  <2>1. /\ NamedBy(d)' \in Nat
        /\ NamedBy(d)' + Cardinality(RowOf(q, d)) = NamedBy(d) + Cardinality(RowOf(p, d))
    BY <1>1, <1>2, RowStep
  <2>2. RowOf(q, d) = {}
    BY <1>1, <1>2 DEF OpenFds, FreeFds, RowOf
  <2>3. IsFiniteSet(RowOf(p, d)) /\ Cardinality({}) = 0
    BY Finite, FS_Subset, FS_EmptySet DEF RowOf
  <2>4. n(d) \in Nat
    BY <2>3, FS_CardinalityType
  <2>5. n(d) # 0 => RowOf(p, d) # {}
    BY <2>3
  <2>6. NamedBy(d) \in Nat
    BY NamedNat DEF NamedBy
  <2>7. NamedBy(d)' + 0 = NamedBy(d) + n(d)
    BY <2>1, <2>2, <2>3
  <2>8. NamedBy(d)' = NamedBy(d) + n(d)
    BY <2>1, <2>4, <2>6, <2>7
  <2>9. QED
    BY <2>1, <2>4, <2>5, <2>6, <2>8 DEF RowOf
<1>7. ASSUME NEW d \in Desc
      PROVE  /\ file'[d] \in FileType /\ file'[d].refcnt = file[d].refcnt + n(d)
             /\ file'[d].ops = file[d].ops /\ file'[d].vnode = file[d].vnode
             /\ file'[d] = file[d] \/ Touchable(p, d)
  <2>1. file[d] \in FileType /\ n(d) \in Nat /\ file'[d] = [file[d] EXCEPT !.refcnt = @ + n(d)]
    BY <1>1, <1>2, <1>6
  <2>2. n(d) # 0 => Touchable(p, d)
    BY <1>6 DEF Touchable
  <2> HIDE DEF n
  <2>3. n(d) = 0 => file'[d] = file[d]
    BY <2>1 DEF FileType
  <2>4. QED
    BY <2>1, <2>2, <2>3 DEF FileType
<1> HIDE DEF n, r, j
<1>8. file' \in [Desc -> FileType]
  BY <1>1, <1>7
<1>9. fdmap' \in [Proc -> [Fd -> Desc \cup {NULL}]]
  BY <1>1, <1>2
<1>10. /\ fdmap'[q] = fdmap[p] /\ \A x \in Proc \ {q} : fdmap'[x] = fdmap[x]
  BY <1>1, <1>2
<1>11. \A d \in Desc : \A x \in Proc, f \in Fd : fdmap'[x][f] = d => file[d].ops # "none"
  <2>1. ASSUME NEW d \in Desc, NEW x \in Proc, NEW f \in Fd, fdmap'[x][f] = d
        PROVE  file[d].ops # "none"
    <3>1. fdmap[x][f] = d \/ fdmap[p][f] = d
      BY <1>10, <2>1
    <3>2. QED
      BY <1>2, <3>1, Named
  <2>2. QED
    BY <2>1
<1>12. ASSUME NEW d \in Desc
       PROVE  file'[d].refcnt + WorkOn(loc[p], io[p], d) + NamedBy(d)
              = file[d].refcnt + WorkOn(r, j, d) + NamedBy(d)'
  <2>1. file[d].refcnt \in Nat
    BY <1>2 DEF FileType
  <2>2. WorkOn(loc[p], io[p], d) = 0 /\ WorkOn(r, j, d) = 0
    BY <1>3 DEF r, j
  <2>3. QED
    BY <1>6, <1>7, <2>1, <2>2
<1>13. FdDescs(p, r, j)
  BY <1>1, <1>2, <1>6, <1>7, <1>8, <1>9, <1>10, <1>11, <1>12 DEF FdDescs, FilesFit
<1>14. Steady /\ TmpOK(tmp')
  BY <1>1, SameSteady DEF IInv
<1>15. j \in IoType /\ j.vn = NULL /\ r.pc = "idle"
  BY <1>1, <1>3 DEF j, r
<1>16. FdVnodes(p, r, j)
  BY <1>1, <1>3, <1>5, <1>7, <1>15, StillVnodes
<1>17. FdHandles(p, r, j)
  BY <1>15 DEF FdHandles, Busying
<1>18. QED
  BY <1>1, <1>3, <1>4, <1>5, <1>13, <1>14, <1>15, <1>16, <1>17, RestKept

-----------------------------------------------------------------------------
(* The file that open makes, and what is done with it *)

LEMMA FreeDescFact ==
  ASSUME FreeDescs # {}
  PROVE  /\ Min(FreeDescs) \in Desc /\ file[Min(FreeDescs)].refcnt = 0
         /\ file[Min(FreeDescs)].ops = "none"
<1>1. FileMaxOpen \in Nat
  BY FilesAssumption
<1>2. FreeDescs \in SUBSET Nat
  BY <1>1 DEF FreeDescs, Desc
<1>3. Min(FreeDescs) \in FreeDescs
  BY <1>2, MinFact
<1>4. QED
  BY <1>3 DEF FreeDescs

LEMMA OpenDescKept ==
  ASSUME IInv, NEW p \in Proc, OpenDesc(p)
  PROVE  IInv'
<1>1. loc[p].pc = "desc" /\ UNCHANGED <<mnt, tmp, fdmap>>
  BY DEF OpenDesc, At
<1>2. /\ loc[p] \in Loc /\ scratch \in Nat /\ TmpOK(tmp) /\ loc[p].call \in PathCalls
      /\ Op(p) = "open" /\ loc[p].cur \in Vnode /\ loc[p].pin = NULL /\ loc[p].child = NULL
      /\ loc[p].par = NULL /\ loc[p].buf = 0
  BY <1>1, OpeningFact
<1>3. CASE FreeDescs = {}
  <2> DEFINE D == {"cur"}
  <2>1. Return(p, D, 0) /\ UNCHANGED <<file, io>>
    BY <1>3 DEF OpenDesc
  <2>2. D \in SUBSET Hands /\ \A h \in Hands \ D : loc[p][h] = NULL
    BY <1>2 DEF Hands
  <2>3. loc[p].pc \notin Elsewhere
    BY <1>1 DEF Elsewhere, Handling
  <2> HIDE DEF D
  <2>4. QED
    BY <1>1, <1>2, <2>1, <2>2, <2>3, ReturnKept
<1>4. CASE FreeDescs # {}
  <2>0. PICK d \in Desc : d = Min(FreeDescs) /\ file[d].refcnt = 0 /\ file[d].ops = "none"
    BY <1>4, FreeDescFact
  <2> DEFINE x == [BlankFile EXCEPT !.refcnt = 1]
             j == [io[p] EXCEPT !.desc = d]
             r == [loc[p] EXCEPT !.pc = "fill"]
  <2>1. /\ file' = [file EXCEPT ![d] = x] /\ io' = [io EXCEPT ![p].desc = d]
        /\ loc' = [loc EXCEPT ![p] = r] /\ UNCHANGED <<vnode, scratch>>
    BY <1>4, <2>0 DEF OpenDesc, Move
  <2>2. d \in Desc /\ file[d].refcnt = 0 /\ file[d].ops = "none"
    BY <2>0
  <2>3. /\ io \in [Proc -> IoType] /\ io[p] \in IoType /\ Handles(p) /\ FilesFit
        /\ file \in [Desc -> FileType] /\ NULL \notin Vnode /\ NULL \notin Desc
    BY Constants DEF IInv, Typed
  <2>4. io' = [io EXCEPT ![p] = j]
    BY <2>1, <2>3
  <2>5. io[p].vn = NULL /\ file[d].vnode = NULL
    BY <1>1, <2>2, <2>3 DEF Handles, FilesFit
  <2>6. j \in IoType /\ j.desc = d /\ j.vn = NULL
    BY <2>2, <2>3, <2>5 DEF IoType
  <2>7. x \in FileType /\ x.refcnt = 1 /\ x.ops = "none" /\ x.vnode = NULL
    BY DEF BlankFile, FileType
  <2>8. r \in Loc
    <3>1. "fill" \in Points
      BY DEF Points, Calling
    <3>2. QED
      BY <1>2, <3>1 DEF Loc
  <2>9. /\ r.pc = "fill" /\ r.cur = loc[p].cur /\ r.par = NULL /\ r.pin = NULL
        /\ r.child = NULL /\ r.call = loc[p].call /\ r.buf = 0
    BY <1>2 DEF Loc
  <2> HIDE DEF r, j, x
  <2>10. Holding(r)
    BY <1>2, <2>3, <2>9 DEF Holding, HasCur, HasChild, HasPar, Walking, Bufs
  <2>11. Within(r) /\ r.pc \notin Mounting /\ r.pc \notin {"link", "readlink"}
    BY <1>2, <2>9 DEF Within, Calling, Walking, Mounting, Op
  <2>12. MapKept(p) /\ \A e \in Desc : NamedBy(e)' = NamedBy(e) /\ NamedBy(e) \in Nat
    BY <1>1, SameDescriptors
  <2>13. ASSUME NEW e \in Desc
         PROVE  WorkOn(loc[p], io[p], e) = 0 /\ WorkOn(r, j, e) = Same(d, e)
    BY <1>1, <2>6, <2>9 DEF WorkOn, Works, Busying, Same
  <2>14. OneFile(p, r, j, d, x)
    <3>1. Touchable(p, d) /\ Same(d, d) = 1 /\ \A e \in Desc \ {d} : Same(d, e) = 0
      BY <2>2 DEF Touchable, Same
    <3>2. x.refcnt + WorkOn(loc[p], io[p], d) + NamedBy(d)
          = file[d].refcnt + WorkOn(r, j, d) + NamedBy(d)'
      BY <2>2, <2>7, <2>12, <2>13, <3>1
    <3>3. \A e \in Desc \ {d} :
            /\ NamedBy(e)' \in Nat
            /\ WorkOn(loc[p], io[p], e) + NamedBy(e) = WorkOn(r, j, e) + NamedBy(e)'
      BY <2>12, <2>13, <3>1
    <3>4. QED
      BY <2>1, <2>2, <2>7, <2>12, <3>1, <3>2, <3>3 DEF OneFile
  <2>15. FdDescs(p, r, j)
    BY <2>12, <2>14, OneFileDescs
  <2>16. FdVnodes(p, r, j)
    <3>1. ASSUME NEW v \in Vnode
          PROVE  /\ InFiles(v)' \in Nat
                 /\ vnode'[v].refcnt + Held(loc[p], v) + Same(io[p].vn, v) + InFiles(v)
                    = vnode[v].refcnt + Held(r, v) + Same(j.vn, v) + InFiles(v)'
      <4>1. /\ InFiles(v)' \in Nat
            /\ InFiles(v)' + Same(file[d].vnode, v) = InFiles(v) + Same(x.vnode, v)
        BY <2>1, <2>2, <2>3, FilesStep
      <4>2. InFiles(v)' = InFiles(v) /\ InFiles(v) \in Nat
        BY <2>5, <2>7, <4>1, OthersNat DEF Same
      <4>3. Held(r, v) = Held(loc[p], v)
        BY <1>2, <2>9 DEF Held
      <4>4. QED
        BY <2>1, <2>5, <2>6, <4>2, <4>3
    <3>2. QED
      BY <3>1 DEF FdVnodes
  <2>17. FdHandles(p, r, j)
    <3>1. file'[d] = x
      BY <2>1, <2>2, <2>3
    <3>2. QED
      BY <2>2, <2>3, <2>6, <2>7, <2>9, <3>1 DEF FdHandles, Busying
  <2>18. Steady /\ TmpOK(tmp')
    BY <1>1, <1>2, <2>1, SameSteady
  <2>19. scratch' \in Nat /\ scratch' + r.buf = scratch + loc[p].buf
    BY <1>2, <2>1, <2>9
  <2>20. QED
    BY <1>1, <2>1, <2>4, <2>6, <2>8, <2>10, <2>11, <2>15, <2>16, <2>17, <2>18, <2>19, FdKept
<1>5. QED
  BY <1>3, <1>4

\* What open writes into its entry: the vnode it holds goes over to the file x, or
\* is given back.
LEMMA FilledKept ==
  ASSUME IInv, NEW p \in Proc, loc[p].pc = "fill", NEW x \in FileType,
         x.refcnt = 1, x.ops # "none", x.ops = "vfs" <=> x.vnode # NULL,
         file' = [file EXCEPT ![io[p].desc] = x], loc' = [loc EXCEPT ![p] = Standing("install")],
         UNCHANGED <<mnt, tmp, scratch, fdmap, io>>, Steady,
         \A v \in Vnode : vnode'[v].refcnt + Held(loc[p], v) = vnode[v].refcnt + Same(x.vnode, v)
  PROVE  IInv'
<1>0. PICK d \in Desc : d = io[p].desc
  BY IdleHandles DEF Busying
<1> DEFINE j == io[p]
           r == Standing("install")
<1>1. /\ io[p].vn = NULL /\ io[p] \in IoType /\ d \in Desc
      /\ \A e \in Desc : WorkOn(loc[p], io[p], e) = Same(d, e)
      /\ Works(loc[p], io[p], d)
  BY <1>0, IdleHandles DEF Busying
<1>2. /\ io \in [Proc -> IoType] /\ Handles(p) /\ FilesFit /\ scratch \in Nat /\ TmpOK(tmp')
      /\ file \in [Desc -> FileType] /\ NULL \notin Vnode /\ NULL \notin Desc
  BY Constants DEF IInv, Typed
<1>3. io' = [io EXCEPT ![p] = j]
  BY <1>2
<1>4. file[d].refcnt = 1 /\ file[d].ops = "none" /\ file[d].vnode = NULL
  BY <1>0, <1>1, <1>2 DEF Handles, FilesFit
<1>5. /\ r \in Loc /\ r.pc = "install" /\ Quiet(r) /\ Holding(r) /\ Within(r)
      /\ r.pc \notin Mounting /\ r.pc \notin {"link", "readlink"}
  BY StandFact DEF Handling
<1>6. MapKept(p) /\ \A e \in Desc : NamedBy(e)' = NamedBy(e) /\ NamedBy(e) \in Nat
  BY SameDescriptors
<1>7. Touchable(p, d)
  BY <1>1, Entry
<1>8. file' = [file EXCEPT ![d] = x] /\ loc' = [loc EXCEPT ![p] = r] /\ j \in IoType /\ j.vn = NULL
      /\ j.desc = d
  BY <1>0, <1>1
<1> HIDE DEF r, j
<1>9. \A e \in Desc : WorkOn(r, j, e) = Same(d, e)
  BY <1>5, <1>8 DEF WorkOn, Works, Busying, Same
<1>10. OneFile(p, r, j, d, x)
  <2>1. Same(d, d) = 1 /\ \A e \in Desc : Same(d, e) \in Nat
    BY DEF Same
  <2>2. x.refcnt + WorkOn(loc[p], io[p], d) + NamedBy(d)
        = file[d].refcnt + WorkOn(r, j, d) + NamedBy(d)'
    BY <1>1, <1>4, <1>6, <1>9, <2>1
  <2>3. \A e \in Desc \ {d} :
          /\ NamedBy(e)' \in Nat
          /\ WorkOn(loc[p], io[p], e) + NamedBy(e) = WorkOn(r, j, e) + NamedBy(e)'
    BY <1>1, <1>6, <1>9
  <2>4. QED
    BY <1>1, <1>6, <1>7, <1>8, <2>2, <2>3 DEF OneFile
<1>11. FdDescs(p, r, j)
  BY <1>6, <1>10, OneFileDescs
<1>12. FdVnodes(p, r, j)
  <2>1. ASSUME NEW v \in Vnode
        PROVE  /\ InFiles(v)' \in Nat
               /\ vnode'[v].refcnt + Held(loc[p], v) + Same(io[p].vn, v) + InFiles(v)
                  = vnode[v].refcnt + Held(r, v) + Same(j.vn, v) + InFiles(v)'
    <3>1. /\ InFiles(v)' \in Nat
          /\ InFiles(v)' + Same(file[d].vnode, v) = InFiles(v) + Same(x.vnode, v)
      <4>1. file \in [Desc -> FileType] /\ file' = [file EXCEPT ![d] = x]
        BY <1>2, <1>8
      <4>2. QED
        BY <4>1, FilesStep, ZenonT(90)
    <3>2. /\ Same(NULL, v) = 0 /\ InFiles(v) \in Nat /\ Held(r, v) = 0 /\ Same(x.vnode, v) \in Nat
          /\ vnode[v].refcnt \in Nat
      BY <1>2, <1>5, OthersNat, QuietHolds DEF Same, IInv, Typed, Fields
    <3>3. InFiles(v)' = InFiles(v) + Same(x.vnode, v)
      BY <1>4, <3>1, <3>2
    <3>4. vnode'[v].refcnt + Held(loc[p], v) = vnode[v].refcnt + Same(x.vnode, v)
      OBVIOUS
    <3>5. Same(io[p].vn, v) = 0 /\ Same(j.vn, v) = 0
      BY <1>1, <1>8, <3>2
    <3>6. vnode'[v].refcnt \in Nat /\ Held(loc[p], v) \in Nat
      BY DEF Steady, Fields, Held, One
    <3>7. QED
      BY <3>1, <3>2, <3>3, <3>4, <3>5, <3>6
  <2>2. QED
    BY <2>1 DEF FdVnodes
<1>13. FdHandles(p, r, j)
  <2>1. file'[d] = x /\ d # NULL
    BY <1>1, <1>2, <1>8
  <2>2. QED
    BY <1>5, <1>8, <2>1 DEF FdHandles, Busying
<1>14. scratch' \in Nat /\ scratch' + r.buf = scratch + loc[p].buf
  BY <1>2, <1>5, OpeningFact DEF Quiet
<1>15. QED
  BY <1>2, <1>3, <1>5, <1>8, <1>11, <1>12, <1>13, <1>14, FdKept

LEMMA OpenFillKept ==
  ASSUME IInv, NEW p \in Proc, OpenFill(p)
  PROVE  IInv'
<1> DEFINE v == loc[p].cur
           d == io[p].desc
           app == "append" \in loc[p].call.flags
<1>1. /\ loc[p].pc = "fill" /\ loc' = [loc EXCEPT ![p] = Standing("install")]
      /\ UNCHANGED <<mnt, tmp, scratch, fdmap, io>>
  BY DEF OpenFill, At, Move, Standing
<1>2. /\ loc[p] \in Loc /\ v \in Vnode /\ loc[p].pin = NULL /\ loc[p].child = NULL
      /\ loc[p].par = NULL /\ NULL \notin Vnode /\ NULL \notin Desc
      /\ file \in [Desc -> FileType] /\ FilesFit /\ vnode \in [Vnode -> Fields] /\ Handles(p)
  BY <1>1, OpeningFact, Constants DEF IInv, Typed
<1>3. d \in Desc /\ io[p] \in IoType
  BY <1>1, IdleHandles DEF Busying
<1>4. file[d] \in FileType /\ file[d].refcnt = 1 /\ file[d].ops = "none" /\ file[d].vnode = NULL
  BY <1>1, <1>2, <1>3 DEF Handles, FilesFit
<1>5. app \in BOOLEAN
  OBVIOUS
<1>6. \A w \in Vnode : Held(loc[p], w) = Same(v, w)
  BY <1>2 DEF Held, Same, One
<1> HIDE DEF app, d
<1>7. CASE vnode[v].type = "DEV"
  <2> DEFINE x == [file[d] EXCEPT !.ops = "tty", !.append = app]
             D == {"cur"}
  <2>1. /\ file' = [file EXCEPT ![d].ops = "tty", ![d].append = app]
        /\ vnode' = Released(vnode, p, D)
    BY <1>7 DEF OpenFill, d, app
  <2>2. file' = [file EXCEPT ![d] = x]
    BY <1>2, <1>3, <2>1
  <2>3. x \in FileType /\ x.refcnt = 1 /\ x.ops = "tty" /\ x.vnode = NULL
    BY <1>4, <1>5 DEF FileType
  <2>4. D \in SUBSET Hands /\ \A w \in Vnode : HeldIn(loc[p], D, w) = Held(loc[p], w)
    BY <1>2 DEF Hands, HeldIn, Held, One
  <2> HIDE DEF x, D
  <2>5. Steady /\ \A w \in Vnode : vnode'[w].refcnt + HeldIn(loc[p], D, w) = vnode[w].refcnt
    BY <2>1, <2>4, ReleasedSteady
  <2>6. \A w \in Vnode : vnode'[w].refcnt + Held(loc[p], w) = vnode[w].refcnt + Same(x.vnode, w)
    <3>1. \A w \in Vnode : Same(x.vnode, w) = 0 /\ vnode[w].refcnt \in Nat
      BY <1>2, <2>3 DEF Same, Fields
    <3>2. QED
      BY <2>4, <2>5, <3>1
  <2>7. x.ops # "none" /\ (x.ops = "vfs" <=> x.vnode # NULL) /\ file' = [file EXCEPT ![io[p].desc] = x]
    BY <2>2, <2>3 DEF d
  <2>8. QED
    BY <1>1, <2>3, <2>5, <2>6, <2>7, FilledKept
<1>8. CASE vnode[v].type # "DEV"
  <2> DEFINE off == IF app THEN vnode[v].size ELSE 0
             x == [refcnt |-> 1, ops |-> "vfs", vnode |-> v, offset |-> off, append |-> app]
  <2>1. file' = [file EXCEPT ![d] = x] /\ UNCHANGED vnode
    BY <1>8 DEF OpenFill, d, app
  <2>2. off \in Nat
    <3>1. vnode[v].size \in 0..FileMax /\ FileMax \in Nat
      BY <1>2, InoFact DEF Fields
    <3>2. QED
      BY <3>1
  <2> HIDE DEF off
  <2>3. x \in FileType /\ x.refcnt = 1 /\ x.ops = "vfs" /\ x.vnode = v
    BY <1>2, <1>5, <2>2 DEF FileType
  <2> HIDE DEF x
  <2>4. Steady
    BY <2>1, SameSteady
  <2>5. \A w \in Vnode : vnode'[w].refcnt + Held(loc[p], w) = vnode[w].refcnt + Same(x.vnode, w)
    BY <1>6, <2>1, <2>3
  <2>6. /\ x.ops # "none" /\ (x.ops = "vfs" <=> x.vnode # NULL)
        /\ file' = [file EXCEPT ![io[p].desc] = x]
    BY <1>2, <2>1, <2>3 DEF d
  <2>7. QED
    BY <1>1, <2>3, <2>4, <2>5, <2>6, FilledKept
<1>9. QED
  BY <1>7, <1>8

\* What an operation on an open file may do: move its offset, know a size better,
\* and change the table of tmpfs.
Moves(d, o) ==
  /\ o \in Nat /\ file' = [file EXCEPT ![d].offset = o]
  /\ Steady /\ \A v \in Vnode : vnode'[v].refcnt = vnode[v].refcnt
  /\ TmpOK(tmp')

LEMMA MovedKept ==
  ASSUME IInv, NEW p \in Proc, loc[p].pc = "io", NEW d \in Desc, d = io[p].desc, NEW o, Moves(d, o),
         loc' = [loc EXCEPT ![p] = Standing("put")], UNCHANGED <<mnt, scratch, fdmap, io>>
  PROVE  IInv'
<1> DEFINE j == io[p]
           r == Standing("put")
           x == [file[d] EXCEPT !.offset = o]
<1>1. /\ io[p].vn = NULL /\ io[p] \in IoType /\ Free(loc[p])
      /\ \A e \in Desc : WorkOn(loc[p], io[p], e) = Same(d, e)
      /\ Works(loc[p], io[p], d)
  BY IdleHandles DEF Busying
<1>2. /\ io \in [Proc -> IoType] /\ Handles(p) /\ FilesFit
      /\ file \in [Desc -> FileType] /\ NULL \notin Desc
  BY Constants DEF IInv, Typed
<1>3. /\ o \in Nat /\ file' = [file EXCEPT ![d].offset = o] /\ Steady /\ TmpOK(tmp')
      /\ \A v \in Vnode : vnode'[v].refcnt = vnode[v].refcnt
  BY DEF Moves
<1>4. file' = [file EXCEPT ![d] = x]
  BY <1>2, <1>3
<1>5. file[d] \in FileType /\ file[d].ops # "none" /\ (file[d].ops = "vfs" <=> file[d].vnode # NULL)
  BY <1>1, <1>2 DEF Handles, FilesFit
<1>6. /\ x \in FileType /\ x.refcnt = file[d].refcnt /\ x.ops = file[d].ops
      /\ x.vnode = file[d].vnode
  BY <1>3, <1>5 DEF FileType
<1>7. Resting(r) /\ Quiet(r) /\ r.pc = "put"
  BY StandFact DEF Handling, Resting
<1>8. /\ io' = [io EXCEPT ![p] = j] /\ loc' = [loc EXCEPT ![p] = r]
      /\ j \in IoType /\ j.vn = NULL /\ j.desc = d
  BY <1>1, <1>2
<1>9. MapKept(p) /\ \A e \in Desc : NamedBy(e)' = NamedBy(e) /\ NamedBy(e) \in Nat
  BY SameDescriptors
<1>10. Touchable(p, d)
  BY <1>1, Entry
<1> HIDE DEF r, j, x
<1>11. \A e \in Desc : WorkOn(r, j, e) = Same(d, e)
  BY <1>7, <1>8 DEF WorkOn, Works, Busying, Same
<1>12. OneFile(p, r, j, d, x)
  <2>1. x.refcnt + WorkOn(loc[p], io[p], d) + NamedBy(d)
        = file[d].refcnt + WorkOn(r, j, d) + NamedBy(d)'
    BY <1>1, <1>6, <1>9, <1>11
  <2>2. \A e \in Desc \ {d} :
          /\ NamedBy(e)' \in Nat
          /\ WorkOn(loc[p], io[p], e) + NamedBy(e) = WorkOn(r, j, e) + NamedBy(e)'
    BY <1>1, <1>9, <1>11
  <2>3. QED
    BY <1>4, <1>5, <1>6, <1>9, <1>10, <2>1, <2>2 DEF OneFile
<1>13. FdDescs(p, r, j)
  BY <1>9, <1>12, OneFileDescs
<1>14. \A e \in Desc : file'[e].vnode = file[e].vnode
  BY <1>2, <1>4, <1>6
<1>15. FdVnodes(p, r, j)
  BY <1>1, <1>3, <1>7, <1>8, <1>14, StillVnodes
<1>16. FdHandles(p, r, j)
  <2>1. file'[d].ops # "none" /\ d # NULL
    BY <1>2, <1>4, <1>5, <1>6
  <2>2. QED
    BY <1>7, <1>8, <2>1 DEF FdHandles, Busying
<1>17. QED
  BY <1>1, <1>3, <1>7, <1>8, <1>13, <1>15, <1>16, RestKept

\* The vnode of an open file is in use.
LEMMA FileVnode ==
  ASSUME IInv, NEW d \in Desc, file[d].ops = "vfs"
  PROVE  /\ file[d].vnode \in Vnode /\ vnode[file[d].vnode].refcnt > 0
         /\ vnode[file[d].vnode].size \in Nat
         /\ ~InRoot(file[d].vnode) => vnode[file[d].vnode].ino \in Ino
<1>1. /\ file \in [Desc -> FileType] /\ FilesFit /\ Typed /\ VnodeRefs /\ VnodesFit
      /\ vnode \in [Vnode -> Fields]
  BY DEF IInv, Typed
<1>2. PICK v \in Vnode : v = file[d].vnode
  BY <1>1 DEF FilesFit, FileType
<1>3. vnode[v].refcnt > 0
  BY <1>1, <1>2, Referred
<1>4. Fits(vnode[v])
  BY <1>1, <1>3, BlankFact DEF VnodesFit
<1>5. ~InRoot(v) => vnode[v].ino \in Ino
  BY <1>4 DEF Fits, InRoot
<1>6. vnode[v].size \in Nat
  <2>1. vnode[v].size \in 0..FileMax /\ FileMax \in Nat
    BY <1>1, InoFact DEF Fields
  <2>2. QED
    BY <2>1
<1>7. QED
  BY <1>2, <1>3, <1>5, <1>6

LEMMA TmpWriteMoves ==
  ASSUME IInv, NEW d \in Desc, NEW n \in Nat, file[d].ops = "vfs", ~InRoot(file[d].vnode),
         TmpWrite(d, n)
  PROVE  \E o : Moves(d, o)
<1> DEFINE v == file[d].vnode
           i == vnode[v].ino
           off == WriteAt(d)
           new == Written(tmp, i, off, n)
<1>1. /\ v \in Vnode /\ vnode[v].refcnt > 0 /\ i \in Ino /\ vnode[v].size \in Nat
      /\ file[d] \in FileType /\ TmpOK(tmp)
  BY FileVnode DEF IInv, Typed
<1>2. off \in Nat
  BY <1>1 DEF WriteAt, FileType
<1>3. CASE /\ CanWrite(tmp, i, off) /\ tmp' = new
           /\ vnode' = IF new.node[i].size > tmp.node[i].size
                       THEN [vnode EXCEPT ![v].size = new.node[i].size] ELSE vnode
           /\ file' = [file EXCEPT ![d].offset = off + WriteLen(off, n)]
  <2>1. TmpOK(new) /\ WriteLen(off, n) \in Nat /\ new.node[i].size \in 0..FileMax
    BY <1>1, <1>2, <1>3, WrittenOK
  <2> DEFINE z == new.node[i].size
  <2>2. /\ z \in 0..FileMax
        /\ vnode' = [vnode EXCEPT ![v].size = z] \/ vnode' = vnode
    BY <1>3, <2>1, ZenonT(60)
  <2> HIDE DEF z, v, i, off, new
  <2>3. Steady /\ \A w \in Vnode : vnode'[w].refcnt = vnode[w].refcnt
    <3>1. CASE vnode' = vnode
      BY <3>1, SameSteady
    <3>2. CASE z \in 0..FileMax /\ vnode' = [vnode EXCEPT ![v].size = z]
      BY <1>1, <3>2, SizeSteady
    <3>3. QED
      BY <2>2, <3>1, <3>2
  <2>4. off + WriteLen(off, n) \in Nat
    BY <1>2, <2>1
  <2>5. Moves(d, off + WriteLen(off, n))
    BY <1>3, <2>1, <2>3, <2>4 DEF Moves
  <2>6. QED
    BY <2>5
<1>4. CASE file' = [file EXCEPT ![d].offset = off] /\ UNCHANGED <<tmp, vnode>>
  <2> HIDE DEF v, i, off, new
  <2>1. Steady /\ TmpOK(tmp')
    BY <1>1, <1>4, SameSteady
  <2>2. Moves(d, off)
    BY <1>2, <1>4, <2>1 DEF Moves
  <2>3. QED
    BY <2>2
<1>5. QED
  BY <1>3, <1>4 DEF TmpWrite

\* An operation that only reads.
LEMMA OffsetMoves ==
  ASSUME IInv, NEW d \in Desc, NEW o \in Nat, file' = [file EXCEPT ![d].offset = o],
         UNCHANGED <<tmp, vnode>>
  PROVE  Moves(d, o)
<1>1. Steady /\ TmpOK(tmp')
  BY SameSteady DEF IInv
<1>2. QED
  BY <1>1 DEF Moves

LEMMA TmpReadMoves ==
  ASSUME IInv, NEW d \in Desc, NEW n \in Nat, file[d].ops = "vfs", ~InRoot(file[d].vnode),
         TmpRead(d, n)
  PROVE  \E o : Moves(d, o)
<1> DEFINE i == vnode[file[d].vnode].ino
           off == file[d].offset
           len == ReadLen(tmp, i, off, n)
           o == off + len
<1>1. i \in Ino /\ file \in [Desc -> FileType] /\ off \in Nat /\ TmpOK(tmp)
  BY FileVnode DEF IInv, Typed, FileType
<1>2. tmp.node[i].size \in Nat
  <2>1. tmp.node[i].size \in 0..FileMax /\ FileMax \in Nat
    BY <1>1, InoFact DEF TmpOK, TmpTyped, Inode
  <2>2. QED
    BY <2>1
<1>3. file' = [file EXCEPT ![d].offset = o] /\ UNCHANGED <<tmp, vnode>>
  BY <1>1 DEF TmpRead
<1> HIDE DEF i, off
<1>4. len \in Nat
  <2>1. CASE off >= tmp.node[i].size
    BY <2>1 DEF ReadLen
  <2>2. CASE ~(off >= tmp.node[i].size)
    <3> DEFINE S == {n, tmp.node[i].size - off}
    <3>1. S \in SUBSET Nat /\ S # {}
      BY <1>1, <1>2, <2>2
    <3>2. len = Min(S)
      BY <2>2 DEF ReadLen
    <3> HIDE DEF S, len
    <3>3. Min(S) \in S
      BY <3>1, MinFact
    <3>4. QED
      BY <3>1, <3>2, <3>3
  <2>3. QED
    BY <2>1, <2>2
<1> HIDE DEF len
<1>5. o \in Nat
  BY <1>1, <1>4
<1> HIDE DEF o
<1>6. Moves(d, o)
  BY <1>3, <1>5, OffsetMoves
<1>7. QED
  BY <1>6

LEMMA SeekMoves ==
  ASSUME IInv, NEW d \in Desc, NEW n \in Nat, file[d].ops = "vfs", Seek(d, n)
  PROVE  \E o : Moves(d, o)
<1>1. vnode[file[d].vnode].size \in Nat
  BY FileVnode
<1>2. PICK o \in {n, vnode[file[d].vnode].size} : file' = [file EXCEPT ![d].offset = o]
  BY DEF Seek
<1>3. o \in Nat /\ UNCHANGED <<tmp, vnode>>
  BY <1>1, <1>2 DEF Seek
<1>4. Moves(d, o)
  BY <1>2, <1>3, OffsetMoves
<1>5. QED
  BY <1>4

LEMMA IoKept ==
  ASSUME IInv, NEW p \in Proc, Io(p)
  PROVE  IInv'
<1>1. /\ loc[p].pc = "io" /\ loc' = [loc EXCEPT ![p] = Standing("put")]
      /\ UNCHANGED <<mnt, scratch, fdmap, io>>
  BY DEF Io, At, Move, Standing
<1>2. PICK d \in Desc : d = io[p].desc
  BY <1>1, IdleHandles DEF Busying
<1>3. PICK n \in Nat : n = io[p].n
  BY DEF IInv, Typed, IoType
<1>4. \E o : Moves(d, o)
  <2>1. CASE file[d].ops = "vfs" /\ ~InRoot(file[d].vnode) /\ TmpWrite(d, n)
    BY <2>1, TmpWriteMoves
  <2>2. CASE file[d].ops = "vfs" /\ ~InRoot(file[d].vnode) /\ TmpRead(d, n)
    BY <2>2, TmpReadMoves
  <2>3. CASE file[d].ops = "vfs" /\ Seek(d, n)
    BY <2>3, SeekMoves
  <2>4. CASE UNCHANGED <<tmp, vnode, file>>
    <3>1. file \in [Desc -> FileType] /\ file[d].offset \in Nat
      BY DEF IInv, Typed, FileType
    <3>2. file' = [file EXCEPT ![d].offset = file[d].offset]
      BY <2>4, <3>1 DEF FileType
    <3>3. PICK o \in Nat : o = file[d].offset
      BY <3>1
    <3>4. Moves(d, o)
      BY <2>4, <3>2, <3>3, OffsetMoves
    <3>5. QED
      BY <3>4
  <2>5. QED
    BY <1>2, <1>3, <2>1, <2>2, <2>3, <2>4 DEF Io
<1>5. PICK o : Moves(d, o)
  BY <1>4
<1>6. QED
  BY <1>1, <1>2, <1>5, MovedKept

-----------------------------------------------------------------------------
(* The inductive invariant *)

\* After boot: one vnode or two, each the root of its mount.
LEMMA InitVnodes ==
  ASSUME VfsInit
  PROVE  /\ vnode \in [Vnode -> Fields] /\ mnt \in [Slot -> MountType]
         /\ VnodesFit /\ MountsFit
         /\ \A v \in Vnode : vnode[v].refcnt = AsRoot(v)
<1> DEFINE first == [BlankVnode EXCEPT !.refcnt = 1, !.type = "DIR",
                       !.mount = RootSlot, !.ino = RootName]
           second == [BlankVnode EXCEPT !.refcnt = 1, !.type = "DIR",
                        !.mount = 2, !.ino = RootIno]
           rootmnt == [state |-> "ACTIVE", path |-> << >>, root |-> RootVnode]
           tmpmnt(at) == [state |-> "ACTIVE", path |-> at, root |-> 2]
<1>1. /\ 1 \in Vnode /\ 2 \in Vnode /\ 1 \in Slot /\ 2 \in Slot /\ NULL \notin Vnode
      /\ NULL \notin Slot /\ RootVnode = 1 /\ RootSlot = 1
  BY VfsAssumption DEF Vnode, Slot, RootVnode, RootSlot
<1>2. /\ first \in Fields /\ first.refcnt = 1 /\ first.type = "DIR" /\ first.mount = 1
      /\ first.ino = RootName
  <2>1. 0 \in 0..FileMax
    BY InoFact
  <2>2. QED
    BY <1>1, <2>1 DEF BlankVnode, Fields, Kinds
<1>3. /\ second \in Fields /\ second.refcnt = 1 /\ second.type = "DIR" /\ second.mount = 2
      /\ second.ino = RootIno
  <2>1. 0 \in 0..FileMax
    BY InoFact
  <2>2. QED
    BY <1>1, <2>1, InoFact DEF BlankVnode, Fields, Kinds
<1>4. rootmnt \in MountType /\ rootmnt.state = "ACTIVE" /\ rootmnt.root = 1
  <2>1. << >> \in Seq(Name)
    OBVIOUS
  <2>2. QED
    BY <1>1, <2>1 DEF MountType
<1>5. BlankMount \in MountType /\ BlankMount.state = "FREE" /\ BlankMount.root = NULL
  <2>1. << >> \in Seq(Name)
    OBVIOUS
  <2>2. QED
    BY <2>1 DEF MountType, BlankMount
<1>6. ASSUME NEW at \in MountPaths
      PROVE  tmpmnt(at) \in MountType /\ tmpmnt(at).state = "ACTIVE" /\ tmpmnt(at).root = 2
  <2>1. at \in Seq(Name)
    BY PathAssumption
  <2>2. QED
    BY <1>1, <2>1 DEF MountType
<1>7. PICK at \in {NULL} \cup MountPaths :
        /\ vnode = [v \in Vnode |-> CASE v = RootVnode -> first
                                      [] v = 2 /\ at # NULL -> second
                                      [] OTHER -> BlankVnode]
        /\ mnt = [s \in Slot |-> CASE s = RootSlot -> rootmnt
                                   [] s = 2 /\ at # NULL -> tmpmnt(at)
                                   [] OTHER -> BlankMount]
  BY DEF VfsInit
<1> HIDE DEF first, second, rootmnt, tmpmnt
<1>8. \A v \in Vnode : vnode[v] = IF v = 1 THEN first
                                  ELSE IF v = 2 /\ at # NULL THEN second ELSE BlankVnode
  BY <1>1, <1>7
<1>9. \A s \in Slot : mnt[s] = IF s = 1 THEN rootmnt
                               ELSE IF s = 2 /\ at # NULL THEN tmpmnt(at) ELSE BlankMount
  BY <1>1, <1>7
<1>10. vnode \in [Vnode -> Fields]
  BY <1>2, <1>3, <1>7, <1>8, BlankFact
<1>11. at # NULL => /\ tmpmnt(at) \in MountType /\ tmpmnt(at).state = "ACTIVE"
                    /\ tmpmnt(at).root = 2
  BY <1>6
<1>12. mnt \in [Slot -> MountType]
  BY <1>4, <1>5, <1>7, <1>9, <1>11
<1>13. VnodesFit
  <2>1. ASSUME NEW v \in Vnode
        PROVE  vnode[v] = BlankVnode \/ (vnode[v].refcnt > 0 /\ Fits(vnode[v]) /\ Mounted(v))
    <3>1. CASE v = 1
      <4>1. vnode[v] = first /\ mnt[1] = rootmnt
        BY <1>1, <1>8, <1>9, <3>1
      <4>2. QED
        BY <1>1, <1>2, <1>4, <4>1 DEF Fits, Mounted
    <3>2. CASE v = 2 /\ at # NULL
      <4>1. vnode[v] = second /\ mnt[2] = tmpmnt(at)
        BY <1>1, <1>8, <1>9, <3>2
      <4>2. QED
        BY <1>1, <1>3, <1>11, <3>2, <4>1, InoFact DEF Fits, Mounted
    <3>3. CASE v # 1 /\ ~(v = 2 /\ at # NULL)
      BY <1>8, <3>3
    <3>4. QED
      BY <3>1, <3>2, <3>3
  <2>2. QED
    BY <2>1 DEF VnodesFit
<1>14. MountsFit
  <2>1. mnt[RootSlot] = [state |-> "ACTIVE", path |-> << >>, root |-> RootVnode]
    BY <1>1, <1>9 DEF rootmnt
  <2>2. ASSUME NEW s \in Slot
        PROVE  /\ mnt[s].state = "FREE" => mnt[s].root = NULL
               /\ mnt[s].state = "ACTIVE" => mnt[s].root # NULL
               /\ mnt[s].root # NULL => /\ vnode[mnt[s].root].mount = s
                                        /\ vnode[mnt[s].root].type = "DIR"
    <3>1. CASE s = 1
      BY <1>1, <1>2, <1>4, <1>8, <1>9, <3>1
    <3>2. CASE s = 2 /\ at # NULL
      BY <1>1, <1>3, <1>11, <1>8, <1>9, <3>2
    <3>3. CASE s # 1 /\ ~(s = 2 /\ at # NULL)
      BY <1>5, <1>9, <3>3
    <3>4. QED
      BY <3>1, <3>2, <3>3
  <2>3. QED
    BY <2>1, <2>2 DEF MountsFit
<1>15. ASSUME NEW v \in Vnode PROVE vnode[v].refcnt = AsRoot(v)
  <2> DEFINE T == {s \in Slot : mnt[s].root = v}
  <2>1. \A s \in Slot : mnt[s].root = IF s = 1 THEN 1 ELSE IF s = 2 /\ at # NULL THEN 2 ELSE NULL
    BY <1>4, <1>5, <1>9, <1>11
  <2>2. CASE v = 1 \/ (v = 2 /\ at # NULL)
    <3>1. T = {v}
      BY <1>1, <2>1, <2>2
    <3>2. vnode[v].refcnt = 1
      BY <1>2, <1>3, <1>8, <2>2
    <3>3. QED
      BY <3>1, <3>2, FS_Singleton DEF AsRoot
  <2>3. CASE v # 1 /\ ~(v = 2 /\ at # NULL)
    <3>1. T = {}
      BY <1>1, <2>1, <2>3
    <3>2. vnode[v].refcnt = 0
      BY <1>8, <2>3, BlankFact
    <3>3. QED
      BY <3>1, <3>2, FS_EmptySet DEF AsRoot
  <2>4. QED
    BY <2>2, <2>3
<1>16. QED
  BY <1>10, <1>12, <1>13, <1>14, <1>15

LEMMA IInvInit == Init => IInv
<1>1. SUFFICES ASSUME Init PROVE IInv
  OBVIOUS
<1>2. /\ VfsInit /\ file = [d \in Desc |-> BlankFile]
      /\ fdmap = [p \in Proc |-> [f \in Fd |-> NULL]] /\ io = [p \in Proc |-> NoIo]
      /\ tmp = TmpMounted /\ scratch = ScratchMax /\ loc = [p \in Proc |-> Idle]
  BY <1>1 DEF Init, VfsInit
<1>3. /\ vnode \in [Vnode -> Fields] /\ mnt \in [Slot -> MountType]
      /\ VnodesFit /\ MountsFit /\ \A v \in Vnode : vnode[v].refcnt = AsRoot(v)
  BY <1>2, InitVnodes
<1>4. /\ BlankFile \in FileType /\ BlankFile.refcnt = 0 /\ BlankFile.ops = "none"
      /\ BlankFile.vnode = NULL
  BY DEF FileType, BlankFile
<1>5. /\ NULL \notin Vnode /\ NULL \notin Desc
  BY Constants
<1>6. \A p \in Proc : loc[p] = Idle /\ io[p] = NoIo /\ \A f \in Fd : fdmap[p][f] = NULL
  BY <1>2
<1>7. \A d \in Desc : file[d] = BlankFile
  BY <1>2
<1>8. Typed
  <2>1. scratch \in Nat
    BY <1>2, VfsAssumption
  <2>2. loc \in [Proc -> Loc] /\ io \in [Proc -> IoType] /\ file \in [Desc -> FileType]
    BY <1>2, <1>4, IdleFact, NoIoFact
  <2>3. fdmap \in [Proc -> [Fd -> Desc \cup {NULL}]]
    BY <1>2
  <2>4. QED
    BY <1>3, <2>1, <2>2, <2>3 DEF Typed
<1>9. VnodeRefs
  <2>1. ASSUME NEW v \in Vnode
        PROVE  vnode[v].refcnt = InHands(v) + Closing(v) + InFiles(v) + AsRoot(v)
    <3>1. InHands(v) = 0
      <4> DEFINE S == Proc \X Hands
                 T == {x \in S : loc[x[1]][x[2]] = v}
      <4>1. Idle.cur = NULL /\ Idle.pin = NULL /\ Idle.child = NULL /\ Idle.par = NULL
        BY IdleQuiet DEF Quiet
      <4>2. \A q \in Proc, h \in Hands : loc[q][h] = NULL
        BY <1>6, <4>1 DEF Hands
      <4>3. T = {}
        <5>1. ASSUME NEW x \in S PROVE loc[x[1]][x[2]] # v
          <6>1. x[1] \in Proc /\ x[2] \in Hands
            BY <5>1
          <6>2. QED
            BY <1>5, <4>2, <6>1
        <5>2. QED
          BY <5>1
      <4>4. QED
        BY <4>3, FS_EmptySet DEF InHands, HandCount
    <3>2. Closing(v) = 0
      <4>1. {p \in Proc : io[p].vn = v} = {}
        BY <1>5, <1>6, NoIoFact
      <4>2. QED
        BY <4>1, FS_EmptySet DEF Closing
    <3>3. InFiles(v) = 0
      <4>1. {d \in Desc : file[d].vnode = v} = {}
        BY <1>4, <1>5, <1>7
      <4>2. QED
        BY <4>1, FS_EmptySet DEF InFiles
    <3>4. AsRoot(v) \in Nat /\ vnode[v].refcnt = AsRoot(v)
      BY <1>3, OthersNat
    <3>5. QED
      BY <3>1, <3>2, <3>3, <3>4
  <2>2. QED
    BY <2>1, RefsSum
<1>10. DescRefs
  <2>1. ASSUME NEW d \in Desc
        PROVE /\ file[d].refcnt = NamedBy(d) + InUse(d)
              /\ \A p \in Proc, f \in Fd : fdmap[p][f] = d => file[d].ops # "none"
    <3>1. NamedBy(d) = 0
      <4> DEFINE S == Proc \X Fd
                 T == {x \in S : fdmap[x[1]][x[2]] = d}
      <4>1. T = {}
        <5>1. ASSUME NEW x \in S PROVE fdmap[x[1]][x[2]] # d
          <6>1. x[1] \in Proc /\ x[2] \in Fd
            BY <5>1
          <6>2. QED
            BY <1>5, <1>6, <6>1
        <5>2. QED
          BY <5>1
      <4>2. QED
        BY <4>1, FS_EmptySet DEF NamedBy, NameCount
    <3>2. InUse(d) = 0
      <4>1. \A p \in Proc : ~Works(loc[p], io[p], d)
        BY <1>5, <1>6, NoIoFact DEF Works
      <4>2. {p \in Proc : Works(loc[p], io[p], d)} = {}
        BY <4>1
      <4>3. QED
        BY <4>2, FS_EmptySet DEF InUse, UseCount
    <3>3. QED
      BY <1>4, <1>5, <1>6, <1>7, <3>1, <3>2
  <2>2. QED
    BY <2>1, DescSum
<1>11. BuffersReturned
  <2>1. \A p \in Proc : loc[p].buf = 0
    BY <1>6, IdleFact
  <2>2. UNION {{p} \X (1..loc[p].buf) : p \in Proc} = {}
    BY <2>1
  <2>3. QED
    BY <1>2, <2>2, FS_EmptySet, VfsAssumption DEF BuffersReturned
<1>12. FilesFit
  BY <1>4, <1>7 DEF FilesFit
<1>13. TmpOK(tmp)
  BY <1>2, MountedOK
<1>14. ASSUME NEW p \in Proc
       PROVE  Holding(loc[p]) /\ Within(loc[p]) /\ MakingMount(p) /\ AtLink(p) /\ Handles(p)
  <2>1. loc[p] = Idle /\ Idle.pc = "idle" /\ Holding(Idle) /\ Within(Idle) /\ io[p].vn = NULL
    BY <1>6, IdleFact, NoIoFact
  <2>2. QED
    BY <2>1 DEF MakingMount, AtLink, Handles, Doubling, Busying, Mounting
<1>15. QED
  BY <1>3, <1>8, <1>9, <1>10, <1>11, <1>12, <1>13, <1>14 DEF IInv

LEMMA TableKept ==
  ASSUME IInv, UNCHANGED <<vnode, mnt, scratch, loc, file, fdmap, io>>, TmpOK(tmp')
  PROVE  IInv'
<1>1. /\ vnode' = vnode /\ mnt' = mnt /\ scratch' = scratch /\ loc' = loc
      /\ file' = file /\ fdmap' = fdmap /\ io' = io
  OBVIOUS
<1>2. Typed' /\ VnodesFit' /\ MountsFit' /\ FilesFit'
  BY <1>1 DEF IInv, Typed, VnodesFit, Mounted, MountsFit, FilesFit
<1>3. VnodeRefs' /\ BuffersReturned'
  BY <1>1 DEF IInv, VnodeRefs, BuffersReturned
<1>4. DescRefs'
  BY <1>1 DEF IInv, DescRefs, Working
<1>5. ASSUME NEW p \in Proc
      PROVE  /\ Holding(loc'[p]) /\ Within(loc'[p]) /\ MakingMount(p)' /\ AtLink(p)' /\ Handles(p)'
  BY <1>1 DEF IInv, MakingMount, AtLink, Handles, Doubling
<1>6. QED
  BY <1>2, <1>3, <1>4, <1>5 DEF IInv

LEMMA IInvSame ==
  ASSUME IInv, UNCHANGED vars
  PROVE  IInv'
<1>1. UNCHANGED <<vnode, mnt, scratch, loc, file, fdmap, io>> /\ tmp' = tmp /\ TmpOK(tmp)
  BY DEF vars, IInv
<1>2. QED
  BY <1>1, TableKept

\* Nothing but the table depends on what a race in it leaves.
LEMMA RaceKept ==
  ASSUME IInv, Race, UNCHANGED <<file, fdmap, io>>
  PROVE  IInv'
<1>1. tmp' \in Tables /\ UNCHANGED <<vnode, mnt, scratch, loc>>
  BY DEF Race
<1>2. /\ tmp' \in [node : [Ino -> Inode], used : 0..UintMax, torn : {TRUE}]
      /\ tmp'.node[RootIno].name = NoName
  BY <1>1, PathAssumption
<1>3. TmpOK(tmp')
  <2>1. 0..UintMax \subseteq Nat
    BY TmpfsAssumption
  <2>2. tmp' \in [node : [Ino -> Inode], used : Nat, torn : BOOLEAN]
    BY <1>2, <2>1
  <2>3. tmp'.torn
    BY <1>2
  <2>4. QED
    BY <1>2, <2>2, <2>3 DEF TmpOK, TmpTyped
<1>4. QED
  BY <1>1, <1>3, TableKept

LEMMA PathCallKept ==
  ASSUME IInv, NEW p \in Proc, PathCall(p), UNCHANGED <<file, fdmap, io>>
  PROVE  IInv'
<1>1. CASE \E c \in PathCalls : Request(p, c)
  BY <1>1, RequestKept
<1>2. CASE \E path \in MountPaths : MountReserve(p, path)
  BY <1>2, MountReserveKept
<1>3. CASE \E path \in MountPaths : Umount(p, path)
  BY <1>3, UmountKept
<1>4. QED
  BY <1>1, <1>2, <1>3 DEF PathCall

LEMMA WalkKept ==
  ASSUME IInv, NEW p \in Proc, Walk(p), UNCHANGED <<file, fdmap, io>>
  PROVE  IInv'
<1>1. CASE Normalize(p)
  BY <1>1, NormalizeKept
<1>2. CASE WalkRoot(p)
  BY <1>2, WalkRootKept
<1>3. CASE WalkMount(p)
  BY <1>3, WalkMountKept
<1>4. CASE WalkPinned(p)
  BY <1>4, WalkPinnedKept
<1>5. CASE WalkLookup(p)
  BY <1>5, WalkLookupKept
<1>6. CASE WalkDrop(p)
  BY <1>6, WalkDropKept
<1>7. CASE WalkLink(p)
  BY <1>7, WalkLinkKept
<1>8. CASE WalkReadlink(p)
  BY <1>8, WalkReadlinkKept
<1>9. CASE WalkBuffers(p)
  BY <1>9, WalkBuffersKept
<1>10. QED
  BY <1>1, <1>2, <1>3, <1>4, <1>5, <1>6, <1>7, <1>8, <1>9 DEF Walk

LEMMA PathStepKept ==
  ASSUME IInv, NEW p \in Proc, PathStep(p), UNCHANGED <<file, fdmap, io>>
  PROVE  IInv'
<1>1. CASE Walk(p)
  BY <1>1, WalkKept
<1>2. CASE Stat(p)
  BY <1>2, StatKept
<1>3. CASE Mkdir(p)
  BY <1>3, MkdirKept
<1>4. CASE Unlink(p)
  BY <1>4, UnlinkKept
<1>5. CASE RenameTo(p)
  BY <1>5, RenameToKept
<1>6. CASE Rename(p)
  BY <1>6, RenameKept
<1>7. CASE LinkTo(p)
  BY <1>7, LinkToKept
<1>8. CASE LinkRefused(p)
  BY <1>8, LinkRefusedKept
<1>9. CASE FsMount(p)
  BY <1>9, FsMountKept
<1>10. CASE Activate(p)
  BY <1>10, ActivateKept
<1>11. CASE Names(p)
  BY <1>11, NamesKept
<1>12. QED
  BY <1>1, <1>2, <1>3, <1>4, <1>5, <1>6, <1>7, <1>8, <1>9, <1>10, <1>11 DEF PathStep

LEMMA FdCallKept ==
  ASSUME IInv, NEW p \in Proc, FdCall(p)
  PROVE  IInv'
<1>1. CASE \E f \in OpenFds(p) : Close(p, f)
  BY <1>1, CloseKept
<1>2. CASE \E f \in OpenFds(p) : Dup(p, f)
  BY <1>2, DupKept
<1>3. CASE \E f \in OpenFds(p), g \in Fd : Dup2(p, f, g)
  BY <1>3, Dup2Kept
<1>4. CASE \E f \in OpenFds(p), op \in {"read", "write", "lseek"}, n \in Lens : Get(p, f, op, n)
  BY <1>4, GetKept
<1>5. CASE \E q \in Proc : Inherit(p, q)
  BY <1>5, InheritKept
<1>6. QED
  BY <1>1, <1>2, <1>3, <1>4, <1>5 DEF FdCall

LEMMA FdStepKept ==
  ASSUME IInv, NEW p \in Proc, FdStep(p)
  PROVE  IInv'
<1>1. CASE NameBuf(p)
  BY <1>1, NameBufKept
<1>2. CASE OpenCreate(p)
  BY <1>2, OpenCreateKept
<1>3. CASE OpenCreated(p)
  BY <1>3, OpenCreatedKept
<1>4. CASE OpenFound(p)
  BY <1>4, OpenFoundKept
<1>5. CASE OpenTrunc(p)
  BY <1>5, OpenTruncKept
<1>6. CASE OpenDesc(p)
  BY <1>6, OpenDescKept
<1>7. CASE OpenFill(p)
  BY <1>7, OpenFillKept
<1>8. CASE OpenInstall(p)
  BY <1>8, OpenInstallKept
<1>9. CASE CloseOps(p)
  BY <1>9, CloseOpsKept
<1>10. CASE Dup2Take(p)
  BY <1>10, Dup2TakeKept
<1>11. CASE Io(p)
  BY <1>11, IoKept
<1>12. CASE Put(p)
  BY <1>12, PutKept
<1>13. QED
  BY <1>1, <1>2, <1>3, <1>4, <1>5, <1>6, <1>7, <1>8, <1>9, <1>10, <1>11, <1>12
     DEF FdStep, OpenStep

LEMMA IInvNext == IInv /\ [Next]_vars => IInv'
<1>1. SUFFICES ASSUME IInv, [Next]_vars PROVE IInv'
  OBVIOUS
<1>2. CASE UNCHANGED vars
  BY <1>1, <1>2, IInvSame
<1>3. ASSUME NEW p \in Proc, PathCall(p), UNCHANGED <<file, fdmap, io>> PROVE IInv'
  BY <1>1, <1>3, PathCallKept
<1>4. ASSUME NEW p \in Proc, PathStep(p), UNCHANGED <<file, fdmap, io>> PROVE IInv'
  BY <1>1, <1>4, PathStepKept
<1>5. ASSUME NEW p \in Proc, FdCall(p) PROVE IInv'
  BY <1>1, <1>5, FdCallKept
<1>6. ASSUME NEW p \in Proc, FdStep(p) PROVE IInv'
  BY <1>1, <1>6, FdStepKept
<1>7. ASSUME Race, UNCHANGED <<file, fdmap, io>> PROVE IInv'
  BY <1>1, <1>7, RaceKept
<1>8. QED
  BY <1>1, <1>2, <1>3, <1>4, <1>5, <1>6, <1>7 DEF Next

LEMMA IInvAlways == Spec => []IInv
<1>1. IInv /\ [Next]_vars => IInv'
  BY IInvNext
<1>2. QED
  BY <1>1, IInvInit, PTL DEF Spec

-----------------------------------------------------------------------------
(* The theorems *)

\* The variables have their types, for any number of processes, vnodes, mounts, open
\* files and descriptors.
THEOREM TypeCorrect == Spec => []TypeOK
<1>1. IInv => TypeOK
  <2>1. SUFFICES ASSUME IInv PROVE TypeOK
    OBVIOUS
  <2>2. Typed /\ TmpOK(tmp) /\ VnodesFit /\ BuffersReturned
    BY <2>1 DEF IInv
  <2>3. DOMAIN vnode = Vnode
    BY <2>2 DEF Typed
  <2>4. ASSUME NEW v \in Vnode
        PROVE  /\ vnode[v].refcnt \in Nat /\ vnode[v].size \in 0..FileMax
               /\ \/ vnode[v] = BlankVnode
                  \/ vnode[v].mount = RootSlot /\ vnode[v].ino \in DOMAIN RootDir \cup {RootName}
                  \/ vnode[v].mount \in Slot \ {RootSlot} /\ vnode[v].ino \in Ino
    BY <2>2 DEF Typed, Fields, VnodesFit, Fits
  <2>5. \A s \in Slot : /\ mnt[s].state \in {"FREE", "MOUNTING", "ACTIVE"}
                        /\ mnt[s].root \in Vnode \cup {NULL}
    BY <2>2 DEF Typed, MountType
  <2>6. tmp \in [node : [Ino -> Inode], used : Nat, torn : BOOLEAN]
    BY <2>2, TypedFact
  <2>7. scratch \in 0..ScratchMax
    <3>1. BufSet(loc) = UNION {{p} \X (1..loc[p].buf) : p \in Proc}
      BY DEF BufSet
    <3>2. Cardinality(BufSet(loc)) \in Nat
      <4>1. \A p \in Proc : loc[p].buf \in 0..9
        BY <2>1, BufBound DEF IInv, Typed
      <4>2. BufSet(loc) \in SUBSET (Proc \X (1..9))
        BY <4>1, BufPairs
      <4>3. IsFiniteSet(1..9)
        <5>1. 1 \in Int /\ 9 \in Int
          OBVIOUS
        <5>2. QED
          BY <5>1, FS_Interval
      <4>4. IsFiniteSet(Proc \X (1..9))
        BY <4>3, Finite, FS_Product
      <4>5. QED
        BY <4>2, <4>4, FS_Subset, FS_CardinalityType
    <3>3. scratch + Cardinality(BufSet(loc)) = ScratchMax
      BY <2>2, <3>1 DEF BuffersReturned
    <3>4. QED
      BY <2>2, <3>2, <3>3, Constants DEF Typed
  <2>8. \A p \in Proc : \A h \in Hands : loc[p][h] \in Vnode \cup {NULL}
    BY <2>2 DEF Typed, Loc, Hands
  <2>9. /\ file \in [Desc -> [refcnt : Nat, ops : {"none", "vfs", "tty"},
                              vnode : Vnode \cup {NULL}, offset : Nat, append : BOOLEAN]]
        /\ fdmap \in [Proc -> [Fd -> Desc \cup {NULL}]]
    BY <2>2 DEF Typed, FileType
  <2>10. \A p \in Proc : io[p].desc \in Desc \cup {NULL} /\ io[p].vn \in Vnode \cup {NULL}
    BY <2>2 DEF Typed, IoType
  <2>11. QED
    BY <2>3, <2>4, <2>5, <2>6, <2>7, <2>8, <2>9, <2>10 DEF TypeOK
<1>2. QED
  BY <1>1, IInvAlways, PTL

\* A vnode is counted once for every local of a call, open file, file being closed and
\* mount that refers to it: no path through the walk, the calls on paths, open, close,
\* mount or umount loses a reference or gives one back twice.
THEOREM VnodesCounted == Spec => []VnodeRefs
<1>1. IInv => VnodeRefs
  BY DEF IInv
<1>2. QED
  BY <1>1, IInvAlways, PTL

\* Every path buffer is free or held by a call that knows it: whichever of the buffers
\* that a rename, a walk or a link asks for one by one are missing, and wherever the walk
\* ends, no error path of namei.c or vfs.c forgets one or frees one twice.
THEOREM BuffersKept == Spec => []BuffersReturned
<1>1. IInv => BuffersReturned
  BY DEF IInv
<1>2. QED
  BY <1>1, IInvAlways, PTL

\* An entry of the pool of open files is counted once for every descriptor and every
\* call that uses it, and is complete before a descriptor names it.
THEOREM DescriptorsCounted == Spec => []DescRefs
<1>1. IInv => DescRefs
  BY DEF IInv
<1>2. QED
  BY <1>1, IInvAlways, PTL

\* vfs_umount never takes a mount from under a walk or an open file, and the root of an
\* active mount is a directory of that mount.
THEOREM MountsPinned == Spec => []MountPinned
<1>1. IInv => MountPinned
  <2>1. SUFFICES ASSUME IInv PROVE MountPinned
    OBVIOUS
  <2>2. VnodesFit /\ MountsFit /\ mnt \in [Slot -> MountType]
    BY <2>1 DEF IInv, Typed
  <2>3. ASSUME NEW v \in Vnode, vnode[v].refcnt > 0 PROVE mnt[vnode[v].mount].state # "FREE"
    <3>1. Fits(vnode[v]) /\ Mounted(v)
      BY <2>2, <2>3, BlankFact DEF VnodesFit
    <3>2. vnode[v].mount \in Slot
      BY <3>1, Constants DEF Fits
    <3>3. CASE mnt[vnode[v].mount].state = "ACTIVE"
      BY <3>3
    <3>4. CASE mnt[vnode[v].mount].root = v
      BY <2>2, <3>2, <3>4, Constants DEF MountsFit
    <3>5. QED
      BY <3>1, <3>3, <3>4 DEF Mounted
  <2>4. \A s \in Slot : mnt[s].state = "ACTIVE" => /\ vnode[mnt[s].root].mount = s
                                                   /\ vnode[mnt[s].root].type = "DIR"
    BY <2>2 DEF MountsFit
  <2>5. QED
    BY <2>3, <2>4 DEF MountPinned
<1>2. QED
  BY <1>1, IInvAlways, PTL

\* Until a second tmpfs is mounted while another is there, no directory of tmpfs has two
\* entries of one name, whoever creates and renames at the same time.
THEOREM NamesStayUnique == Spec => []NamesUnique
<1>1. IInv => NamesUnique
  BY DEF IInv, TmpOK, Whole, NamesUnique
<1>2. QED
  BY <1>1, IInvAlways, PTL

\* Until a second tmpfs is mounted while another is there, the pages that inodes of tmpfs
\* hold are all counted, and tmpfs never holds more than its share.
THEOREM TmpfsWithinShare == Spec => []PagesCounted
<1>1. IInv => PagesCounted
  BY DEF IInv, TmpOK, Whole, PagesCounted
<1>2. QED
  BY <1>1, IInvAlways, PTL
=============================================================================
