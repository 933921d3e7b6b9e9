----------------------------- MODULE UfsProofs -----------------------------
(***************************************************************************)
(* Crash consistency of the disk file system, for any number of inodes,    *)
(* blocks, names, calls and power cuts.                                    *)
(***************************************************************************)
EXTENDS Ufs, FiniteSetTheorems, TLAPS

-----------------------------------------------------------------------------
(* Types *)

InodeType == [type : {"FILE", "DIR"}, nlink : Nat, blk : [Logical -> Block \cup {NoBlk}]]

Kinds == {"none", "create", "mkdir", "link", "unlink", "readd", "trunc", "write"}
Points == {"idle", "begin", "block", "fill", "inode", "undo", "add", "extend",
           "extended", "vnode", "nlink", "bump", "child", "parent", "drop", "free",
           "unuse", "next", "data", "sync"}

\* The calls that work in a directory, and the points at which they add to it.
DirKinds == {"create", "mkdir", "link", "unlink", "readd"}
Adding == {"add", "extend", "extended"}

OpType == [pc : Points, kind : Kinds, dir : Ino, name : Name \cup {""},
           ino : Ino \cup {0}, blk : Block \cup {NoBlk}, todo : SUBSET Nat, copy : InodeType]

\* The call under way.  Its inode is known from the start of a link, a truncate
\* and a write, and from the first step of the others.
OpOK == /\ op \in OpType
        /\ op.pc # "idle" => op.kind # "none"
        /\ op.kind \in {"link", "trunc", "write"} => op.ino \in Ino
        /\ op.pc \notin {"idle", "begin"} => op.ino \in Ino
        /\ op.kind \in DirKinds => op.name \in Name
        /\ op.pc \in {"block", "fill", "nlink"} => op.kind = "mkdir"
        /\ op.pc \in {"inode", "undo"} => op.kind \in {"create", "mkdir"}
        /\ op.pc \in Adding => op.kind \in {"create", "mkdir", "link", "readd"}
        /\ op.pc = "vnode" => op.kind = "create"
        /\ op.pc = "bump" => op.kind = "link"
        /\ op.pc \in {"child", "parent", "drop", "unuse"} => op.kind = "unlink"
        /\ op.pc = "free" => op.kind \in {"unlink", "trunc"}
        /\ op.pc \in {"next", "data"} => op.kind = "write"
        /\ op.pc \in {"fill", "extend", "extended", "data"} => op.blk \in Block
        /\ op.pc = "inode" /\ op.kind = "mkdir" => op.blk \in Block
        /\ op.pc \in {"begin", "block"} => op.blk = NoBlk
        /\ op.pc = "free" => op.todo \subseteq Block
        /\ op.kind = "write" => op.todo \subseteq Logical

Types == /\ TypeOK /\ OpOK
         /\ free \in [inodes : Int, blocks : Int] /\ sb \in [inodes : Int, blocks : Int]

-----------------------------------------------------------------------------
(* The inductive invariant, as long as no damage was recorded.  S holds the     *)
(* inodes a later call may still get at; one that is removed while the power    *)
(* is cut leaves S and is not met again.                                        *)

\* The entries of directories, block by block, and those that name x.
DirBlocks == UNION {Blocks(inode[d]) : d \in Dirs}
Listing == [b \in Block |-> IF b \in DirBlocks THEN content[b] ELSE {}]
Refs(x) == {r \in Block \X Name : [name |-> r[2], ino |-> x] \in Listing[r[1]]}

Reached(S) == /\ S \subseteq Ino /\ RootIno \in S
              /\ Ino \ ibit \subseteq S /\ Dirs \subseteq S
              /\ \A v \in open : v.ino \in S
              /\ op.ino \in S \cup {0} /\ op.dir \in S
              /\ \A b \in Block : \A e \in Listing[b] : e.ino \in S /\ e.ino \in ibit
              /\ inode[RootIno].type = "DIR"

\* No block of an inode is free, but those that a call is giving back.
Marked(S) == \A i \in S : (op.pc = "free" => i # op.ino) => Blocks(inode[i]) \subseteq bbit

Apart(S) == /\ \A i, j \in S : i # j => Blocks(inode[i]) \cap Blocks(inode[j]) = {}
            /\ \A i \in S, l, m \in Logical :
                 l # m /\ inode[i].blk[l] = inode[i].blk[m] => inode[i].blk[l] = NoBlk

\* A file has no more names than it counts, but for a link that will be counted
\* next; a directory has at most one.
Uncounted(x) == IF op.pc = "bump" /\ x = op.ino THEN 1 ELSE 0
LinkCounts ==
  \A x \in Ino : /\ inode[x].type = "DIR" => \A r, t \in Refs(x) : r = t
                 /\ inode[x].type = "FILE" =>
                      Cardinality(Refs(x)) <= inode[x].nlink + Uncounted(x)

\* A directory that was removed has no blocks.
Removed == \A i \in Ino \ ibit : inode[i].type = "DIR" => Blocks(inode[i]) = {}

\* Nothing but a directory holds entries.
Plain(S) == \A i \in S \ Dirs : \A b \in Blocks(inode[i]) : content[b] = {}

\* Block b was given to the call and to no inode yet.
Unowned(S, b) == b \in bbit /\ \A i \in S : b \notin Blocks(inode[i])

\* What the call under way relies on, by the point it has reached.
InDir == op.kind \in DirKinds /\ op.pc \notin {"idle", "sync"} => op.dir \in Dirs

Fresh ==
  /\ op.kind \in {"create", "mkdir"} /\ op.pc \in {"block", "fill", "inode", "undo"} \cup Adding
       => op.ino \in ibit /\ op.ino \notin {RootIno, op.dir} /\ Refs(op.ino) = {}
  /\ op.pc \in {"block", "fill", "inode", "undo"}
       => (inode[op.ino].type = "DIR" => Blocks(inode[op.ino]) = {})
  /\ op.kind = "create" /\ op.pc \in Adding
       => inode[op.ino].type = "FILE" /\ inode[op.ino].nlink = 1
  /\ op.kind = "mkdir" /\ op.pc \in Adding => inode[op.ino].type = "DIR"

NewBlock(S) ==
  /\ op.pc \in {"fill", "extend", "extended"} => Unowned(S, op.blk)
  /\ op.pc \in {"inode", "undo"} /\ op.kind = "mkdir" /\ op.blk # NoBlk => Unowned(S, op.blk)
  /\ op.pc = "inode" /\ op.kind = "mkdir" => content[op.blk] = {}
  /\ op.pc = "extended" => content[op.blk] = {NewEntry}

Linking == op.kind = "link" /\ op.pc \in Adding \cup {"bump"}
             => op.ino \in ibit /\ inode[op.ino].type = "FILE"

Readding == op.kind = "readd" /\ op.pc \in Adding
                  => /\ op.ino \in ibit /\ inode[op.ino].type = "DIR" /\ Refs(op.ino) = {}

\* The copy of the inode that an unlink or a truncate will write.
Dropping ==
  /\ op.kind = "unlink" /\ op.pc \in {"child", "parent", "drop", "free", "unuse"}
       => op.ino \in ibit
  /\ op.pc = "child" =>
       /\ inode[op.ino].type = "DIR" => Refs(op.ino) = {}
       /\ inode[op.ino].type = "FILE" => Cardinality(Refs(op.ino)) + 1 <= inode[op.ino].nlink
  /\ op.pc \in {"parent", "drop", "free"} => op.copy.type = inode[op.ino].type
  /\ op.pc = "parent" => inode[op.ino].type = "DIR"
  /\ op.pc \in {"parent", "drop"} =>
       /\ op.copy.blk = inode[op.ino].blk
       /\ inode[op.ino].type = "DIR" => Refs(op.ino) = {}
       /\ inode[op.ino].type = "FILE" => Cardinality(Refs(op.ino)) <= op.copy.nlink
  /\ op.pc = "free" => /\ op.todo \subseteq Blocks(inode[op.ino]) \cap bbit
                       /\ op.copy.blk = NoBlocks
                       /\ op.kind = "unlink" => Refs(op.ino) = {}
                       /\ op.kind = "trunc" => op.copy.nlink = inode[op.ino].nlink
  /\ op.pc = "unuse" => Refs(op.ino) = {} /\ Blocks(inode[op.ino]) = {}

\* The copy of the inode that a write extends.
Extending(S) ==
  op.pc \in {"next", "data"} =>
    /\ op.copy.type = "FILE" /\ inode[op.ino].type = "FILE"
    /\ op.copy.nlink = inode[op.ino].nlink
    /\ Blocks(op.copy) \subseteq bbit /\ \A b \in Blocks(op.copy) : content[b] = {}
    /\ \A i \in S \ {op.ino} : Blocks(op.copy) \cap Blocks(inode[i]) = {}
    /\ \A l, m \in Logical :
         l # m /\ op.copy.blk[l] = op.copy.blk[m] => op.copy.blk[l] = NoBlk
    /\ op.pc = "data" =>
         /\ op.blk \in bbit /\ \A i \in S \ {op.ino} : op.blk \notin Blocks(inode[i])
         /\ \A m \in Logical : op.copy.blk[m] = op.blk => m \in Lowest(op.todo)

Tree(S) == Marked(S) /\ Apart(S) /\ LinkCounts /\ Removed /\ Plain(S)

Sound(S) == /\ Reached(S) /\ Tree(S)
            /\ InDir /\ Fresh /\ NewBlock(S) /\ Linking /\ Readding /\ Dropping
            /\ Extending(S)

IInv == /\ Types /\ cuts \in Nat
        /\ hurt = {} => \E S \in SUBSET Ino : Sound(S)
        /\ FreeExact

-----------------------------------------------------------------------------
(* Blocks, entries and their numbers *)

LEMMA BlocksIn ==
    ASSUME NEW node \in InodeType
    PROVE  /\ Blocks(node) \subseteq Block
           /\ \A b : b \in Blocks(node) <=> b # NoBlk /\ \E l \in Logical : node.blk[l] = b
BY DEF Blocks, InodeType

LEMMA BlocksNone ==
    ASSUME NEW node, node.blk = NoBlocks
    PROVE  Blocks(node) = {}
BY DEF Blocks, NoBlocks

\* One more block, in a place that was empty.
LEMMA BlocksOneMore ==
    ASSUME NEW node \in InodeType, NEW l \in Logical, NEW b \in Block, NEW new,
           node.blk[l] = NoBlk, new.blk = [node.blk EXCEPT ![l] = b]
    PROVE  Blocks(new) = Blocks(node) \cup {b}
<1>1. b # NoBlk
  BY DEF Block, NoBlk
<1>2. node.blk \in [Logical -> Block \cup {NoBlk}]
  BY DEF InodeType
<1>3. \A m \in Logical : new.blk[m] = IF m = l THEN b ELSE node.blk[m]
  BY <1>2
<1>4. ASSUME NEW x, x \in Blocks(new) PROVE x \in Blocks(node) \cup {b}
  BY <1>3, <1>4 DEF Blocks
<1>5. ASSUME NEW x, x \in Blocks(node) \cup {b} PROVE x \in Blocks(new)
  <2>1. CASE x = b
    BY <1>1, <1>3, <2>1 DEF Blocks
  <2>2. CASE x # b
    <3>1. PICK m \in Logical : node.blk[m] = x /\ x # NoBlk
      BY <1>5, <2>2 DEF Blocks
    <3>2. new.blk[m] = x
      BY <1>3, <3>1
    <3> QED
      BY <3>1, <3>2 DEF Blocks
  <2> QED
    BY <2>1, <2>2
<1> QED
  BY <1>4, <1>5

LEMMA InodesOf ==
    ASSUME TypeOK, NEW i \in Ino
    PROVE  /\ inode[i] \in InodeType
           /\ Blocks(inode[i]) \subseteq Block
BY BlocksIn DEF TypeOK, InodeType

LEMMA RefsFinite ==
    ASSUME NEW x
    PROVE  IsFiniteSet(Refs(x)) /\ Cardinality(Refs(x)) \in Nat
<1>1. IsFiniteSet(Block)
  BY FS_Interval, UfsAssumption DEF Block
<1>2. IsFiniteSet(Block \X Name)
  BY <1>1, UfsAssumption, FS_Product
<1>3. Refs(x) \in SUBSET (Block \X Name)
  BY DEF Refs
<1>4. IsFiniteSet(Refs(x))
  BY <1>2, <1>3, FS_Subset
<1> QED
  BY <1>4, FS_CardinalityType

\* Bitmaps are finite, so a bit more or less is one more or less.
LEMMA BitmapFinite ==
    ASSUME TypeOK
    PROVE  /\ IsFiniteSet(ibit) /\ Cardinality(ibit) \in Nat
           /\ IsFiniteSet(bbit) /\ Cardinality(bbit) \in Nat
<1>1. IsFiniteSet(Block) /\ IsFiniteSet(Ino)
  BY FS_Interval, UfsAssumption DEF Block, Ino
<1>2. ibit \in SUBSET Ino /\ bbit \in SUBSET Block
  BY DEF TypeOK
<1>3. IsFiniteSet(ibit) /\ IsFiniteSet(bbit)
  BY <1>1, <1>2, FS_Subset
<1> QED
  BY <1>3, FS_CardinalityType

LEMMA DirBlocksIn == TypeOK => DirBlocks \subseteq Block /\ Dirs \subseteq Ino
<1> SUFFICES ASSUME TypeOK PROVE DirBlocks \subseteq Block /\ Dirs \subseteq Ino
  OBVIOUS
<1>1. Dirs \subseteq Ino
  BY DEF Dirs, TypeOK
<1> QED
  BY <1>1, InodesOf DEF DirBlocks

\* The entries of a directory are those listed in its blocks.
LEMMA EntriesListed ==
    ASSUME TypeOK, NEW d \in Dirs
    PROVE  /\ \A b \in Blocks(inode[d]) : b \in Block /\ Listing[b] = content[b]
           /\ \A e \in Entries(d) : \E b \in Block : e \in Listing[b]
<1>1. d \in Ino /\ Blocks(inode[d]) \subseteq Block /\ Blocks(inode[d]) \subseteq DirBlocks
  BY DirBlocksIn, InodesOf DEF DirBlocks
<1>2. \A b \in Blocks(inode[d]) : b \in Block /\ Listing[b] = content[b]
  BY <1>1 DEF Listing
<1> QED
  BY <1>2 DEF Entries

-----------------------------------------------------------------------------
(* Types are kept *)

LEMMA ConstantTypes ==
    /\ NoBlocks \in [Logical -> Block \cup {NoBlk}]
    /\ BlankInode \in InodeType /\ RootIno \in Ino /\ RootBlock \in Block
    /\ 0 \notin Ino /\ NoBlk \notin Block /\ 0 \in Logical
    /\ Logical \subseteq Nat /\ Block \subseteq Nat
<1>1. /\ RootIno \in Ino /\ RootBlock \in Block /\ 0 \notin Ino /\ NoBlk \notin Block
      /\ 0 \in Logical /\ Logical \subseteq Nat /\ Block \subseteq Nat
  BY UfsAssumption DEF RootIno, RootBlock, Ino, Block, NoBlk, Logical
<1>2. NoBlocks \in [Logical -> Block \cup {NoBlk}]
  BY DEF NoBlocks
<1> QED
  BY <1>1, <1>2 DEF BlankInode, InodeType

LEMMA IdleTypes == Idle \in OpType /\ Idle.pc = "idle" /\ Idle.kind = "none"
                   /\ Idle.ino = 0 /\ Idle.dir = RootIno /\ Idle.blk = NoBlk
BY ConstantTypes DEF Idle, OpType, Points, Kinds

\* A call that is over, or that goes on at a point with nothing to know.
LEMMA DoneTypes == ASSUME Done PROVE OpOK'
BY IdleTypes DEF Done, OpOK, OpType, Adding, DirKinds

\* A block is given out, and the call goes on.
LEMMA AllocBlockTypes ==
    ASSUME Types, NEW next \in {"extend", "fill", "data"}, AllocBlock(next),
           op.pc # "idle", op.ino \in Ino,
           next = "extend" => op.kind \in {"create", "mkdir", "link", "readd"},
           next = "fill" => op.kind = "mkdir", next = "data" => op.kind = "write"
    PROVE  OpOK' /\ bbit' \subseteq Block /\ free' \in [inodes : Int, blocks : Int]
<1>1. PICK b \in Lowest(FreeBlks) :
        /\ bbit' = bbit \cup {b} /\ free' = [free EXCEPT !.blocks = @ - 1]
        /\ op' = [op EXCEPT !.blk = b, !.pc = next]
  BY DEF AllocBlock
<1>2. b \in Block
  BY <1>1 DEF Lowest, FreeBlks
<1>3. op \in OpType
  BY DEF Types, OpOK
<1>4. /\ op' \in OpType /\ op'.pc = next /\ op'.blk = b /\ op'.kind = op.kind
      /\ op'.ino = op.ino /\ op'.name = op.name /\ op'.todo = op.todo
  BY <1>1, <1>2, <1>3 DEF OpType, Points
<1>5. OpOK'
  BY <1>2, <1>4 DEF OpOK, Types, Adding, DirKinds
<1> QED
  BY <1>1, <1>2, <1>5 DEF Types, TypeOK

\* The call goes on at another point, with nothing else changed in it.
LEMMA GotoTypes ==
    ASSUME Types, NEW point \in Points, Goto(point)
    PROVE  /\ op' \in OpType /\ op'.pc = point /\ op'.kind = op.kind /\ op'.dir = op.dir
           /\ op'.name = op.name /\ op'.ino = op.ino /\ op'.blk = op.blk
           /\ op'.todo = op.todo /\ op'.copy = op.copy
BY DEF Types, OpOK, OpType, Goto

LEMMA AddedTypes ==
    ASSUME Types, op.pc \in Adding, Added
    PROVE  OpOK'
<1>1. CASE AfterAdd = "idle"
  BY <1>1, DoneTypes DEF Added
<1>2. CASE AfterAdd # "idle"
  <2>1. /\ Goto(AfterAdd) /\ op.kind \in {"create", "mkdir", "link"}
        /\ AfterAdd = IF op.kind = "create" THEN "vnode"
                      ELSE IF op.kind = "mkdir" THEN "nlink" ELSE "bump"
    BY <1>2 DEF Added, AfterAdd
  <2>2. AfterAdd \in Points /\ AfterAdd \in {"vnode", "nlink", "bump"}
    BY <2>1 DEF Points
  <2>3. /\ op' \in OpType /\ op'.pc = AfterAdd /\ op'.kind = op.kind /\ op'.dir = op.dir
        /\ op'.name = op.name /\ op'.ino = op.ino /\ op'.blk = op.blk
        /\ op'.todo = op.todo
    BY <2>1, <2>2, GotoTypes
  <2>4. op.ino \in Ino
    BY DEF Types, OpOK, Adding
  <2> QED
    BY <2>1, <2>2, <2>3, <2>4 DEF OpOK, Types, Adding, DirKinds
<1> QED
  BY <1>1, <1>2

LEMMA AddFailedTypes ==
    ASSUME Types, op.pc \in Adding, AddFailed
    PROVE  OpOK'
<1>1. CASE op.kind # "create"
  BY <1>1, DoneTypes DEF AddFailed
<1>2. CASE op.kind = "create"
  <2>1. Goto("undo") /\ "undo" \in Points
    BY <1>2 DEF AddFailed, Points
  <2>2. /\ op' \in OpType /\ op'.pc = "undo" /\ op'.kind = op.kind /\ op'.dir = op.dir
        /\ op'.name = op.name /\ op'.ino = op.ino /\ op'.blk = op.blk
        /\ op'.todo = op.todo
    BY <2>1, GotoTypes
  <2>3. op.ino \in Ino
    BY DEF Types, OpOK, Adding
  <2> QED
    BY <1>2, <2>2, <2>3 DEF OpOK, Types, Adding, DirKinds
<1> QED
  BY <1>1, <1>2

LEMMA AddStepTypes ==
    ASSUME Types, AddStep, UNCHANGED open
    PROVE  Types'
<1> USE DEF disk
<1>0. NewEntry \in [name : Name, ino : Ino] \/ op.pc \notin Adding
  BY DEF NewEntry, Types, OpOK, Adding, DirKinds
<1>1. CASE AddEntry
  <2>0. op.pc \in Adding /\ op.pc = "add" /\ sb' = sb
    BY <1>1 DEF AddEntry, Adding
  <2>1. CASE /\ \E b \in Lowest(Room(op.dir)) :
                  content' = [content EXCEPT ![b] = @ \cup {NewEntry}]
             /\ Added /\ UNCHANGED <<ibit, bbit, inode, free>>
    <3>1. content \in [Block -> SUBSET [name : Name, ino : Ino]]
      BY DEF Types, TypeOK
    <3>2. content' \in [Block -> SUBSET [name : Name, ino : Ino]]
      <4>1. PICK b : content' = [content EXCEPT ![b] = @ \cup {NewEntry}]
        BY <2>1
      <4> QED
        BY <1>0, <2>0, <3>1, <4>1
    <3>3. OpOK'
      BY <2>0, <2>1, AddedTypes
    <3> QED
      BY <2>0, <2>1, <3>2, <3>3 DEF Types, TypeOK
  <2>2. CASE AllocBlock("extend")
    <3>1. OpOK' /\ bbit' \subseteq Block /\ free' \in [inodes : Int, blocks : Int]
      BY <2>0, <2>2, AllocBlockTypes DEF Types, OpOK, Adding
    <3> QED
      BY <2>0, <2>2, <3>1 DEF Types, TypeOK, AllocBlock
  <2>3. CASE AddFailed /\ UNCHANGED <<disk, free>>
    BY <2>0, <2>3, AddFailedTypes DEF Types, TypeOK
  <2> QED
    BY <1>1, <2>1, <2>2, <2>3 DEF AddEntry
<1>2. CASE Extend
  <2>1. Goto("extended") /\ "extended" \in Points /\ op.pc \in Adding /\ op.pc = "extend"
    BY <1>2 DEF Extend, Points, Adding
  <2>2. /\ op' \in OpType /\ op'.pc = "extended" /\ op'.kind = op.kind /\ op'.dir = op.dir
        /\ op'.name = op.name /\ op'.ino = op.ino /\ op'.blk = op.blk
        /\ op'.todo = op.todo
    BY <2>1, GotoTypes
  <2>3. OpOK'
    BY <2>1, <2>2 DEF OpOK, Types, Adding, DirKinds
  <2> QED
    BY <1>0, <1>2, <2>1, <2>3 DEF Extend, Types, TypeOK
<1>3. CASE Extended
  <2>0. op.pc \in Adding /\ op.blk \in Block
    BY <1>3 DEF Extended, Adding, Types, OpOK
  <2>1. OpOK'
    BY <1>3, <2>0, AddedTypes, AddFailedTypes DEF Extended
  <2>2. inode' \in [Ino -> InodeType]
    <3>1. CASE UNCHANGED inode
      BY <3>1 DEF Types, TypeOK, InodeType
    <3>2. ASSUME NEW l \in Logical, inode' = [inode EXCEPT ![op.dir].blk[l] = op.blk]
          PROVE  inode' \in [Ino -> InodeType]
      <4>1. inode \in [Ino -> InodeType]
        BY DEF Types, TypeOK, InodeType
      <4>2. ASSUME NEW i \in Ino PROVE [inode[i] EXCEPT !.blk[l] = op.blk] \in InodeType
        BY <2>0, <4>1 DEF InodeType
      <4> QED
        BY <3>2, <4>1, <4>2
    <3> QED
      BY <1>3, <3>1, <3>2 DEF Extended, Lowest
  <2> QED
    BY <1>3, <2>1, <2>2 DEF Extended, Types, TypeOK, InodeType
<1>4. CASE Undo
  <2>0. op.pc = "undo"
    BY <1>4 DEF Undo
  <2>1. CASE FreeBlock(op.blk) /\ op' = [op EXCEPT !.blk = NoBlk] /\ UNCHANGED ibit
    <3>1. /\ op' \in OpType /\ op'.pc = op.pc /\ op'.kind = op.kind
          /\ op'.name = op.name /\ op'.ino = op.ino /\ op'.todo = op.todo
      BY <2>1 DEF Types, OpOK, OpType
    <3>2. OpOK'
      BY <2>0, <3>1 DEF Types, OpOK, Adding, DirKinds
    <3> QED
      BY <1>4, <2>1, <3>2 DEF Undo, FreeBlock, Types, TypeOK
  <2>2. CASE FreeInode(op.ino) /\ Done /\ UNCHANGED bbit
    BY <1>4, <2>2, DoneTypes DEF Undo, FreeInode, Types, TypeOK
  <2> QED
    BY <1>4, <2>1, <2>2 DEF Undo
<1> QED
  BY <1>1, <1>2, <1>3, <1>4 DEF AddStep

LEMMA MakeStepTypes ==
    ASSUME Types, MakeStep, UNCHANGED open
    PROVE  Types'
<1> USE DEF disk
<1>1. CASE NewInode
  <2>0. op.pc = "begin" /\ op.kind \in {"create", "mkdir"} /\ sb' = sb
    BY <1>1 DEF NewInode, At
  <2>1. CASE Done /\ UNCHANGED <<disk, free>>
    BY <2>0, <2>1, DoneTypes DEF Types, TypeOK
  <2>2. CASE AllocInode(IF op.kind = "create" THEN "inode" ELSE "block")
    <3> DEFINE next == IF op.kind = "create" THEN "inode" ELSE "block"
    <3>1. PICK i \in Lowest(FreeInos) :
            /\ ibit' = ibit \cup {i} /\ free' = [free EXCEPT !.inodes = @ - 1]
            /\ op' = [op EXCEPT !.ino = i, !.pc = next]
            /\ UNCHANGED <<bbit, inode, content>>
      BY <2>2 DEF AllocInode
    <3>2. i \in Ino /\ next \in Points
      BY <3>1 DEF Lowest, FreeInos, Points
    <3>3. /\ op' \in OpType /\ op'.pc = next /\ op'.kind = op.kind /\ op'.dir = op.dir
          /\ op'.name = op.name /\ op'.ino = i /\ op'.todo = op.todo /\ op'.blk = op.blk
      BY <3>1, <3>2 DEF Types, OpOK, OpType
    <3>4. OpOK'
      BY <2>0, <3>2, <3>3 DEF Types, OpOK, Adding, DirKinds
    <3> QED
      BY <2>0, <3>1, <3>2, <3>4 DEF Types, TypeOK
  <2> QED
    BY <1>1, <2>1, <2>2 DEF NewInode
<1>2. CASE MkdirBlock
  <2>0. op.pc = "block" /\ op.kind = "mkdir" /\ sb' = sb /\ op.ino \in Ino
    BY <1>2 DEF MkdirBlock, At, Types, OpOK
  <2>1. CASE Goto("undo") /\ UNCHANGED <<disk, free>>
    <3>1. /\ op' \in OpType /\ op'.pc = "undo" /\ op'.kind = op.kind /\ op'.dir = op.dir
          /\ op'.name = op.name /\ op'.ino = op.ino /\ op'.blk = op.blk
          /\ op'.todo = op.todo
      BY <2>1, GotoTypes DEF Points
    <3>2. OpOK'
      BY <2>0, <3>1 DEF OpOK, Types, Adding, DirKinds
    <3> QED
      BY <2>0, <2>1, <3>2 DEF Types, TypeOK
  <2>2. CASE AllocBlock("fill")
    <3>1. OpOK' /\ bbit' \subseteq Block /\ free' \in [inodes : Int, blocks : Int]
      BY <2>0, <2>2, AllocBlockTypes
    <3> QED
      BY <2>0, <2>2, <3>1 DEF Types, TypeOK, AllocBlock
  <2> QED
    BY <1>2, <2>1, <2>2 DEF MkdirBlock
<1>3. CASE MkdirFill
  <2>0. op.pc = "fill" /\ op.kind = "mkdir" /\ op.blk \in Block
    BY <1>3 DEF MkdirFill, At, Types, OpOK
  <2>1. /\ op' \in OpType /\ op'.pc = "inode" /\ op'.kind = op.kind /\ op'.dir = op.dir
        /\ op'.name = op.name /\ op'.ino = op.ino /\ op'.blk = op.blk
        /\ op'.todo = op.todo
    BY <1>3, GotoTypes DEF MkdirFill, Points
  <2>2. OpOK'
    BY <2>0, <2>1 DEF OpOK, Types, Adding, DirKinds
  <2> QED
    BY <1>3, <2>2 DEF MkdirFill, Types, TypeOK
<1>4. CASE WriteInode
  <2>0. op.pc = "inode" /\ op.kind \in {"create", "mkdir"}
    BY <1>4 DEF WriteInode, At
  <2>1. PICK point \in {"add", "undo"} : Goto(point)
    BY <1>4 DEF WriteInode
  <2>2. /\ op' \in OpType /\ op'.pc = point /\ op'.kind = op.kind /\ op'.dir = op.dir
        /\ op'.name = op.name /\ op'.ino = op.ino /\ op'.blk = op.blk
        /\ op'.todo = op.todo
    BY <2>1, GotoTypes DEF Points
  <2>3. OpOK'
    BY <2>0, <2>1, <2>2 DEF OpOK, Types, Adding, DirKinds
  <2>4. inode' \in [Ino -> InodeType]
    <3>1. inode \in [Ino -> InodeType]
      BY DEF Types, TypeOK, InodeType
    <3> DEFINE file == [type |-> "FILE", nlink |-> 1, blk |-> NoBlocks]
               dir == [type |-> "DIR", nlink |-> 2, blk |-> [NoBlocks EXCEPT ![0] = op.blk]]
    <3>2. file \in InodeType
      BY ConstantTypes DEF InodeType
    <3>3. op.kind = "mkdir" => dir \in InodeType
      <4>1. op.kind = "mkdir" => op.blk \in Block
        BY <2>0 DEF Types, OpOK
      <4> QED
        BY <4>1, ConstantTypes DEF InodeType
    <3>4. \/ UNCHANGED inode
          \/ inode' = [inode EXCEPT ![op.ino] = IF op.kind = "create" THEN file ELSE dir]
      BY <1>4 DEF WriteInode
    <3> HIDE DEF file, dir
    <3> QED
      BY <2>0, <3>1, <3>2, <3>3, <3>4
  <2> QED
    BY <1>4, <2>3, <2>4 DEF WriteInode, Types, TypeOK, InodeType
<1>5. CASE MkdirNlink
  <2>0. op.pc = "nlink" /\ op.kind = "mkdir"
    BY <1>5 DEF MkdirNlink, At
  <2>1. /\ op' \in OpType /\ op'.pc = "sync" /\ op'.kind = op.kind /\ op'.dir = op.dir
        /\ op'.name = op.name /\ op'.ino = op.ino /\ op'.blk = op.blk
        /\ op'.todo = op.todo
    BY <1>5, GotoTypes DEF MkdirNlink, Points
  <2>2. OpOK'
    BY <2>0, <2>1 DEF OpOK, Types, Adding, DirKinds
  <2>3. inode' \in [Ino -> InodeType]
    <3>1. inode \in [Ino -> InodeType]
      BY DEF Types, TypeOK, InodeType
    <3>2. ASSUME NEW i \in Ino PROVE [inode[i] EXCEPT !.nlink = @ + 1] \in InodeType
      BY <3>1 DEF InodeType
    <3> QED
      BY <1>5, <3>1, <3>2 DEF MkdirNlink
  <2> QED
    BY <1>5, <2>2, <2>3 DEF MkdirNlink, Types, TypeOK, InodeType
<1> QED
  BY <1>1, <1>2, <1>3, <1>4, <1>5 DEF MakeStep

LEMMA FreeStepTypes ==
    ASSUME Types, FreeStep, UNCHANGED open
    PROVE  Types'
<1> USE DEF disk
<1>0. inode \in [Ino -> InodeType] /\ op \in OpType
      /\ content \in [Block -> SUBSET [name : Name, ino : Ino]]
  BY DEF Types, TypeOK, InodeType, OpOK
<1>1. CASE UnlinkEntry
  <2>0. op.pc = "begin" /\ op.kind = "unlink"
    BY <1>1 DEF UnlinkEntry, At
  <2>1. CASE Done /\ UNCHANGED content
    BY <1>1, <2>1, DoneTypes DEF UnlinkEntry, Types, TypeOK
  <2>2. ASSUME NEW e \in Named(op.dir, op.name), NEW b \in Blocks(inode[op.dir]),
               e \in content[b], content' = [content EXCEPT ![b] = @ \ {e}],
               op' = [op EXCEPT !.ino = e.ino, !.pc = "child"]
        PROVE  Types'
    <3>1. b \in Block
      BY <1>0, InodesOf DEF Types, OpType
    <3>2. e.ino \in Ino
      BY <1>0, <2>2, <3>1
    <3>3. /\ op' \in OpType /\ op'.pc = "child" /\ op'.kind = op.kind /\ op'.ino = e.ino
          /\ op'.name = op.name /\ op'.todo = op.todo
      BY <1>0, <2>2, <3>2 DEF OpType, Points
    <3>4. OpOK'
      BY <2>0, <3>2, <3>3 DEF Types, OpOK, Adding, DirKinds
    <3>5. content' \in [Block -> SUBSET [name : Name, ino : Ino]]
      BY <1>0, <2>2
    <3> QED
      BY <1>1, <3>4, <3>5 DEF UnlinkEntry, Types, TypeOK
  <2> QED
    BY <1>1, <2>1, <2>2 DEF UnlinkEntry
<1>2. CASE UnlinkChild
  <2>0. op.pc = "child" /\ op.kind = "unlink" /\ op.ino \in Ino
    BY <1>2 DEF UnlinkChild, At, Types, OpOK
  <2>1. UNCHANGED <<disk, sb, free>>
    BY <1>2 DEF UnlinkChild
  <2>2. CASE Done
    BY <2>1, <2>2, DoneTypes DEF Types, TypeOK
  <2>3. CASE op' = [op EXCEPT !.kind = "readd", !.pc = "add"]
    <3>1. /\ op' \in OpType /\ op'.pc = "add" /\ op'.kind = "readd" /\ op'.ino = op.ino
          /\ op'.name = op.name /\ op'.todo = op.todo
      BY <1>0, <2>3 DEF OpType, Points, Kinds
    <3>2. OpOK'
      BY <2>0, <3>1 DEF Types, OpOK, Adding, DirKinds
    <3> QED
      BY <2>1, <3>2 DEF Types, TypeOK
  <2>4. ASSUME NEW point \in {"parent", "drop"},
               op' = [op EXCEPT !.copy = [inode[op.ino] EXCEPT !.nlink = OneLess(@)],
                                !.pc = point]
        PROVE  Types'
    <3>1. inode[op.ino] \in InodeType
      BY <1>0, <2>0
    <3>2. [inode[op.ino] EXCEPT !.nlink = OneLess(@)] \in InodeType
      BY <3>1 DEF InodeType, OneLess
    <3>3. /\ op' \in OpType /\ op'.pc = point /\ op'.kind = op.kind /\ op'.ino = op.ino
          /\ op'.name = op.name /\ op'.todo = op.todo
      BY <1>0, <2>4, <3>2 DEF OpType, Points
    <3>4. OpOK'
      BY <2>0, <3>3 DEF Types, OpOK, Adding, DirKinds
    <3> QED
      BY <2>1, <3>4 DEF Types, TypeOK
  <2> QED
    BY <1>2, <2>2, <2>3, <2>4 DEF UnlinkChild
<1>3. CASE UnlinkParent
  <2>0. op.pc = "parent" /\ op.kind = "unlink" /\ op.ino \in Ino
    BY <1>3 DEF UnlinkParent, At, Types, OpOK
  <2>1. /\ op' \in OpType /\ op'.pc = "drop" /\ op'.kind = op.kind /\ op'.dir = op.dir
        /\ op'.name = op.name /\ op'.ino = op.ino /\ op'.blk = op.blk
        /\ op'.todo = op.todo
    BY <1>3, GotoTypes DEF UnlinkParent, Points
  <2>2. OpOK'
    BY <2>0, <2>1 DEF OpOK, Types, Adding, DirKinds
  <2>3. inode' \in [Ino -> InodeType]
    <3>1. ASSUME NEW i \in Ino PROVE [inode[i] EXCEPT !.nlink = OneLess(@)] \in InodeType
      BY <1>0 DEF InodeType, OneLess
    <3> QED
      BY <1>0, <1>3, <3>1 DEF UnlinkParent
  <2> QED
    BY <1>3, <2>2, <2>3 DEF UnlinkParent, Types, TypeOK, InodeType
<1>4. CASE UnlinkDrop
  <2>0. op.pc = "drop" /\ op.kind = "unlink" /\ op.ino \in Ino /\ op.copy \in InodeType
    BY <1>0, <1>4 DEF UnlinkDrop, At, Types, OpOK, OpType
  <2>1. CASE /\ op' = [op EXCEPT !.todo = Blocks(op.copy), !.pc = "free",
                                 !.copy.blk = NoBlocks]
             /\ UNCHANGED inode
    <3>1. Blocks(op.copy) \subseteq Block /\ Blocks(op.copy) \subseteq Nat
      BY <2>0, BlocksIn, ConstantTypes
    <3>2. [op.copy EXCEPT !.blk = NoBlocks] \in InodeType
      BY <2>0, ConstantTypes DEF InodeType
    <3>3. /\ op' \in OpType /\ op'.pc = "free" /\ op'.kind = op.kind /\ op'.ino = op.ino
          /\ op'.name = op.name /\ op'.todo = Blocks(op.copy)
      BY <1>0, <2>1, <3>1, <3>2 DEF OpType, Points
    <3>4. OpOK'
      BY <2>0, <3>1, <3>3 DEF Types, OpOK, Adding, DirKinds
    <3> QED
      BY <1>4, <2>1, <3>4 DEF UnlinkDrop, Types, TypeOK
  <2>2. CASE inode' = [inode EXCEPT ![op.ino] = op.copy] /\ Goto("sync")
    <3>1. /\ op' \in OpType /\ op'.pc = "sync" /\ op'.kind = op.kind /\ op'.dir = op.dir
          /\ op'.name = op.name /\ op'.ino = op.ino /\ op'.blk = op.blk
          /\ op'.todo = op.todo
      BY <2>2, GotoTypes DEF Points
    <3>2. OpOK'
      BY <2>0, <3>1 DEF OpOK, Types, Adding, DirKinds
    <3>3. inode' \in [Ino -> InodeType]
      BY <1>0, <2>0, <2>2
    <3> QED
      BY <1>4, <3>2, <3>3 DEF UnlinkDrop, Types, TypeOK, InodeType
  <2> QED
    BY <1>4, <2>1, <2>2 DEF UnlinkDrop
<1>5. CASE Truncate
  <2>0. op.pc = "begin" /\ op.kind = "trunc" /\ op.ino \in Ino
    BY <1>5 DEF Truncate, At, Types, OpOK
  <2>1. CASE Done
    BY <1>5, <2>1, DoneTypes DEF Truncate, Types, TypeOK
  <2>2. CASE op' = [op EXCEPT !.todo = Blocks(inode[op.ino]), !.pc = "free",
                              !.copy = [inode[op.ino] EXCEPT !.blk = NoBlocks]]
    <3>1. inode[op.ino] \in InodeType
      BY <1>0, <2>0
    <3>2. Blocks(inode[op.ino]) \subseteq Block /\ Blocks(inode[op.ino]) \subseteq Nat
      BY <3>1, BlocksIn, ConstantTypes
    <3>3. [inode[op.ino] EXCEPT !.blk = NoBlocks] \in InodeType
      BY <3>1, ConstantTypes DEF InodeType
    <3>4. /\ op' \in OpType /\ op'.pc = "free" /\ op'.kind = op.kind /\ op'.ino = op.ino
          /\ op'.name = op.name /\ op'.todo = Blocks(inode[op.ino])
      BY <1>0, <2>2, <3>2, <3>3 DEF OpType, Points
    <3>5. OpOK'
      BY <2>0, <3>2, <3>4 DEF Types, OpOK, Adding, DirKinds
    <3> QED
      BY <1>5, <3>5 DEF Truncate, Types, TypeOK
  <2> QED
    BY <1>5, <2>1, <2>2 DEF Truncate
<1>6. CASE FreeBlocks
  <2>0. op.pc = "free" /\ op.ino \in Ino
    BY <1>6 DEF FreeBlocks, Types, OpOK
  <2>1. PICK b \in Lowest(op.todo) : FreeBlock(b) /\ op' = [op EXCEPT !.todo = @ \ {b}]
    BY <1>6 DEF FreeBlocks
  <2>2. /\ op' \in OpType /\ op'.pc = op.pc /\ op'.kind = op.kind /\ op'.ino = op.ino
        /\ op'.name = op.name /\ op'.todo = op.todo \ {b}
    BY <1>0, <2>1 DEF OpType
  <2>3. OpOK'
    BY <2>0, <2>2 DEF Types, OpOK, Adding, DirKinds
  <2> QED
    BY <1>6, <2>1, <2>3 DEF FreeBlocks, FreeBlock, Types, TypeOK
<1>7. CASE Freed
  <2>0. /\ op.pc = "free" /\ op.ino \in Ino /\ op.copy \in InodeType
        /\ op.kind \in {"unlink", "trunc"}
    BY <1>0, <1>7 DEF Freed, Types, OpOK, OpType
  <2>1. PICK point \in {"sync", "unuse"} : /\ Goto(point)
                                           /\ point = "unuse" => op.kind # "trunc"
    BY <1>7 DEF Freed
  <2>2. /\ op' \in OpType /\ op'.pc = point /\ op'.kind = op.kind /\ op'.dir = op.dir
        /\ op'.name = op.name /\ op'.ino = op.ino /\ op'.blk = op.blk
        /\ op'.todo = op.todo
    BY <2>1, GotoTypes DEF Points
  <2>3. OpOK'
    BY <2>0, <2>1, <2>2 DEF OpOK, Types, Adding, DirKinds
  <2>4. inode' \in [Ino -> InodeType]
    BY <1>0, <1>7, <2>0 DEF Freed
  <2> QED
    BY <1>7, <2>3, <2>4 DEF Freed, Types, TypeOK, InodeType
<1>8. CASE UnlinkUnuse
  <2>0. op.pc = "unuse" /\ op.kind = "unlink" /\ op.ino \in Ino
    BY <1>8 DEF UnlinkUnuse, At, Types, OpOK
  <2>1. /\ op' \in OpType /\ op'.pc = "sync" /\ op'.kind = op.kind /\ op'.dir = op.dir
        /\ op'.name = op.name /\ op'.ino = op.ino /\ op'.blk = op.blk
        /\ op'.todo = op.todo
    BY <1>8, GotoTypes DEF UnlinkUnuse, Points
  <2>2. OpOK'
    BY <2>0, <2>1 DEF OpOK, Types, Adding, DirKinds
  <2> QED
    BY <1>8, <2>2 DEF UnlinkUnuse, FreeInode, Types, TypeOK
<1> QED
  BY <1>1, <1>2, <1>3, <1>4, <1>5, <1>6, <1>7, <1>8 DEF FreeStep

LEMMA WriteStepTypes ==
    ASSUME Types, WriteStep, UNCHANGED open
    PROVE  Types'
<1> USE DEF disk
<1>0. inode \in [Ino -> InodeType] /\ op \in OpType
  BY DEF Types, TypeOK, InodeType, OpOK
<1>1. CASE WriteBlock
  <2>0. op.pc = "next" /\ op.kind = "write" /\ op.ino \in Ino /\ sb' = sb
    BY <1>1 DEF WriteBlock, At, Types, OpOK
  <2>1. PICK l \in Lowest(op.todo) :
          \/ /\ op.copy.blk[l] # NoBlk
             /\ op' = [op EXCEPT !.blk = op.copy.blk[l], !.pc = "data"]
             /\ UNCHANGED <<disk, free>>
          \/ AllocBlock("data")
          \/ Done /\ UNCHANGED <<disk, free>>
    BY <1>1 DEF WriteBlock
  <2>2. CASE /\ op.copy.blk[l] # NoBlk
             /\ op' = [op EXCEPT !.blk = op.copy.blk[l], !.pc = "data"]
             /\ UNCHANGED <<disk, free>>
    <3>1. l \in Logical
      BY <2>0 DEF Types, OpOK, Lowest
    <3>2. op.copy.blk[l] \in Block
      BY <1>0, <2>2, <3>1 DEF OpType, InodeType
    <3>3. /\ op' \in OpType /\ op'.pc = "data" /\ op'.kind = op.kind /\ op'.ino = op.ino
          /\ op'.name = op.name /\ op'.todo = op.todo /\ op'.blk \in Block
      BY <1>0, <2>2, <3>2 DEF OpType, Points
    <3>4. OpOK'
      BY <2>0, <3>3 DEF Types, OpOK, Adding, DirKinds
    <3> QED
      BY <2>0, <2>2, <3>4 DEF Types, TypeOK
  <2>3. CASE AllocBlock("data")
    <3>1. OpOK' /\ bbit' \subseteq Block /\ free' \in [inodes : Int, blocks : Int]
      BY <2>0, <2>3, AllocBlockTypes
    <3> QED
      BY <2>0, <2>3, <3>1 DEF Types, TypeOK, AllocBlock
  <2>4. CASE Done /\ UNCHANGED <<disk, free>>
    BY <2>0, <2>4, DoneTypes DEF Types, TypeOK
  <2> QED
    BY <2>1, <2>2, <2>3, <2>4
<1>2. CASE WriteData
  <2>0. /\ op.pc = "data" /\ op.kind = "write" /\ op.ino \in Ino /\ op.blk \in Block
        /\ op.todo \subseteq Logical /\ op.copy \in InodeType
    BY <1>0, <1>2 DEF WriteData, At, Types, OpOK, OpType
  <2>1. PICK l \in Lowest(op.todo) :
          op' = [op EXCEPT !.copy.blk[l] = op.blk, !.todo = @ \ {l}, !.pc = "next"]
    BY <1>2 DEF WriteData
  <2>2. [op.copy EXCEPT !.blk[l] = op.blk] \in InodeType
    BY <2>0 DEF InodeType
  <2>3. /\ op' \in OpType /\ op'.pc = "next" /\ op'.kind = op.kind /\ op'.ino = op.ino
        /\ op'.name = op.name /\ op'.todo = op.todo \ {l}
    BY <1>0, <2>1, <2>2 DEF OpType, Points
  <2>4. OpOK'
    BY <2>0, <2>3 DEF Types, OpOK, Adding, DirKinds
  <2> QED
    BY <1>2, <2>4 DEF WriteData, Types, TypeOK
<1>3. CASE WriteEnd
  <2>0. op.pc = "next" /\ op.kind = "write" /\ op.ino \in Ino /\ op.copy \in InodeType
    BY <1>0, <1>3 DEF WriteEnd, At, Types, OpOK, OpType
  <2>1. /\ op' \in OpType /\ op'.pc = "sync" /\ op'.kind = op.kind /\ op'.dir = op.dir
        /\ op'.name = op.name /\ op'.ino = op.ino /\ op'.blk = op.blk
        /\ op'.todo = op.todo
    BY <1>3, GotoTypes DEF WriteEnd, Points
  <2>2. OpOK'
    BY <2>0, <2>1 DEF OpOK, Types, Adding, DirKinds
  <2>3. inode' \in [Ino -> InodeType]
    BY <1>0, <1>3, <2>0 DEF WriteEnd
  <2> QED
    BY <1>3, <2>2, <2>3 DEF WriteEnd, Types, TypeOK, InodeType
<1> QED
  BY <1>1, <1>2, <1>3 DEF WriteStep

LEMMA BeginTypes ==
    ASSUME Types, NEW kind \in Kinds \ {"none", "readd"}, NEW v \in open, NEW fields \in OpType,
           Begin(kind, v, fields),
           kind \in {"link", "trunc", "write"} => fields.ino \in Ino,
           kind \in DirKinds => fields.name \in Name,
           kind = "write" => fields.todo \subseteq Logical, fields.blk = NoBlk
    PROVE  Types'
<1>1. op' = [fields EXCEPT !.kind = kind, !.pc = "begin"] /\ UNCHANGED <<disk, sb, free, open>>
  BY DEF Begin
<1>2. /\ op' \in OpType /\ op'.pc = "begin" /\ op'.kind = kind /\ op'.ino = fields.ino
      /\ op'.name = fields.name /\ op'.todo = fields.todo /\ op'.blk = fields.blk
  BY ZenonT(40), <1>1 DEF OpType, Points
<1>3. OpOK'
  BY <1>2 DEF OpOK, Adding, DirKinds
<1> QED
  BY <1>1, <1>3 DEF Types, TypeOK, disk

LEMMA CallTypes ==
    ASSUME Types, Call
    PROVE  Types'
<1>0. ASSUME NEW v \in open PROVE v.ino \in Ino
  BY DEF Types, TypeOK
<1>1. ASSUME NEW d \in open, NEW n \in Name, NEW kind \in {"create", "mkdir", "unlink"},
             Begin(kind, d, [Idle EXCEPT !.dir = d.ino, !.name = n])
      PROVE  Types'
  <2>1. [Idle EXCEPT !.dir = d.ino, !.name = n] \in OpType
        /\ [Idle EXCEPT !.dir = d.ino, !.name = n].name = n
        /\ [Idle EXCEPT !.dir = d.ino, !.name = n].blk = NoBlk
    BY <1>0, IdleTypes DEF OpType
  <2> QED
    BY <1>1, <2>1, BeginTypes DEF Kinds, DirKinds
<1>2. ASSUME NEW d \in open, NEW n \in Name, NEW t \in open,
             Begin("link", d, [Idle EXCEPT !.dir = d.ino, !.name = n, !.ino = t.ino])
      PROVE  Types'
  <2> DEFINE f == [Idle EXCEPT !.dir = d.ino, !.name = n, !.ino = t.ino]
  <2>1. f \in OpType /\ f.name = n /\ f.ino \in Ino /\ f.blk = NoBlk
    BY <1>0, IdleTypes DEF OpType
  <2> QED
    BY <1>2, <2>1, BeginTypes DEF Kinds, DirKinds
<1>3. ASSUME NEW v \in open, Begin("trunc", v, [Idle EXCEPT !.ino = v.ino]) PROVE Types'
  <2>1. [Idle EXCEPT !.ino = v.ino] \in OpType /\ [Idle EXCEPT !.ino = v.ino].ino \in Ino
        /\ [Idle EXCEPT !.ino = v.ino].blk = NoBlk
    BY <1>0, IdleTypes DEF OpType
  <2> QED
    BY <1>3, <2>1, BeginTypes DEF Kinds, DirKinds
<1>4. ASSUME NEW v \in open, NEW l \in Logical, NEW m \in Logical,
             Begin("write", v, [Idle EXCEPT !.ino = v.ino, !.todo = {l, m}])
      PROVE  Types'
  <2> DEFINE f == [Idle EXCEPT !.ino = v.ino, !.todo = {l, m}]
  <2>1. f \in OpType /\ f.ino \in Ino /\ f.todo = {l, m} /\ f.blk = NoBlk
    BY <1>0, IdleTypes, ConstantTypes DEF OpType
  <2> QED
    BY <1>4, <2>1, BeginTypes DEF Kinds, DirKinds
<1> QED
  BY <1>1, <1>2, <1>3, <1>4 DEF Call

LEMMA OtherTypes ==
    ASSUME Types, \/ Sync /\ UNCHANGED open
                  \/ CreateVnode
                  \/ (LinkProbe \/ LinkBump \/ WriteBegin) /\ UNCHANGED open
                  \/ Lookup \/ LookupStale \/ Release \/ PowerCut
    PROVE  Types'
<1> USE DEF disk
<1>0. inode \in [Ino -> InodeType] /\ op \in OpType
  BY DEF Types, TypeOK, InodeType, OpOK
<1>1. CASE Sync /\ UNCHANGED open
  BY <1>1, DoneTypes DEF Sync, Types, TypeOK
<1>2. CASE CreateVnode
  <2>0. op.pc = "vnode" /\ op.kind = "create" /\ op.ino \in Ino
        /\ UNCHANGED <<disk, sb, free>>
    BY <1>2 DEF CreateVnode, At, Types, OpOK
  <2>1. CASE Done /\ UNCHANGED open
    BY <2>0, <2>1, DoneTypes DEF Types, TypeOK
  <2>2. CASE open' = open \cup {[ino |-> op.ino, type |-> "FILE"]} /\ Goto("sync")
    <3>1. /\ op' \in OpType /\ op'.pc = "sync" /\ op'.kind = op.kind /\ op'.dir = op.dir
          /\ op'.name = op.name /\ op'.ino = op.ino /\ op'.blk = op.blk
          /\ op'.todo = op.todo
      BY <2>2, GotoTypes DEF Points
    <3>2. OpOK'
      BY <2>0, <3>1 DEF OpOK, Types, Adding, DirKinds
    <3> QED
      BY <2>0, <2>2, <3>2 DEF Types, TypeOK
  <2> QED
    BY <1>2, <2>1, <2>2 DEF CreateVnode
<1>3. CASE LinkProbe /\ UNCHANGED open
  <2>0. op.pc = "begin" /\ op.kind = "link" /\ UNCHANGED <<disk, sb, free, open>>
    BY <1>3 DEF LinkProbe, At
  <2>1. CASE Done
    BY <2>0, <2>1, DoneTypes DEF Types, TypeOK
  <2>2. CASE Goto("add")
    <3>1. /\ op' \in OpType /\ op'.pc = "add" /\ op'.kind = op.kind /\ op'.dir = op.dir
          /\ op'.name = op.name /\ op'.ino = op.ino /\ op'.blk = op.blk
          /\ op'.todo = op.todo
      BY <2>2, GotoTypes DEF Points
    <3>2. OpOK'
      BY <2>0, <3>1 DEF OpOK, Types, Adding, DirKinds
    <3> QED
      BY <2>0, <3>2 DEF Types, TypeOK
  <2> QED
    BY <1>3, <2>1, <2>2 DEF LinkProbe
<1>4. CASE LinkBump /\ UNCHANGED open
  <2>0. op.pc = "bump" /\ op.kind = "link" /\ UNCHANGED <<ibit, bbit, content, sb, free, open>>
    BY <1>4 DEF LinkBump, At
  <2>1. CASE Done /\ UNCHANGED inode
    BY <2>0, <2>1, DoneTypes DEF Types, TypeOK
  <2>2. CASE inode' = [inode EXCEPT ![op.ino].nlink = @ + 1] /\ Goto("sync")
    <3>1. /\ op' \in OpType /\ op'.pc = "sync" /\ op'.kind = op.kind /\ op'.dir = op.dir
          /\ op'.name = op.name /\ op'.ino = op.ino /\ op'.blk = op.blk
          /\ op'.todo = op.todo
      BY <2>2, GotoTypes DEF Points
    <3>2. OpOK'
      BY <2>0, <3>1 DEF OpOK, Types, Adding, DirKinds
    <3>3. ASSUME NEW i \in Ino PROVE [inode[i] EXCEPT !.nlink = @ + 1] \in InodeType
      BY <1>0 DEF InodeType
    <3>4. inode' \in [Ino -> InodeType]
      BY <1>0, <2>2, <3>3
    <3> QED
      BY <2>0, <3>2, <3>4 DEF Types, TypeOK, InodeType
  <2> QED
    BY <1>4, <2>1, <2>2 DEF LinkBump
<1>5. CASE WriteBegin /\ UNCHANGED open
  <2>0. op.pc = "begin" /\ op.kind = "write" /\ op.ino \in Ino
        /\ UNCHANGED <<disk, sb, free, open>>
    BY <1>5 DEF WriteBegin, At, Types, OpOK
  <2>1. CASE Done
    BY <2>0, <2>1, DoneTypes DEF Types, TypeOK
  <2>2. CASE op' = [op EXCEPT !.copy = inode[op.ino], !.pc = "next"]
    <3>1. inode[op.ino] \in InodeType
      BY <1>0, <2>0
    <3>2. /\ op' \in OpType /\ op'.pc = "next" /\ op'.kind = op.kind
          /\ op'.name = op.name /\ op'.ino = op.ino /\ op'.todo = op.todo
      BY <1>0, <2>2, <3>1 DEF OpType, Points
    <3>3. OpOK'
      BY <2>0, <3>2 DEF OpOK, Types, Adding, DirKinds
    <3> QED
      BY <2>0, <3>3 DEF Types, TypeOK
  <2> QED
    BY <1>5, <2>1, <2>2 DEF WriteBegin
<1>6. CASE Lookup
  <2>0. UNCHANGED <<disk, sb, free, op>>
    BY <1>6 DEF Lookup
  <2>1. PICK d \in open, n \in Name :
          \E e \in Named(d.ino, n) :
             open' = open \cup {[ino |-> e.ino, type |-> inode[e.ino].type]}
    BY <1>6 DEF Lookup
  <2>2. PICK e \in Entries(d.ino) : 
          open' = open \cup {[ino |-> e.ino, type |-> inode[e.ino].type]}
    BY <2>1 DEF Named
  <2>3. d.ino \in Ino
    BY DEF Types, TypeOK
  <2>4. PICK b \in Blocks(inode[d.ino]) : e \in content[b]
    BY DEF Entries
  <2>5. b \in Block
    BY <2>3, InodesOf DEF Types
  <2>6. e.ino \in Ino
    BY <2>4, <2>5 DEF Types, TypeOK
  <2>7. inode[e.ino].type \in {"FILE", "DIR"}
    BY <1>0, <2>6 DEF InodeType
  <2>8. open' \subseteq [ino : Ino, type : {"FILE", "DIR"}]
    BY <2>2, <2>6, <2>7 DEF Types, TypeOK
  <2> QED
    BY <2>0, <2>8 DEF Types, TypeOK, OpOK
<1>7. CASE Release
  BY <1>7 DEF Release, Types, TypeOK, OpOK
<1>9. CASE LookupStale
  <2>1. PICK i \in Ino : open' = open \cup {[ino |-> i, type |-> inode[i].type]}
    BY <1>9 DEF LookupStale
  <2>2. inode[i].type \in {"FILE", "DIR"}
    BY <1>0, <2>1 DEF InodeType
  <2>3. open' \subseteq [ino : Ino, type : {"FILE", "DIR"}]
    BY <2>1, <2>2 DEF Types, TypeOK
  <2> QED
    BY <1>9, <2>3 DEF LookupStale, Types, TypeOK, OpOK
<1>8. CASE PowerCut
  <2>1. OpOK'
    BY <1>8, DoneTypes DEF PowerCut, Done
  <2>2. open' \subseteq [ino : Ino, type : {"FILE", "DIR"}]
    BY <1>8, ConstantTypes DEF PowerCut, RootVnode
  <2> QED
    BY <1>8, <2>1, <2>2 DEF PowerCut, Types, TypeOK
<1> QED
  BY <1>1, <1>2, <1>3, <1>4, <1>5, <1>6, <1>7, <1>8, <1>9

LEMMA TypeStep ==
    ASSUME Types, [Next]_vars
    PROVE  Types'
<1>1. CASE (AddStep \/ MakeStep \/ FreeStep \/ WriteStep \/ Sync) /\ UNCHANGED open
  BY <1>1, AddStepTypes, MakeStepTypes, FreeStepTypes, WriteStepTypes, OtherTypes
<1>2. CASE CreateVnode \/ ((LinkProbe \/ LinkBump \/ WriteBegin) /\ UNCHANGED open)
  BY <1>2, OtherTypes
<1>3. CASE Call
  BY <1>3, CallTypes
<1>4. CASE Lookup \/ LookupStale \/ Release \/ PowerCut
  BY <1>4, OtherTypes
<1>5. CASE UNCHANGED vars
  BY <1>5 DEF vars, disk, Types, TypeOK, OpOK
<1> QED
  BY <1>1, <1>2, <1>3, <1>4, <1>5 DEF Next

-----------------------------------------------------------------------------
(* Steps that leave the tree of files as it is *)

LEMMA RefsKept ==
    ASSUME Listing' = Listing
    PROVE  \A x : Refs(x)' = Refs(x)
BY DEF Refs

\* At most link counts change.
SameTree == /\ ibit' = ibit /\ content' = content
            /\ \A i \in Ino : /\ inode'[i].type = inode[i].type
                              /\ inode'[i].blk = inode[i].blk

LEMMA TreeKept ==
    ASSUME TypeOK, SameTree
    PROVE  /\ \A i \in Ino : Blocks(inode[i])' = Blocks(inode[i])
           /\ Dirs' = Dirs /\ Listing' = Listing
<1>1. ASSUME NEW i \in Ino PROVE Blocks(inode[i])' = Blocks(inode[i])
  BY DEF SameTree, Blocks
<1>2. Dirs' = Dirs /\ Dirs \subseteq Ino
  BY DEF Dirs, SameTree, TypeOK
<1>3. DirBlocks' = DirBlocks
  BY <1>1, <1>2 DEF DirBlocks
<1>4. Listing' = Listing
  BY <1>3 DEF Listing, SameTree
<1> QED
  BY <1>1, <1>2, <1>4

\* The parts of the invariant that speak of the tree alone.
LEMMA TreeSound ==
    ASSUME Types, NEW S, Sound(S), SameTree, bbit' = bbit, op.pc # "free",
           \A x \in Ino : inode[x].type = "FILE" =>
                            Cardinality(Refs(x)) <= inode'[x].nlink + Uncounted(x)'
    PROVE  Tree(S)'
<1>1. /\ \A i \in Ino : Blocks(inode[i])' = Blocks(inode[i])
      /\ Dirs' = Dirs /\ Listing' = Listing /\ S \subseteq Ino
  BY TreeKept DEF Types, Sound, Reached
<1>2. \A x : Refs(x)' = Refs(x)
  BY <1>1, RefsKept
<1>3. Marked(S)'
  BY <1>1 DEF Sound, Tree, Marked
<1>4. Apart(S)'
  BY <1>1 DEF Sound, Tree, Apart, SameTree
<1>5. LinkCounts'
  BY <1>2 DEF Sound, Tree, LinkCounts, SameTree
<1>6. Removed'
  BY <1>1 DEF Sound, Tree, Removed, SameTree
<1>7. Plain(S)'
  BY <1>1 DEF Sound, Tree, Plain, SameTree
<1> QED
  BY <1>3, <1>4, <1>5, <1>6, <1>7 DEF Tree

\* The points at which a call knows nothing but, maybe, its directory.
Resting == {"idle", "begin", "vnode", "nlink", "sync"}

LEMMA Rest ==
    ASSUME NEW S, op'.pc \in Resting, Reached(S)', Tree(S)', InDir'
    PROVE  Sound(S)'
<1>1. Fresh' /\ NewBlock(S)' /\ Linking' /\ Readding'
  BY DEF Resting, Fresh, NewBlock, Linking, Readding, Adding
<1>2. Dropping' /\ Extending(S)'
  BY DEF Resting, Dropping, Extending
<1> QED
  BY <1>1, <1>2 DEF Sound

LEMMA FilesCounted ==
    ASSUME Types, NEW S, Sound(S), op.pc # "bump", UNCHANGED inode
    PROVE  \A x \in Ino : inode[x].type = "FILE" =>
             Cardinality(Refs(x)) <= inode'[x].nlink + Uncounted(x)'
<1> SUFFICES ASSUME NEW x \in Ino, inode[x].type = "FILE"
             PROVE  Cardinality(Refs(x)) <= inode[x].nlink + Uncounted(x)'
  OBVIOUS
<1>1. Cardinality(Refs(x)) <= inode[x].nlink + 0
  BY DEF Sound, Tree, LinkCounts, Uncounted
<1>2. inode[x].nlink \in Nat /\ Cardinality(Refs(x)) \in Nat
  BY InodesOf, RefsFinite DEF Types, InodeType
<1>3. Uncounted(x)' \in {0, 1}
  BY DEF Uncounted
<1> QED
  BY <1>1, <1>2, <1>3

\* A call ends, and the disk stays as it is.
LEMMA DoneStep ==
    ASSUME Types, NEW S, Sound(S), op.pc \notin {"free", "bump"}, UNCHANGED disk, Done,
           \A v \in open' : v.ino \in S
    PROVE  Sound(S)'
<1>1. SameTree /\ bbit' = bbit /\ inode' = inode
  BY DEF SameTree, disk
<1>2. Tree(S)'
  BY <1>1, FilesCounted, TreeSound
<1>3. Dirs' = Dirs /\ Listing' = Listing
  BY <1>1, TreeKept DEF Types
<1>4. Reached(S)'
  BY <1>1, <1>3, IdleTypes DEF Sound, Reached, Done, SameTree
<1> QED
  BY <1>2, <1>4, Rest, IdleTypes DEF Done, Resting, InDir, DirKinds

LEMMA ReachedKept ==
    ASSUME Types, NEW S, Sound(S), SameTree, \A v \in open' : v.ino \in S,
           op'.ino \in S \cup {0}, op'.dir \in S
    PROVE  Reached(S)'
<1>1. Dirs' = Dirs /\ Listing' = Listing
  BY TreeKept DEF Types
<1>2. RootIno \in Ino
  BY SMTT(30), ConstantTypes
<1> QED
  BY <1>1, <1>2 DEF Sound, Reached, SameTree

\* Calls begin; vnodes come and go.
LEMMA CallSound ==
    ASSUME Types, NEW S, Sound(S), Call, hurt' = {}
    PROVE  Sound(S)'
<1>0. ASSUME NEW kind, NEW v \in open, NEW fields \in OpType, Begin(kind, v, fields),
             fields.ino \in S \cup {0}, fields.dir \in S,
             kind \in DirKinds => v.type = "DIR" /\ fields.dir = v.ino
      PROVE  Sound(S)'
  <2>1. /\ op.pc = "idle" /\ UNCHANGED disk /\ open' = open
        /\ op' = [fields EXCEPT !.kind = kind, !.pc = "begin"]
        /\ v.type = "DIR" => v.ino \in Dirs
    BY <1>0 DEF Begin
  <2>2. SameTree /\ bbit' = bbit /\ inode' = inode
    BY <2>1 DEF SameTree, disk
  <2>3. Tree(S)'
    BY <2>1, <2>2, FilesCounted, TreeSound
  <2>4. /\ op'.pc = "begin" /\ op'.kind = kind /\ op'.ino = fields.ino
        /\ op'.dir = fields.dir
    BY <2>1 DEF OpType
  <2>5. Reached(S)'
    BY <1>0, <2>1, <2>2, <2>4, ReachedKept DEF Sound, Reached
  <2>6. Dirs' = Dirs
    BY <2>2, TreeKept DEF Types
  <2>7. InDir'
    BY <1>0, <2>1, <2>4, <2>6 DEF InDir
  <2> QED
    BY <2>3, <2>4, <2>5, <2>7, Rest DEF Resting
<1>1. \A v \in open : v.ino \in S /\ v.ino \in Ino
  BY DEF Sound, Reached
<1>2. RootIno \in S
  BY DEF Sound, Reached
<1>3. ASSUME NEW d \in open, d.type = "DIR", NEW n \in Name,
             NEW kind \in {"create", "mkdir", "unlink"},
             Begin(kind, d, [Idle EXCEPT !.dir = d.ino, !.name = n])
      PROVE  Sound(S)'
  <2> DEFINE f == [Idle EXCEPT !.dir = d.ino, !.name = n]
  <2>1. f \in OpType /\ f.dir = d.ino /\ f.ino = 0
    BY <1>1, IdleTypes DEF OpType
  <2> HIDE DEF f
  <2>2. Begin(kind, d, f)
    BY <1>3 DEF f
  <2> QED
    BY <1>0, <1>1, <1>3, <2>1, <2>2
<1>4. ASSUME NEW d \in open, d.type = "DIR", NEW n \in Name, NEW t \in open,
             Begin("link", d, [Idle EXCEPT !.dir = d.ino, !.name = n, !.ino = t.ino])
      PROVE  Sound(S)'
  <2> DEFINE f == [Idle EXCEPT !.dir = d.ino, !.name = n, !.ino = t.ino]
  <2>1. f \in OpType /\ f.dir = d.ino /\ f.ino = t.ino
    BY <1>1, IdleTypes DEF OpType
  <2> HIDE DEF f
  <2>2. Begin("link", d, f)
    BY <1>4 DEF f
  <2> QED
    BY <1>0, <1>1, <1>4, <2>1, <2>2
<1>5. ASSUME NEW v \in open, Begin("trunc", v, [Idle EXCEPT !.ino = v.ino]) PROVE Sound(S)'
  <2> DEFINE f == [Idle EXCEPT !.ino = v.ino]
  <2>1. f \in OpType /\ f.dir = RootIno /\ f.ino = v.ino
    BY <1>1, IdleTypes DEF OpType
  <2> HIDE DEF f
  <2>2. Begin("trunc", v, f)
    BY <1>5 DEF f
  <2> QED
    BY <1>0, <1>1, <1>2, <2>1, <2>2 DEF DirKinds
<1>6. ASSUME NEW v \in open, NEW l \in Logical, NEW m \in Logical,
             Begin("write", v, [Idle EXCEPT !.ino = v.ino, !.todo = {l, m}])
      PROVE  Sound(S)'
  <2> DEFINE f == [Idle EXCEPT !.ino = v.ino, !.todo = {l, m}]
  <2>1. f \in OpType /\ f.dir = RootIno /\ f.ino = v.ino
    BY <1>1, IdleTypes, ConstantTypes DEF OpType
  <2> HIDE DEF f
  <2>2. Begin("write", v, f)
    BY <1>6 DEF f
  <2> QED
    BY <1>0, <1>1, <1>2, <2>1, <2>2 DEF DirKinds
<1> QED
  BY <1>3, <1>4, <1>5, <1>6 DEF Call

LEMMA VnodesSound ==
    ASSUME Types, NEW S, Sound(S), Lookup \/ Release
    PROVE  Sound(S)'
<1>1. op.pc = "idle" /\ op' = op /\ UNCHANGED disk
  BY DEF Lookup, Release
<1>2. SameTree /\ bbit' = bbit /\ inode' = inode
  BY <1>1 DEF SameTree, disk
<1>3. Tree(S)'
  BY <1>1, <1>2, FilesCounted, TreeSound
<1>4. \A v \in open' : v.ino \in S
  <2>0. \A v \in open : v.ino \in S /\ v.ino \in Ino
    BY DEF Sound, Reached
  <2>1. CASE Release
    BY <2>0, <2>1 DEF Release
  <2>2. CASE Lookup
    <3>1. PICK d \in open, n \in Name : \E e \in Named(d.ino, n) :
             open' = open \cup {[ino |-> e.ino, type |-> inode[e.ino].type]}
      BY <2>2 DEF Lookup
    <3>2. PICK e \in Entries(d.ino) :
             open' = open \cup {[ino |-> e.ino, type |-> inode[e.ino].type]}
      BY <3>1 DEF Named
    <3>3. e.ino \in S
      <4>1. PICK b \in Blocks(inode[d.ino]) : e \in content[b]
        BY DEF Entries
      <4>2. CASE d.ino \in Dirs
        <5>1. b \in Block /\ e \in Listing[b]
          BY <4>1, <4>2, EntriesListed DEF Types
        <5> QED
          BY <5>1 DEF Sound, Reached
      <4>3. CASE d.ino \notin Dirs
        <5>1. d.ino \in S
          BY <2>0
        <5>2. content[b] = {}
          BY <4>3, <5>1 DEF Sound, Tree, Plain
        <5> QED
          BY <4>1, <5>2
      <4> QED
        BY <4>2, <4>3
    <3> QED
      BY <2>0, <3>2, <3>3
  <2> QED
    BY <2>1, <2>2
<1>5. op'.ino \in S \cup {0} /\ op'.dir \in S
  BY <1>1 DEF Sound, Reached
<1>6. Reached(S)'
  BY <1>2, <1>4, <1>5, ReachedKept
<1>7. InDir'
  BY <1>1 DEF InDir
<1> QED
  BY <1>1, <1>3, <1>6, <1>7, Rest DEF Resting

\* What is left to show, by the point a call has reached.
LEMMA AtMaking ==
    ASSUME NEW S, op'.pc \in {"block", "fill", "inode", "undo"}, Reached(S)', Tree(S)', InDir',
           Fresh', NewBlock(S)'
    PROVE  Sound(S)'
BY DEF Sound, Linking, Readding, Dropping, Extending, Adding

LEMMA AtAdding ==
    ASSUME NEW S, op'.pc \in Adding, Reached(S)', Tree(S)', InDir', Fresh', NewBlock(S)',
           Linking', Readding'
    PROVE  Sound(S)'
BY DEF Sound, Dropping, Extending, Adding

LEMMA AtDropping ==
    ASSUME NEW S, op'.pc \in {"child", "parent", "drop", "free", "unuse"}, Reached(S)', Tree(S)',
           InDir', Dropping'
    PROVE  Sound(S)'
BY DEF Sound, Fresh, NewBlock, Linking, Readding, Extending, Adding

LEMMA AtWriting ==
    ASSUME NEW S, op'.pc \in {"next", "data"}, op'.kind = "write", Reached(S)', Tree(S)',
           Extending(S)'
    PROVE  Sound(S)'
BY DEF Sound, InDir, Fresh, NewBlock, Linking, Readding, Dropping, Adding, DirKinds

LEMMA AtBump ==
    ASSUME NEW S, op'.pc = "bump", Reached(S)', Tree(S)', InDir', Linking'
    PROVE  Sound(S)'
BY DEF Sound, Fresh, NewBlock, Readding, Dropping, Extending, Adding

\* A step that only moves the call on.
LEMMA GoOn ==
    ASSUME Types, NEW S, Sound(S), UNCHANGED <<disk, open>>, op.pc \notin {"free", "bump"},
           op'.ino = op.ino, op'.dir = op.dir
    PROVE  /\ Reached(S)' /\ Tree(S)' /\ Dirs' = Dirs
           /\ \A x : Refs(x)' = Refs(x)
<1>1. SameTree /\ bbit' = bbit /\ inode' = inode
  BY DEF SameTree, disk
<1>2. Tree(S)'
  BY <1>1, FilesCounted, TreeSound
<1>3. Dirs' = Dirs /\ Listing' = Listing
  BY <1>1, TreeKept DEF Types
<1>4. \A v \in open' : v.ino \in S
  BY DEF Sound, Reached
<1>5. op'.ino \in S \cup {0} /\ op'.dir \in S
  BY DEF Sound, Reached
<1> QED
  BY <1>1, <1>2, <1>3, <1>4, <1>5, ReachedKept, RefsKept

LEMMA CreateVnodeSound ==
    ASSUME Types, NEW S, Sound(S), CreateVnode
    PROVE  Sound(S)'
<1>0. op.pc = "vnode" /\ op.ino \in Ino /\ UNCHANGED disk
  BY DEF CreateVnode, At, Types, OpOK
<1>1. CASE Done /\ UNCHANGED open
  BY <1>0, <1>1, DoneStep DEF Sound, Reached
<1>2. CASE open' = open \cup {[ino |-> op.ino, type |-> "FILE"]} /\ Goto("sync")
  <2>1. op'.pc = "sync" /\ op'.kind = op.kind /\ op'.ino = op.ino /\ op'.dir = op.dir
    BY <1>2, GotoTypes DEF Points
  <2>2. SameTree /\ bbit' = bbit /\ inode' = inode
    BY <1>0 DEF SameTree, disk
  <2>3. Tree(S)'
    BY <1>0, <2>2, FilesCounted, TreeSound
  <2>4. op.ino \in S /\ op.dir \in S /\ \A v \in open' : v.ino \in S
    BY <1>0, <1>2, ConstantTypes DEF Sound, Reached
  <2>5. Reached(S)'
    BY <2>1, <2>2, <2>4, ReachedKept
  <2> QED
    BY <2>1, <2>3, <2>5, Rest DEF Resting, InDir
<1> QED
  BY <1>1, <1>2 DEF CreateVnode

LEMMA LinkProbeSound ==
    ASSUME Types, NEW S, Sound(S), LinkProbe, UNCHANGED open, hurt' = {}
    PROVE  Sound(S)'
<1>0. op.pc = "begin" /\ op.kind = "link" /\ UNCHANGED disk
  BY DEF LinkProbe, At
<1>1. CASE Done
  BY <1>0, <1>1, DoneStep DEF Sound, Reached
<1>2. CASE Goto("add") /\ op.ino \in ibit /\ inode[op.ino].type = "FILE"
  <2>1. op'.pc = "add" /\ op'.kind = "link" /\ op'.ino = op.ino /\ op'.dir = op.dir
    BY <1>0, <1>2, GotoTypes DEF Points
  <2>2. Reached(S)' /\ Tree(S)' /\ Dirs' = Dirs
    BY <1>0, <2>1, GoOn
  <2>3. InDir'
    BY <1>0, <2>1, <2>2 DEF Sound, InDir, DirKinds
  <2>4. Linking'
    BY <1>0, <1>2, <2>1 DEF Linking, disk
  <2>5. Fresh' /\ NewBlock(S)' /\ Readding'
    BY <2>1 DEF Fresh, NewBlock, Readding, Adding
  <2> QED
    BY <2>1, <2>2, <2>3, <2>4, <2>5, AtAdding DEF Adding
<1> QED
  BY <1>1, <1>2 DEF LinkProbe

LEMMA WriteBeginSound ==
    ASSUME Types, NEW S, Sound(S), WriteBegin, UNCHANGED open, hurt' = {}
    PROVE  Sound(S)'
<1>0. op.pc = "begin" /\ op.kind = "write" /\ UNCHANGED disk /\ op.ino \in Ino
  BY DEF WriteBegin, At, Types, OpOK
<1>1. CASE Done
  BY <1>0, <1>1, DoneStep DEF Sound, Reached
<1>2. CASE op' = [op EXCEPT !.copy = inode[op.ino], !.pc = "next"]
           /\ inode[op.ino].type = "FILE"
  <2>1. /\ op'.pc = "next" /\ op'.kind = "write" /\ op'.ino = op.ino /\ op'.dir = op.dir
        /\ op'.copy = inode[op.ino]
    BY <1>0, <1>2 DEF Types, OpOK, OpType
  <2>2. Reached(S)' /\ Tree(S)'
    BY <1>0, <2>1, GoOn
  <2>3. op.ino \in S /\ op.ino \notin Dirs /\ S \subseteq Ino
    BY <1>0, <1>2, ConstantTypes DEF Sound, Reached, Dirs
  <2>4. /\ Blocks(inode[op.ino]) \subseteq bbit
        /\ \A b \in Blocks(inode[op.ino]) : content[b] = {}
        /\ \A i \in S \ {op.ino} : Blocks(inode[op.ino]) \cap Blocks(inode[i]) = {}
        /\ \A l, m \in Logical : l # m /\ inode[op.ino].blk[l] = inode[op.ino].blk[m]
                                   => inode[op.ino].blk[l] = NoBlk
    BY <1>0, <2>3 DEF Sound, Tree, Marked, Apart, Plain
  <2>5. inode' = inode /\ bbit' = bbit /\ content' = content
    BY <1>0 DEF disk
  <2>6. Extending(S)'
    BY <1>2, <2>1, <2>4, <2>5 DEF Extending
  <2> QED
    BY <2>1, <2>2, <2>6, AtWriting
<1> QED
  BY <1>1, <1>2 DEF WriteBegin

LEMMA TruncateSound ==
    ASSUME Types, NEW S, Sound(S), Truncate, UNCHANGED open
    PROVE  Sound(S)'
<1>0. op.pc = "begin" /\ op.kind = "trunc" /\ UNCHANGED disk /\ op.ino \in Ino
  BY DEF Truncate, At, Types, OpOK
<1>1. CASE Done
  BY <1>0, <1>1, DoneStep DEF Sound, Reached
<1>2. CASE op' = [op EXCEPT !.todo = Blocks(inode[op.ino]), !.pc = "free",
                            !.copy = [inode[op.ino] EXCEPT !.blk = NoBlocks]]
  <2>0. inode[op.ino] \in InodeType
    BY <1>0, InodesOf DEF Types
  <2>1. /\ op'.pc = "free" /\ op'.kind = "trunc" /\ op'.ino = op.ino /\ op'.dir = op.dir
        /\ op'.copy.type = inode[op.ino].type /\ op'.copy.nlink = inode[op.ino].nlink
        /\ op'.copy.blk = NoBlocks /\ op'.todo = Blocks(inode[op.ino])
    BY <1>0, <1>2, <2>0 DEF Types, OpOK, OpType, InodeType
  <2>2. Reached(S)' /\ Tree(S)'
    BY <1>0, <2>1, GoOn
  <2>3. op.ino \in S
    BY <1>0, ConstantTypes DEF Sound, Reached
  <2>4. Blocks(inode[op.ino]) \subseteq bbit
    BY <1>0, <2>3 DEF Sound, Tree, Marked
  <2>5. inode' = inode /\ bbit' = bbit
    BY <1>0 DEF disk
  <2>6. Dropping'
    BY <2>1, <2>4, <2>5 DEF Dropping
  <2>7. InDir'
    BY <2>1 DEF InDir, DirKinds
  <2> QED
    BY <2>1, <2>2, <2>6, <2>7, AtDropping
<1> QED
  BY <1>1, <1>2 DEF Truncate

LEMMA UnlinkChildSound ==
    ASSUME Types, NEW S, Sound(S), UnlinkChild, UNCHANGED open
    PROVE  Sound(S)'
<1>0. /\ op.pc = "child" /\ op.kind = "unlink" /\ UNCHANGED disk /\ op.ino \in Ino
      /\ inode' = inode /\ ibit' = ibit
  BY DEF UnlinkChild, At, Types, OpOK, disk
<1>1. /\ op.ino \in ibit
      /\ inode[op.ino].type = "DIR" => Refs(op.ino) = {}
      /\ inode[op.ino].type = "FILE" => Cardinality(Refs(op.ino)) + 1 <= inode[op.ino].nlink
  BY <1>0 DEF Sound, Dropping
<1>2. CASE Done
  BY <1>0, <1>2, DoneStep DEF Sound, Reached
<1>3. CASE inode[op.ino].type = "DIR" /\ op' = [op EXCEPT !.kind = "readd", !.pc = "add"]
  <2>1. op'.pc = "add" /\ op'.kind = "readd" /\ op'.ino = op.ino /\ op'.dir = op.dir
    BY <1>0, <1>3 DEF Types, OpOK, OpType
  <2>2. Reached(S)' /\ Tree(S)' /\ Dirs' = Dirs /\ \A x : Refs(x)' = Refs(x)
    BY <1>0, <2>1, GoOn
  <2>3. InDir'
    BY <1>0, <2>1, <2>2 DEF Sound, InDir, DirKinds
  <2>4. Refs(op.ino)' = {}
    BY <1>1, <1>3, <2>1, <2>2 DEF Refs
  <2>5. Readding'
    BY <1>0, <1>1, <1>3, <2>1, <2>4 DEF Readding
  <2>6. Fresh' /\ NewBlock(S)' /\ Linking'
    BY <2>1 DEF Fresh, NewBlock, Linking, Adding
  <2> QED
    BY <2>1, <2>2, <2>3, <2>5, <2>6, AtAdding DEF Adding
<1>4. ASSUME NEW point \in {"parent", "drop"},
             point = "parent" => inode[op.ino].type = "DIR",
             op' = [op EXCEPT !.copy = [inode[op.ino] EXCEPT !.nlink = OneLess(@)],
                              !.pc = point]
      PROVE  Sound(S)'
  <2>0. inode[op.ino] \in InodeType
    BY <1>0, InodesOf DEF Types
  <2>1. /\ op'.pc = point /\ op'.kind = "unlink" /\ op'.ino = op.ino /\ op'.dir = op.dir
        /\ op'.copy.type = inode[op.ino].type /\ op'.copy.blk = inode[op.ino].blk
        /\ op'.copy.nlink = OneLess(inode[op.ino].nlink)
    BY <1>0, <1>4, <2>0 DEF Types, OpOK, OpType, InodeType
  <2>2. Reached(S)' /\ Tree(S)' /\ Dirs' = Dirs /\ \A x : Refs(x)' = Refs(x)
    BY <1>0, <2>1, GoOn
  <2>3. InDir'
    BY <1>0, <1>4, <2>1, <2>2 DEF Sound, InDir, DirKinds
  <2>4. Refs(op.ino)' = Refs(op.ino)
    BY <2>1, <2>2 DEF Refs
  <2>5. inode[op.ino].type = "FILE" => Cardinality(Refs(op.ino)) <= op'.copy.nlink
    BY <1>1, <2>0, <2>1, RefsFinite DEF OneLess, InodeType
  <2>6. Dropping'
    BY <1>0, <1>1, <1>4, <2>1, <2>4, <2>5 DEF Dropping
  <2> QED
    BY <1>4, <2>1, <2>2, <2>3, <2>6, AtDropping
<1> QED
  BY <1>2, <1>3, <1>4 DEF UnlinkChild

LEMMA UnlinkParentSound ==
    ASSUME Types, NEW S, Sound(S), UnlinkParent, UNCHANGED open
    PROVE  Sound(S)'
<1>0. /\ op.pc = "parent" /\ op.kind = "unlink" /\ op.ino \in Ino /\ op.dir \in Dirs
      /\ op.dir \in Ino /\ UNCHANGED <<ibit, bbit, content>>
  BY DirBlocksIn DEF UnlinkParent, At, Types, OpOK, Sound, InDir, DirKinds
<1>1. /\ op'.pc = "drop" /\ op'.kind = op.kind /\ op'.ino = op.ino /\ op'.dir = op.dir
      /\ op'.copy = op.copy
  BY GotoTypes DEF UnlinkParent, Points
<1>2. inode \in [Ino -> InodeType]
  BY DEF Types, TypeOK, InodeType
<1>3. ASSUME NEW i \in Ino
      PROVE  /\ inode'[i].type = inode[i].type /\ inode'[i].blk = inode[i].blk
             /\ i # op.dir => inode'[i] = inode[i]
  BY <1>2 DEF UnlinkParent, InodeType
<1>4. SameTree /\ bbit' = bbit
  BY <1>0, <1>3 DEF SameTree
<1>5. inode[op.dir].type = "DIR"
  BY <1>0 DEF Dirs
<1>6. ASSUME NEW x \in Ino, inode[x].type = "FILE"
      PROVE  Cardinality(Refs(x)) <= inode'[x].nlink + Uncounted(x)'
  <2>1. inode'[x] = inode[x]
    BY <1>3, <1>5, <1>6
  <2>2. Cardinality(Refs(x)) <= inode[x].nlink + Uncounted(x)
    BY <1>6 DEF Sound, Tree, LinkCounts
  <2>3. Uncounted(x)' = Uncounted(x)
    BY <1>0, <1>1 DEF Uncounted
  <2> QED
    BY <2>1, <2>2, <2>3
<1>7. Tree(S)'
  BY <1>0, <1>4, <1>6, TreeSound
<1>8. Dirs' = Dirs /\ Listing' = Listing
  BY <1>4, TreeKept DEF Types
<1>9. Reached(S)'
  BY <1>1, <1>4, ReachedKept DEF Sound, Reached
<1>10. Refs(op.ino)' = Refs(op.ino)
  BY <1>1, <1>8 DEF Refs
<1>11. Dropping'
  BY <1>0, <1>1, <1>3, <1>10 DEF Sound, Dropping
<1>12. InDir'
  BY <1>0, <1>1, <1>8 DEF InDir
<1> QED
  BY <1>1, <1>7, <1>9, <1>11, <1>12, AtDropping

LEMMA UnlinkDropSound ==
    ASSUME Types, NEW S, Sound(S), UnlinkDrop, UNCHANGED open
    PROVE  Sound(S)'
<1>0. /\ op.pc = "drop" /\ op.kind = "unlink" /\ op.ino \in Ino /\ op.copy \in InodeType
      /\ UNCHANGED <<ibit, bbit, content>> /\ op.ino \in ibit /\ op.ino \in S
  BY ConstantTypes DEF UnlinkDrop, At, Types, OpOK, OpType, Sound, Dropping, Reached
<1>1. /\ op.copy.type = inode[op.ino].type /\ op.copy.blk = inode[op.ino].blk
      /\ inode[op.ino].type = "DIR" => Refs(op.ino) = {}
      /\ inode[op.ino].type = "FILE" => Cardinality(Refs(op.ino)) <= op.copy.nlink
  BY <1>0 DEF Sound, Dropping
<1>2. inode \in [Ino -> InodeType]
  BY DEF Types, TypeOK, InodeType
<1>3. CASE /\ LastName(op.copy) /\ UNCHANGED inode
           /\ op' = [op EXCEPT !.todo = Blocks(op.copy), !.pc = "free",
                               !.copy.blk = NoBlocks]
  <2>1. /\ op'.pc = "free" /\ op'.kind = "unlink" /\ op'.ino = op.ino /\ op'.dir = op.dir
        /\ op'.copy.type = op.copy.type /\ op'.copy.blk = NoBlocks
        /\ op'.todo = Blocks(op.copy)
    BY <1>0, <1>3 DEF Types, OpOK, OpType, InodeType
  <2>2. Reached(S)' /\ Tree(S)' /\ Dirs' = Dirs /\ \A x : Refs(x)' = Refs(x)
    BY <1>0, <1>3, <2>1, GoOn DEF disk
  <2>3. Blocks(op.copy) = Blocks(inode[op.ino]) /\ Blocks(inode[op.ino]) \subseteq bbit
    BY <1>0, <1>1 DEF Blocks, Sound, Tree, Marked
  <2>4. Refs(op.ino) = {}
    <3>1. CASE inode[op.ino].type = "DIR"
      BY <1>1, <3>1
    <3>2. CASE inode[op.ino].type = "FILE"
      <4>1. Cardinality(Refs(op.ino)) = 0
        BY <1>1, <1>3, <3>2, RefsFinite DEF LastName
      <4> QED
        BY <4>1, RefsFinite, FS_EmptySet
    <3> QED
      BY <1>0, <1>2, <3>1, <3>2 DEF InodeType
  <2>5. Refs(op.ino)' = {}
    BY <2>1, <2>2, <2>4 DEF Refs
  <2>6. Dropping'
    BY <1>0, <1>1, <1>3, <2>1, <2>3, <2>5 DEF Dropping
  <2>7. InDir'
    BY <1>0, <2>1, <2>2 DEF Sound, InDir, DirKinds
  <2> QED
    BY <2>1, <2>2, <2>6, <2>7, AtDropping
<1>4. CASE inode' = [inode EXCEPT ![op.ino] = op.copy] /\ Goto("sync")
  <2>1. op'.pc = "sync" /\ op'.kind = op.kind /\ op'.ino = op.ino /\ op'.dir = op.dir
    BY <1>4, GotoTypes DEF Points
  <2>2. ASSUME NEW i \in Ino
        PROVE  /\ inode'[i].type = inode[i].type /\ inode'[i].blk = inode[i].blk
               /\ i # op.ino => inode'[i] = inode[i]
               /\ i = op.ino => inode'[i] = op.copy
    BY <1>1, <1>2, <1>4
  <2>3. SameTree /\ bbit' = bbit
    BY <1>0, <2>2 DEF SameTree
  <2>4. ASSUME NEW x \in Ino, inode[x].type = "FILE"
        PROVE  Cardinality(Refs(x)) <= inode'[x].nlink + Uncounted(x)'
    <3>1. Uncounted(x)' = 0 /\ Uncounted(x) = 0
      BY <1>0, <2>1 DEF Uncounted
    <3>2. Cardinality(Refs(x)) <= inode[x].nlink + Uncounted(x)
      BY <2>4 DEF Sound, Tree, LinkCounts
    <3>3. op.copy.nlink \in Nat /\ Cardinality(Refs(x)) \in Nat
      BY <1>0, RefsFinite DEF InodeType
    <3>4. CASE x = op.ino
      BY <1>1, <2>2, <2>4, <3>1, <3>3, <3>4
    <3>5. CASE x # op.ino
      BY <2>2, <3>1, <3>2, <3>5
    <3> QED
      BY <3>4, <3>5
  <2>5. Tree(S)'
    BY <1>0, <2>3, <2>4, TreeSound
  <2>6. Reached(S)'
    BY <2>1, <2>3, ReachedKept DEF Sound, Reached
  <2> QED
    BY <2>1, <2>5, <2>6, Rest DEF Resting, InDir
<1> QED
  BY <1>3, <1>4 DEF UnlinkDrop

\* The count of a link, and of a subdirectory.
LEMMA BumpSound ==
    ASSUME Types, NEW S, Sound(S), LinkBump \/ MkdirNlink, UNCHANGED open, hurt' = {}
    PROVE  Sound(S)'
<1>0. /\ op.pc \in {"bump", "nlink"} /\ op.ino \in Ino /\ op.dir \in Ino
      /\ UNCHANGED <<ibit, bbit, content>>
  BY DEF LinkBump, MkdirNlink, At, Types, OpOK, OpType
<1>1. PICK n \in Ino : /\ inode' = [inode EXCEPT ![n].nlink = @ + 1] /\ Goto("sync")
                       /\ op.pc = "bump" => n = op.ino
  BY <1>0 DEF LinkBump, MkdirNlink, At
<1>2. op'.pc = "sync" /\ op'.kind = op.kind /\ op'.ino = op.ino /\ op'.dir = op.dir
  BY <1>1, GotoTypes DEF Points
<1>3. inode \in [Ino -> InodeType]
  BY DEF Types, TypeOK, InodeType
<1>4. ASSUME NEW i \in Ino
      PROVE  /\ inode'[i].type = inode[i].type /\ inode'[i].blk = inode[i].blk
             /\ inode'[i].nlink = IF i = n THEN inode[i].nlink + 1 ELSE inode[i].nlink
             /\ inode[i].nlink \in Nat
  BY <1>1, <1>3 DEF InodeType
<1>5. SameTree /\ bbit' = bbit
  BY <1>0, <1>4 DEF SameTree
<1>6. ASSUME NEW x \in Ino, inode[x].type = "FILE"
      PROVE  Cardinality(Refs(x)) <= inode'[x].nlink + Uncounted(x)'
  <2>1. Cardinality(Refs(x)) <= inode[x].nlink + Uncounted(x)
    BY <1>6 DEF Sound, Tree, LinkCounts
  <2>2. Uncounted(x)' = 0 /\ Uncounted(x) = IF op.pc = "bump" /\ x = n THEN 1 ELSE 0
    BY <1>1, <1>2 DEF Uncounted
  <2> QED
    BY <1>4, <2>1, <2>2, RefsFinite
<1>7. Tree(S)'
  BY <1>0, <1>5, <1>6, TreeSound
<1>8. Reached(S)'
  BY <1>2, <1>5, ReachedKept DEF Sound, Reached
<1> QED
  BY <1>2, <1>7, <1>8, Rest DEF Resting, InDir

LEMMA SyncSound ==
    ASSUME Types, NEW S, Sound(S), Sync, UNCHANGED open
    PROVE  Sound(S)'
BY DoneStep DEF Sync, Sound, Reached

-----------------------------------------------------------------------------
(* Steps that change the disk *)

\* What is known of the entries is kept when none is added and the inodes with
\* names keep their types and their counts.
LEMMA ListedLess ==
    ASSUME Types, Types', NEW S, Sound(S), op.pc # "bump",
           \A b \in Block : Listing'[b] \subseteq Listing[b],
           \A x \in Ino : \/ Refs(x) = {}
                          \/ /\ inode'[x].type = inode[x].type
                             /\ inode'[x].nlink = inode[x].nlink
    PROVE  LinkCounts' /\ \A x : Refs(x)' \subseteq Refs(x)
<1>1. \A x : Refs(x)' \subseteq Refs(x)
  BY DEF Refs
<1>2. ASSUME NEW x \in Ino
      PROVE  /\ inode'[x].type = "DIR" => \A r, t \in Refs(x)' : r = t
             /\ inode'[x].type = "FILE" =>
                  Cardinality(Refs(x)') <= inode'[x].nlink + Uncounted(x)'
  <2>1. Refs(x)' \subseteq Refs(x)
    BY <1>1
  <2>2. IsFiniteSet(Refs(x)) /\ Cardinality(Refs(x)) \in Nat
    BY RefsFinite
  <2>3. Cardinality(Refs(x)') <= Cardinality(Refs(x)) /\ Cardinality(Refs(x)') \in Nat
    BY <2>1, <2>2, FS_Subset, FS_CardinalityType
  <2>4. inode'[x].nlink \in Nat
    BY DEF Types, TypeOK
  <2>5. Uncounted(x)' \in {0, 1} /\ Uncounted(x) = 0
    BY DEF Uncounted
  <2>6. CASE Refs(x) = {}
    <3>1. Cardinality(Refs(x)) = 0
      BY <2>6, FS_EmptySet
    <3> HIDE DEF Refs, Uncounted
    <3> QED
      BY <2>1, <2>3, <2>4, <2>5, <2>6, <3>1
  <2>7. CASE inode'[x].type = inode[x].type /\ inode'[x].nlink = inode[x].nlink
    <3>1. /\ inode[x].type = "DIR" => \A r, t \in Refs(x) : r = t
          /\ inode[x].type = "FILE" => Cardinality(Refs(x)) <= inode[x].nlink + Uncounted(x)
      BY DEF Sound, Tree, LinkCounts
    <3>2. inode'[x].type = "DIR" => \A r, t \in Refs(x)' : r = t
      BY <2>1, <2>7, <3>1
    <3>3. inode'[x].type = "FILE" => Cardinality(Refs(x)') <= inode'[x].nlink + Uncounted(x)'
      BY <2>2, <2>3, <2>4, <2>5, <2>7, <3>1
    <3> QED
      BY <3>2, <3>3
  <2> QED
    BY <2>6, <2>7
<1> QED
  BY <1>1, <1>2 DEF LinkCounts

\* The bit of an inode that no name refers to, and that has no blocks if it is
\* a directory, is set or cleared.
LEMMA InodeBit ==
    ASSUME Types, Types', NEW S, Sound(S), UNCHANGED <<bbit, inode, content, open>>,
           NEW n \in S, ibit' \in {ibit \cup {n}, ibit \ {n}}, Refs(n) = {},
           inode[n].type = "DIR" => Blocks(inode[n]) = {},
           op.pc \notin {"free", "bump"}, op'.ino \in S \cup {0}, op'.dir \in S
    PROVE  /\ Reached(S)' /\ Tree(S)' /\ Dirs \subseteq Dirs' \cup {n}
           /\ \A x : Refs(x)' \subseteq Refs(x)
<1>1. /\ S \subseteq Ino /\ n \in Ino /\ inode' = inode /\ content' = content
      /\ bbit' = bbit /\ open' = open
  BY DEF Sound, Reached
<1>2. Dirs \subseteq Dirs' \cup {n} /\ Dirs' \subseteq Dirs \cup {n}
  BY <1>1 DEF Dirs
<1>3. \A d \in Dirs \cup Dirs' : d = n => Blocks(inode[d]) = {}
  BY <1>1 DEF Dirs
<1>4. DirBlocks' = DirBlocks
  BY <1>1, <1>2, <1>3 DEF DirBlocks
<1>5. Listing' = Listing
  BY <1>1, <1>4 DEF Listing
<1>6. LinkCounts' /\ \A x : Refs(x)' \subseteq Refs(x)
  BY <1>1, <1>5, ListedLess
<1>7. ASSUME NEW b \in Block, NEW e \in Listing[b] PROVE e.ino \in S /\ e.ino \in ibit'
  <2>1. e.ino \in S /\ e.ino \in ibit
    BY <1>7 DEF Sound, Reached
  <2>2. e \in [name : Name, ino : Ino]
    BY <1>7 DEF Listing, Types, TypeOK
  <2>3. e = [name |-> e.name, ino |-> e.ino] /\ e.name \in Name
    BY <2>2
  <2>4. <<b, e.name>> \in Refs(e.ino)
    BY <1>7, <2>3 DEF Refs
  <2> QED
    BY <2>1, <2>4
<1>8. Reached(S)'
  BY <1>1, <1>2, <1>5, <1>7 DEF Sound, Reached
<1>9. Marked(S)' /\ Apart(S)'
  BY <1>1 DEF Sound, Tree, Marked, Apart
<1>10. Removed'
  BY <1>1 DEF Sound, Tree, Removed
<1>11. ASSUME NEW i \in S \ Dirs', NEW b \in Blocks(inode[i]) PROVE content[b] = {}
  <2>1. i \notin Dirs
    BY <1>2, <1>3, <1>11
  <2> QED
    BY <1>11, <2>1 DEF Sound, Tree, Plain
<1>12. Plain(S)'
  BY <1>1, <1>11 DEF Plain
<1> QED
  BY <1>2, <1>6, <1>8, <1>9, <1>10, <1>12 DEF Tree

LEMMA NewInodeSound ==
    ASSUME Types, Types', NEW S, Sound(S), NewInode, UNCHANGED open
    PROVE  Sound(S)'
<1>0. op.pc = "begin" /\ op.kind \in {"create", "mkdir"} /\ op \in OpType
  BY DEF NewInode, At, Types, OpOK
<1>1. CASE Done /\ UNCHANGED disk
  BY <1>0, <1>1, DoneStep DEF Sound, Reached
<1>2. CASE AllocInode(IF op.kind = "create" THEN "inode" ELSE "block")
  <2> DEFINE next == IF op.kind = "create" THEN "inode" ELSE "block"
  <2>1. PICK n \in Lowest(FreeInos) :
          /\ ibit' = ibit \cup {n} /\ op' = [op EXCEPT !.ino = n, !.pc = next]
          /\ UNCHANGED <<bbit, inode, content>>
    BY <1>2 DEF AllocInode
  <2>2. n \in Ino /\ n \notin ibit /\ n # RootIno /\ n \in S
    BY <2>1, ConstantTypes DEF Lowest, FreeInos, RootIno, Ino, Sound, Reached
  <2>3. /\ op'.pc = next /\ op'.kind = op.kind /\ op'.ino = n /\ op'.dir = op.dir
        /\ op'.blk = op.blk
    BY <1>0, <2>1 DEF OpType
  <2>4. inode[n].type = "DIR" => Blocks(inode[n]) = {}
    BY <2>2 DEF Sound, Tree, Removed
  <2>5. Refs(n) = {}
    BY <2>2 DEF Refs, Sound, Reached
  <2>6. op.dir \in S /\ op.dir \in Dirs /\ op.dir # n
    BY <1>0, <2>2 DEF Sound, Reached, InDir, DirKinds, Dirs
  <2>7. /\ Reached(S)' /\ Tree(S)' /\ Dirs \subseteq Dirs' \cup {n}
        /\ \A x : Refs(x)' \subseteq Refs(x)
    BY <1>0, <2>1, <2>2, <2>3, <2>4, <2>5, <2>6, InodeBit
  <2>8. InDir'
    BY <2>3, <2>6, <2>7 DEF InDir
  <2>9. Refs(op.ino)' = {}
    <3>1. Refs(n)' = {}
      BY <2>5, <2>7
    <3> QED
      BY <2>3, <3>1 DEF Refs
  <2>10. Fresh'
    BY <1>0, <2>1, <2>2, <2>3, <2>4, <2>6, <2>9 DEF Fresh, Adding
  <2>11. NewBlock(S)'
    BY <1>0, <2>3 DEF NewBlock
  <2> QED
    BY <1>0, <2>3, <2>7, <2>8, <2>10, <2>11, AtMaking
<1> QED
  BY <1>1, <1>2 DEF NewInode

LEMMA UnlinkUnuseSound ==
    ASSUME Types, Types', NEW S, Sound(S), UnlinkUnuse, UNCHANGED open
    PROVE  Sound(S)'
<1>0. /\ op.pc = "unuse" /\ op.kind = "unlink" /\ op.ino \in Ino /\ op.ino \in S
      /\ op.dir \in S
  BY ConstantTypes DEF UnlinkUnuse, At, Types, OpOK, Sound, Reached
<1>1. op'.pc = "sync" /\ op'.ino = op.ino /\ op'.dir = op.dir
  BY GotoTypes DEF UnlinkUnuse, Points
<1>2. ibit' = ibit \ {op.ino} /\ UNCHANGED <<bbit, inode, content>>
  BY DEF UnlinkUnuse, FreeInode
<1>3. Refs(op.ino) = {} /\ Blocks(inode[op.ino]) = {}
  BY <1>0 DEF Sound, Dropping
<1>4. Reached(S)' /\ Tree(S)'
  BY <1>0, <1>1, <1>2, <1>3, InodeBit
<1> QED
  BY <1>1, <1>4, Rest DEF Resting, InDir

\* The bit of a block is set or cleared.
LEMMA BlockBit ==
    ASSUME Types, NEW S, Sound(S), UNCHANGED <<ibit, inode, content, open>>, Marked(S)',
           op.pc # "bump", op'.ino = op.ino, op'.dir = op.dir
    PROVE  /\ Reached(S)' /\ Tree(S)' /\ Dirs' = Dirs
           /\ \A x : Refs(x)' = Refs(x)
<1>1. SameTree /\ inode' = inode /\ content' = content /\ S \subseteq Ino
  BY DEF SameTree, Sound, Reached
<1>2. Dirs' = Dirs /\ Listing' = Listing
  BY <1>1, TreeKept DEF Types
<1>3. \A x : Refs(x)' = Refs(x)
  BY <1>2, RefsKept
<1>4. Reached(S)'
  BY <1>1, ReachedKept DEF Sound, Reached
<1>5. Apart(S)' /\ Removed' /\ Plain(S)'
  BY <1>1, <1>2 DEF Sound, Tree, Apart, Removed, Plain
<1>6. LinkCounts'
  BY <1>1, <1>3, FilesCounted DEF LinkCounts, Sound, Tree
<1> QED
  BY <1>2, <1>3, <1>4, <1>5, <1>6 DEF Tree

\* A new block belongs to no inode.
LEMMA AllocBlockSound ==
    ASSUME Types, NEW S, Sound(S), NEW next \in {"extend", "fill", "data"}, AllocBlock(next),
           UNCHANGED open, op.pc \notin {"free", "bump"}
    PROVE  /\ op'.pc = next /\ op'.kind = op.kind /\ op'.dir = op.dir /\ op'.name = op.name
           /\ op'.ino = op.ino /\ op'.todo = op.todo /\ op'.copy = op.copy
           /\ Reached(S)' /\ Tree(S)' /\ Dirs' = Dirs /\ \A x : Refs(x)' = Refs(x)
           /\ Unowned(S, op.blk)' /\ op'.blk \notin bbit /\ bbit \subseteq bbit'
           /\ UNCHANGED <<ibit, inode, content>>
<1>1. PICK b \in Lowest(FreeBlks) :
        /\ bbit' = bbit \cup {b} /\ op' = [op EXCEPT !.blk = b, !.pc = next]
        /\ UNCHANGED <<ibit, inode, content>>
  BY DEF AllocBlock
<1>2. b \in Block /\ b \notin bbit
  BY <1>1 DEF Lowest, FreeBlks
<1>3. /\ op'.pc = next /\ op'.kind = op.kind /\ op'.dir = op.dir /\ op'.name = op.name
      /\ op'.ino = op.ino /\ op'.todo = op.todo /\ op'.copy = op.copy /\ op'.blk = b
  BY <1>1 DEF Types, OpOK, OpType
<1>4. \A i \in S : Blocks(inode[i]) \subseteq bbit
  BY DEF Sound, Tree, Marked
<1>5. Marked(S)'
  BY <1>1, <1>4 DEF Marked
<1>6. /\ Reached(S)' /\ Tree(S)' /\ Dirs' = Dirs
      /\ \A x : Refs(x)' = Refs(x)
  BY <1>1, <1>3, <1>5, BlockBit
<1>7. Unowned(S, op.blk)'
  BY <1>1, <1>2, <1>3, <1>4 DEF Unowned
<1> QED
  BY <1>1, <1>2, <1>3, <1>6, <1>7

LEMMA MkdirBlockSound ==
    ASSUME Types, Types', NEW S, Sound(S), MkdirBlock, UNCHANGED open
    PROVE  Sound(S)'
<1>0. op.pc = "block" /\ op.kind = "mkdir"
  BY DEF MkdirBlock, At
<1>1. /\ op.ino \in ibit /\ op.ino \notin {RootIno, op.dir} /\ Refs(op.ino) = {}
      /\ inode[op.ino].type = "DIR" => Blocks(inode[op.ino]) = {}
  BY <1>0 DEF Sound, Fresh
<1>2. op.dir \in Dirs
  BY <1>0 DEF Sound, InDir, DirKinds
<1>3. CASE AllocBlock("fill")
  <2>1. /\ op'.pc = "fill" /\ op'.kind = op.kind /\ op'.dir = op.dir /\ op'.ino = op.ino
        /\ Reached(S)' /\ Tree(S)' /\ Dirs' = Dirs /\ Unowned(S, op.blk)'
        /\ UNCHANGED <<ibit, inode, content>> /\ \A x : Refs(x)' = Refs(x)
    BY <1>0, <1>3, AllocBlockSound
  <2>2. Refs(op.ino)' = {}
    BY <1>1, <2>1 DEF Refs
  <2>3. Fresh'
    BY <1>0, <1>1, <2>1, <2>2 DEF Fresh, Adding
  <2>4. InDir' /\ NewBlock(S)'
    BY <1>2, <2>1 DEF InDir, NewBlock
  <2> QED
    BY <2>1, <2>3, <2>4, AtMaking
<1>4. CASE Goto("undo") /\ UNCHANGED disk
  <2>1. op'.pc = "undo" /\ op'.kind = op.kind /\ op'.ino = op.ino /\ op'.dir = op.dir
        /\ op'.blk = op.blk
    BY <1>4, GotoTypes DEF Points
  <2>2. /\ Reached(S)' /\ Tree(S)' /\ Dirs' = Dirs /\ \A x : Refs(x)' = Refs(x)
    BY <1>0, <1>4, <2>1, GoOn
  <2>3. inode' = inode /\ ibit' = ibit
    BY <1>4 DEF disk
  <2>4. Refs(op.ino)' = {}
    BY <1>1, <2>1, <2>2 DEF Refs
  <2>5. Fresh'
    BY <1>0, <1>1, <2>1, <2>3, <2>4 DEF Fresh, Adding
  <2>6. InDir' /\ NewBlock(S)'
    BY <1>0, <1>2, <2>1, <2>2 DEF InDir, NewBlock, Types, OpOK
  <2> QED
    BY <2>1, <2>2, <2>5, <2>6, AtMaking
<1> QED
  BY <1>3, <1>4 DEF MkdirBlock

\* A block that is in no directory is written.
LEMMA UnlistedContent ==
    ASSUME Types, Types', NEW S, Sound(S), UNCHANGED <<ibit, bbit, inode, open>>,
           NEW b \in Block, NEW c, content' = [content EXCEPT ![b] = c], b \notin DirBlocks,
           c = {} \/ \A i \in S : b \notin Blocks(inode[i]),
           op.pc \notin {"free", "bump"}, op'.ino = op.ino, op'.dir = op.dir
    PROVE  /\ Reached(S)' /\ Tree(S)' /\ Dirs' = Dirs
           /\ \A x : Refs(x)' = Refs(x)
<1>1. /\ S \subseteq Ino /\ inode' = inode /\ ibit' = ibit /\ bbit' = bbit /\ open' = open
      /\ content \in [Block -> SUBSET [name : Name, ino : Ino]]
  BY DEF Sound, Reached, Types, TypeOK
<1>2. Dirs' = Dirs /\ DirBlocks' = DirBlocks
  BY <1>1 DEF Dirs, DirBlocks
<1>3. \A a \in Block : a # b => content'[a] = content[a]
  BY <1>1
<1>4. Listing' = Listing
  BY <1>2, <1>3 DEF Listing
<1>5. \A x : Refs(x)' = Refs(x)
  BY <1>4, RefsKept
<1>6. LinkCounts'
  BY <1>1, <1>4, ListedLess
<1>7. Reached(S)'
  BY <1>1, <1>2, <1>4 DEF Sound, Reached
<1>8. Marked(S)' /\ Apart(S)' /\ Removed'
  BY <1>1 DEF Sound, Tree, Marked, Apart, Removed
<1>9. ASSUME NEW i \in S \ Dirs, NEW a \in Blocks(inode[i]) PROVE content'[a] = {}
  <2>1. content[a] = {} /\ a \in Block
    BY <1>1, <1>9, InodesOf DEF Sound, Tree, Plain, Types
  <2> QED
    BY <1>1, <1>9, <2>1
<1>10. Plain(S)'
  BY <1>1, <1>2, <1>9 DEF Plain
<1> QED
  BY <1>2, <1>5, <1>6, <1>7, <1>8, <1>10 DEF Tree

LEMMA UnownedUnlisted ==
    ASSUME NEW S, Sound(S), NEW b, Unowned(S, b)
    PROVE  b \notin DirBlocks
BY DEF Sound, Reached, Unowned, DirBlocks

LEMMA MkdirFillSound ==
    ASSUME Types, Types', NEW S, Sound(S), MkdirFill, UNCHANGED open
    PROVE  Sound(S)'
<1>0. /\ op.pc = "fill" /\ op.kind = "mkdir" /\ op.blk \in Block /\ Unowned(S, op.blk)
      /\ op.dir \in Dirs /\ content' = [content EXCEPT ![op.blk] = {}]
      /\ UNCHANGED <<ibit, bbit, inode>>
  BY DEF MkdirFill, At, Types, OpOK, Sound, NewBlock, InDir, DirKinds
<1>1. /\ op.ino \in ibit /\ op.ino \notin {RootIno, op.dir} /\ Refs(op.ino) = {}
      /\ inode[op.ino].type = "DIR" => Blocks(inode[op.ino]) = {}
  BY <1>0 DEF Sound, Fresh
<1>2. /\ op'.pc = "inode" /\ op'.kind = op.kind /\ op'.ino = op.ino /\ op'.dir = op.dir
      /\ op'.blk = op.blk
  BY GotoTypes DEF MkdirFill, Points
<1>3. op.blk \notin DirBlocks
  BY <1>0, UnownedUnlisted
<1>4. Reached(S)' /\ Tree(S)' /\ Dirs' = Dirs /\ \A x : Refs(x)' = Refs(x)
  BY <1>0, <1>2, <1>3, UnlistedContent
<1>5. Refs(op.ino)' = {}
  BY <1>1, <1>2, <1>4 DEF Refs
<1>6. Fresh'
  BY <1>0, <1>1, <1>2, <1>5 DEF Fresh, Adding
<1>7. content'[op.blk] = {}
  BY <1>0 DEF Types, TypeOK
<1>8. Unowned(S, op.blk)'
  BY <1>0, <1>2 DEF Unowned
<1>9. NewBlock(S)'
  BY <1>2, <1>7, <1>8 DEF NewBlock
<1>10. InDir'
  BY <1>0, <1>2, <1>4 DEF InDir
<1> QED
  BY <1>2, <1>4, <1>6, <1>9, <1>10, AtMaking

LEMMA ExtendSound ==
    ASSUME Types, Types', NEW S, Sound(S), Extend, UNCHANGED open
    PROVE  Sound(S)'
<1>0. /\ op.pc = "extend" /\ op.blk \in Block /\ Unowned(S, op.blk) /\ op.kind \in DirKinds
      /\ op.dir \in Dirs /\ content' = [content EXCEPT ![op.blk] = {NewEntry}]
      /\ UNCHANGED <<ibit, bbit, inode>>
  BY DEF Extend, Types, OpOK, Sound, NewBlock, InDir, DirKinds, Adding
<1>1. /\ op'.pc = "extended" /\ op'.kind = op.kind /\ op'.ino = op.ino /\ op'.dir = op.dir
      /\ op'.blk = op.blk /\ op'.name = op.name
  BY GotoTypes DEF Extend, Points
<1>2. op.blk \notin DirBlocks
  BY <1>0, UnownedUnlisted
<1>3. \A i \in S : op.blk \notin Blocks(inode[i])
  BY <1>0 DEF Unowned
<1>4. Reached(S)' /\ Tree(S)' /\ Dirs' = Dirs /\ \A x : Refs(x)' = Refs(x)
  BY <1>0, <1>1, <1>2, <1>3, UnlistedContent
<1>5. Refs(op.ino)' = Refs(op.ino)
  BY <1>1, <1>4 DEF Refs
<1>6. Fresh' /\ Linking' /\ Readding'
  BY <1>0, <1>1, <1>5 DEF Sound, Fresh, Linking, Readding, Adding
<1>7. content'[op.blk] = {NewEntry} /\ NewEntry' = NewEntry
  BY <1>0, <1>1 DEF Types, TypeOK, NewEntry
<1>8. Unowned(S, op.blk)'
  BY <1>0, <1>1 DEF Unowned
<1>9. NewBlock(S)'
  BY <1>1, <1>7, <1>8 DEF NewBlock
<1>10. InDir'
  BY <1>0, <1>1, <1>4 DEF InDir
<1> QED
  BY <1>1, <1>4, <1>6, <1>9, <1>10, AtAdding DEF Adding

\* An entry that cannot be added: create gives its inode back.
LEMMA AddFailedSound ==
    ASSUME Types, Types', NEW S, Sound(S), op.pc \in Adding, AddFailed, UNCHANGED <<disk, open>>
    PROVE  Sound(S)'
<1>0. op.pc \notin {"free", "bump"} /\ inode' = inode /\ ibit' = ibit
  BY DEF Adding, disk
<1>1. CASE Done
  BY <1>0, <1>1, DoneStep DEF Sound, Reached
<1>2. CASE op.kind = "create" /\ Goto("undo")
  <2>1. op'.pc = "undo" /\ op'.kind = op.kind /\ op'.ino = op.ino /\ op'.dir = op.dir
    BY <1>2, GotoTypes DEF Points
  <2>2. Reached(S)' /\ Tree(S)' /\ Dirs' = Dirs /\ \A x : Refs(x)' = Refs(x)
    BY <1>0, <2>1, GoOn
  <2>3. Refs(op.ino)' = Refs(op.ino)
    BY <2>1, <2>2 DEF Refs
  <2>4. Fresh'
    BY <1>0, <1>2, <2>1, <2>3 DEF Sound, Fresh, Adding
  <2>5. InDir'
    BY <1>0, <1>2, <2>1, <2>2 DEF Sound, InDir, DirKinds, Adding
  <2>6. NewBlock(S)'
    BY <1>2, <2>1 DEF NewBlock
  <2> QED
    BY <2>1, <2>2, <2>4, <2>5, <2>6, AtMaking
<1> QED
  BY <1>1, <1>2 DEF AddFailed

LEMMA UndoSound ==
    ASSUME Types, Types', NEW S, Sound(S), Undo, UNCHANGED open
    PROVE  Sound(S)'
<1>0. /\ op.pc = "undo" /\ op.kind \in {"create", "mkdir"} /\ op.ino \in Ino /\ op.ino \in S
      /\ op \in OpType /\ UNCHANGED <<inode, content>>
  BY ConstantTypes DEF Undo, Types, OpOK, Sound, Reached
<1>1. /\ op.ino \in ibit /\ op.ino \notin {RootIno, op.dir} /\ Refs(op.ino) = {}
      /\ inode[op.ino].type = "DIR" => Blocks(inode[op.ino]) = {}
  BY <1>0 DEF Sound, Fresh
<1>2. CASE /\ op.blk # NoBlk /\ op.kind = "mkdir" /\ bbit' = bbit \ {op.blk}
           /\ op' = [op EXCEPT !.blk = NoBlk] /\ UNCHANGED ibit
  <2>1. /\ op'.pc = "undo" /\ op'.kind = op.kind /\ op'.ino = op.ino /\ op'.dir = op.dir
        /\ op'.blk = NoBlk
    BY <1>0, <1>2 DEF OpType
  <2>2. Unowned(S, op.blk)
    BY <1>0, <1>2 DEF Sound, NewBlock
  <2>3. Marked(S)'
    BY <1>0, <1>2, <2>2 DEF Sound, Tree, Marked, Unowned
  <2>4. Reached(S)' /\ Tree(S)' /\ Dirs' = Dirs /\ \A x : Refs(x)' = Refs(x)
    BY <1>0, <1>2, <2>1, <2>3, BlockBit
  <2>5. Refs(op.ino)' = {}
    BY <1>1, <2>1, <2>4 DEF Refs
  <2>6. Fresh'
    BY <1>0, <1>1, <1>2, <2>1, <2>5 DEF Fresh, Adding
  <2>7. InDir' /\ NewBlock(S)'
    BY <1>0, <2>1, <2>4 DEF Sound, InDir, NewBlock, DirKinds
  <2> QED
    BY <2>1, <2>4, <2>6, <2>7, AtMaking
<1>3. CASE ibit' = ibit \ {op.ino} /\ Done /\ UNCHANGED bbit
  <2>1. op'.pc = "idle" /\ op'.ino = 0 /\ op'.dir \in S
    BY <1>3, IdleTypes DEF Done, Sound, Reached
  <2>2. Reached(S)' /\ Tree(S)'
    BY <1>0, <1>1, <1>3, <2>1, InodeBit
  <2> QED
    BY <2>1, <2>2, Rest DEF Resting, InDir
<1> QED
  BY <1>2, <1>3 DEF Undo, FreeBlock, FreeInode

\* The blocks of a node to be written as inode n are its own and hold no entry.
OwnBlocks(S, n, node) ==
  /\ Blocks(node) \subseteq bbit /\ \A b \in Blocks(node) : content[b] = {}
  /\ \A i \in S \ {n} : Blocks(node) \cap Blocks(inode[i]) = {}
  /\ \A l, m \in Logical : l # m /\ node.blk[l] = node.blk[m] => node.blk[l] = NoBlk

LEMMA InodeWritten ==
    ASSUME Types, Types', NEW S, Sound(S), UNCHANGED <<ibit, bbit, content, open>>,
           NEW n \in S, NEW node \in InodeType, inode' = [inode EXCEPT ![n] = node],
           OwnBlocks(S, n, node),
           n = RootIno => node.type = "DIR",
           n \notin ibit /\ node.type = "DIR" => Blocks(node) = {},
           \/ Refs(n) = {}
           \/ node.type = inode[n].type /\ node.nlink = inode[n].nlink,
           op.pc = "free" => op.ino = n, op.pc # "bump",
           op'.ino \in S \cup {0}, op'.dir \in S
    PROVE  /\ Reached(S)' /\ Tree(S)' /\ Dirs \ {n} \subseteq Dirs'
           /\ node.type = inode[n].type => Dirs' = Dirs
           /\ \A x : Refs(x)' \subseteq Refs(x)
<1>0. /\ Blocks(node) \subseteq bbit /\ \A b \in Blocks(node) : content[b] = {}
      /\ \A i \in S \ {n} : Blocks(node) \cap Blocks(inode[i]) = {}
      /\ \A l, m \in Logical : l # m /\ node.blk[l] = node.blk[m] => node.blk[l] = NoBlk
  BY DEF OwnBlocks
<1>1. /\ S \subseteq Ino /\ n \in Ino /\ ibit' = ibit /\ bbit' = bbit /\ open' = open
      /\ content' = content /\ inode \in [Ino -> InodeType]
  BY DEF Sound, Reached, Types, TypeOK, InodeType
<1>2. \A i \in Ino : inode'[i] = IF i = n THEN node ELSE inode[i]
  BY <1>1
<1>3. /\ Dirs \ {n} \subseteq Dirs' /\ Dirs' \subseteq Dirs \cup {n}
      /\ node.type = inode[n].type => Dirs' = Dirs
      /\ Dirs \subseteq Ino /\ Dirs' \subseteq Ino
  BY <1>1, <1>2 DEF Dirs, Types, TypeOK
<1>4. \A i \in Ino : Blocks(inode[i])' = IF i = n THEN Blocks(node) ELSE Blocks(inode[i])
  BY <1>2 DEF Blocks
<1>5. ASSUME NEW b \in Block PROVE Listing'[b] \subseteq Listing[b]
  <2>1. CASE b \notin DirBlocks'
    BY <2>1 DEF Listing
  <2>2. CASE b \in DirBlocks'
    <3>1. PICK d \in Dirs' : b \in Blocks(inode[d])'
      BY <2>2 DEF DirBlocks
    <3>2. CASE d = n
      <4>1. content[b] = {}
        BY <1>0, <1>1, <1>4, <3>1, <3>2
      <4> QED
        BY <1>1, <4>1 DEF Listing
    <3>3. CASE d # n
      <4>1. d \in Dirs /\ b \in Blocks(inode[d])
        BY <1>3, <1>4, <3>1, <3>3
      <4>2. b \in DirBlocks
        BY <4>1 DEF DirBlocks
      <4> QED
        BY <1>1, <2>2, <4>2 DEF Listing
    <3> QED
      BY <3>2, <3>3
  <2> QED
    BY <2>1, <2>2
<1>6. LinkCounts' /\ \A x : Refs(x)' \subseteq Refs(x)
  BY <1>2, <1>5, ListedLess
<1>7. Reached(S)'
  <2>1. inode'[RootIno].type = "DIR"
    BY <1>2, ConstantTypes DEF Sound, Reached
  <2>2. Dirs' \subseteq S
    BY <1>3 DEF Sound, Reached
  <2>3. \A b \in Block : \A e \in Listing'[b] : e.ino \in S /\ e.ino \in ibit
    BY <1>5 DEF Sound, Reached
  <2> QED
    BY <1>1, <2>1, <2>2, <2>3 DEF Sound, Reached
<1>8. Marked(S)'
  <2>1. \A i \in S \ {n} : Blocks(inode[i]) \subseteq bbit
    BY DEF Sound, Tree, Marked
  <2> QED
    BY <1>0, <1>1, <1>4, <2>1 DEF Marked
<1>9. Apart(S)'
  <2>1. ASSUME NEW i \in S, NEW j \in S, i # j
        PROVE  Blocks(inode[i])' \cap Blocks(inode[j])' = {}
    <3>1. Blocks(inode[i]) \cap Blocks(inode[j]) = {}
      BY <2>1 DEF Sound, Tree, Apart
    <3> QED
      BY <1>0, <1>1, <1>4, <2>1, <3>1
  <2>2. ASSUME NEW i \in S, NEW l \in Logical, NEW m \in Logical,
               l # m, inode'[i].blk[l] = inode'[i].blk[m]
        PROVE  inode'[i].blk[l] = NoBlk
    BY <1>0, <1>1, <1>2, <2>2 DEF Sound, Tree, Apart
  <2> QED
    BY <2>1, <2>2 DEF Apart
<1>10. Removed'
  BY <1>1, <1>2, <1>4 DEF Sound, Tree, Removed
<1>11. Plain(S)'
  <2>1. ASSUME NEW i \in S \ Dirs', NEW b \in Blocks(inode[i])' PROVE content[b] = {}
    <3>1. CASE i = n
      BY <1>0, <1>1, <1>4, <2>1, <3>1
    <3>2. CASE i # n
      BY <1>1, <1>3, <1>4, <2>1, <3>2 DEF Sound, Tree, Plain
    <3> QED
      BY <3>1, <3>2
  <2> QED
    BY <1>1, <2>1 DEF Plain
<1> QED
  BY <1>3, <1>6, <1>7, <1>8, <1>9, <1>10, <1>11 DEF Tree

LEMMA WriteInodeSound ==
    ASSUME Types, Types', NEW S, Sound(S), WriteInode, UNCHANGED open
    PROVE  Sound(S)'
<1>0. /\ op.pc = "inode" /\ op.kind \in {"create", "mkdir"} /\ op.ino \in Ino /\ op.ino \in S
      /\ op.dir \in S /\ op.dir \in Dirs /\ UNCHANGED <<ibit, bbit, content>>
      /\ op.kind = "mkdir" => op.blk \in Block
  BY ConstantTypes DEF WriteInode, At, Types, OpOK, Sound, Reached, InDir, DirKinds
<1>1. /\ op.ino \in ibit /\ op.ino \notin {RootIno, op.dir} /\ Refs(op.ino) = {}
      /\ inode[op.ino].type = "DIR" => Blocks(inode[op.ino]) = {}
  BY <1>0 DEF Sound, Fresh
<1>2. op.kind = "mkdir" => Unowned(S, op.blk) /\ content[op.blk] = {}
  BY <1>0, ConstantTypes DEF Sound, NewBlock
<1>3. CASE Goto("undo") /\ UNCHANGED inode
  <2>1. op'.pc = "undo" /\ op'.kind = op.kind /\ op'.ino = op.ino /\ op'.dir = op.dir
        /\ op'.blk = op.blk
    BY <1>3, GotoTypes DEF Points
  <2>2. Reached(S)' /\ Tree(S)' /\ Dirs' = Dirs /\ \A x : Refs(x)' = Refs(x)
    BY <1>0, <1>3, <2>1, GoOn DEF disk
  <2>3. Refs(op.ino)' = {}
    BY <1>1, <2>1, <2>2 DEF Refs
  <2>4. Fresh'
    BY <1>0, <1>1, <1>3, <2>1, <2>3 DEF Fresh, Adding
  <2>5. op.kind = "mkdir" => Unowned(S, op.blk)'
    BY <1>0, <1>2, <1>3, <2>1 DEF Unowned
  <2>6. InDir' /\ NewBlock(S)'
    BY <1>0, <2>1, <2>2, <2>5 DEF InDir, NewBlock
  <2> QED
    BY <2>1, <2>2, <2>4, <2>6, AtMaking
<1>4. ASSUME NEW node \in InodeType, inode' = [inode EXCEPT ![op.ino] = node], Goto("add"),
             op.kind = "create" => node.type = "FILE" /\ node.nlink = 1,
             op.kind = "mkdir" => node.type = "DIR",
             \A b \in Blocks(node) : op.kind = "mkdir" /\ b = op.blk,
             \A l, m \in Logical : l # m /\ node.blk[l] = node.blk[m] => node.blk[l] = NoBlk
      PROVE  Sound(S)'
  <2>1. op'.pc = "add" /\ op'.kind = op.kind /\ op'.ino = op.ino /\ op'.dir = op.dir
        /\ op'.blk = op.blk
    BY <1>4, GotoTypes DEF Points
  <2>2. /\ Blocks(node) \subseteq bbit /\ \A b \in Blocks(node) : content[b] = {}
        /\ \A i \in S \ {op.ino} : Blocks(node) \cap Blocks(inode[i]) = {}
    BY <1>2, <1>4 DEF Unowned
  <2> DEFINE n == op.ino
  <2> HIDE DEF n
  <2>3. /\ Reached(S)' /\ Tree(S)' /\ Dirs \ {n} \subseteq Dirs'
        /\ \A x : Refs(x)' \subseteq Refs(x)
    <3>1. /\ n \in S /\ inode' = [inode EXCEPT ![n] = node] /\ n # RootIno /\ n \in ibit
          /\ Refs(n) = {} /\ OwnBlocks(S, n, node)
      BY <1>0, <1>1, <1>4, <2>2 DEF n, OwnBlocks
    <3>2. /\ UNCHANGED <<ibit, bbit, content, open>> /\ op.pc \notin {"free", "bump"}
          /\ op'.ino \in S \cup {0} /\ op'.dir \in S
      BY <1>0, <2>1
    <3> QED
      BY <1>4, <3>1, <3>2, InodeWritten
  <2>4. inode'[op.ino] = node
    BY <1>0, <1>4 DEF Types, TypeOK
  <2>5. Refs(op.ino)' = {}
    <3>1. \A x : x = op.ino => Refs(x)' = {}
      BY <1>1, <2>3
    <3> QED
      BY <2>1, <3>1 DEF Refs
  <2>6. Fresh' /\ Linking' /\ Readding'
    BY <1>0, <1>1, <1>4, <2>1, <2>4, <2>5 DEF Fresh, Linking, Readding, Adding
  <2>7. InDir'
    BY <1>0, <1>1, <2>1, <2>3 DEF InDir, n
  <2>8. NewBlock(S)'
    BY <2>1 DEF NewBlock
  <2> QED
    BY <2>1, <2>3, <2>6, <2>7, <2>8, AtAdding DEF Adding
<1>5. CASE /\ Goto("add") /\ op.kind = "create"
           /\ inode' = [inode EXCEPT ![op.ino] =
                          [type |-> "FILE", nlink |-> 1, blk |-> NoBlocks]]
  <2> DEFINE node == [type |-> "FILE", nlink |-> 1, blk |-> NoBlocks]
  <2>1. node \in InodeType /\ Blocks(node) = {}
    BY ConstantTypes, BlocksNone DEF InodeType
  <2>2. \A l \in Logical : node.blk[l] = NoBlk
    BY DEF NoBlocks
  <2> QED
    BY <1>4, <1>5, <2>1, <2>2
<1>6. CASE /\ Goto("add") /\ op.kind = "mkdir"
           /\ inode' = [inode EXCEPT ![op.ino] =
                          [type |-> "DIR", nlink |-> 2,
                           blk |-> [NoBlocks EXCEPT ![0] = op.blk]]]
  <2> DEFINE node == [type |-> "DIR", nlink |-> 2, blk |-> [NoBlocks EXCEPT ![0] = op.blk]]
  <2>1. node \in InodeType
    BY <1>0, <1>6, ConstantTypes DEF InodeType
  <2>2. \A l \in Logical : node.blk[l] = IF l = 0 THEN op.blk ELSE NoBlk
    BY DEF NoBlocks
  <2>3. \A b \in Blocks(node) : b = op.blk
    BY <2>2 DEF Blocks
  <2> HIDE DEF node
  <2>4. node.type = "DIR" /\ inode' = [inode EXCEPT ![op.ino] = node]
    BY <1>6 DEF node
  <2>5. \A l, m \in Logical : l # m /\ node.blk[l] = node.blk[m] => node.blk[l] = NoBlk
    BY <2>2
  <2> QED
    BY <1>4, <1>6, <2>1, <2>3, <2>4, <2>5
<1> QED
  BY <1>0, <1>3, <1>5, <1>6 DEF WriteInode

LEMMA FreeBlocksSound ==
    ASSUME Types, Types', NEW S, Sound(S), FreeBlocks, UNCHANGED open
    PROVE  Sound(S)'
<1>0. /\ op.pc = "free" /\ op.kind \in {"unlink", "trunc"} /\ op.ino \in Ino /\ op.ino \in S
      /\ op.todo \subseteq Blocks(inode[op.ino]) \cap bbit /\ op \in OpType
      /\ S \subseteq Ino /\ UNCHANGED <<ibit, inode, content>>
  BY ConstantTypes DEF FreeBlocks, Types, OpOK, Sound, Reached, Dropping
<1>1. PICK b \in op.todo : bbit' = bbit \ {b} /\ op' = [op EXCEPT !.todo = @ \ {b}]
  BY DEF FreeBlocks, FreeBlock, Lowest
<1>2. /\ op'.pc = "free" /\ op'.kind = op.kind /\ op'.ino = op.ino /\ op'.dir = op.dir
      /\ op'.todo = op.todo \ {b} /\ op'.copy = op.copy
  BY <1>0, <1>1 DEF OpType
<1>3. Marked(S)'
  <2>1. ASSUME NEW i \in S, i # op.ino PROVE Blocks(inode[i]) \subseteq bbit \ {b}
    <3>1. Blocks(inode[i]) \subseteq bbit
      BY <2>1 DEF Sound, Tree, Marked
    <3>2. Blocks(inode[i]) \cap Blocks(inode[op.ino]) = {}
      BY <1>0, <2>1 DEF Sound, Tree, Apart
    <3> QED
      BY <1>0, <1>1, <3>1, <3>2
  <2> QED
    BY <1>0, <1>1, <1>2, <2>1 DEF Marked
<1>4. Reached(S)' /\ Tree(S)' /\ Dirs' = Dirs /\ \A x : Refs(x)' = Refs(x)
  BY <1>0, <1>1, <1>2, <1>3, BlockBit
<1>5. Refs(op.ino)' = Refs(op.ino)
  BY <1>2, <1>4 DEF Refs
<1>6. Dropping'
  BY <1>0, <1>1, <1>2, <1>5 DEF Sound, Dropping
<1>7. InDir'
  BY <1>0, <1>2, <1>4 DEF Sound, InDir
<1> QED
  BY <1>2, <1>4, <1>6, <1>7, AtDropping

LEMMA FreedSound ==
    ASSUME Types, Types', NEW S, Sound(S), Freed, UNCHANGED open
    PROVE  Sound(S)'
<1>n. PICK n \in Ino : n = op.ino
  BY DEF Freed, Types, OpOK
<1>0. /\ op.pc = "free" /\ op.kind \in {"unlink", "trunc"} /\ op.ino = n /\ n \in Ino /\ n \in S
      /\ op.dir \in S /\ op.copy \in InodeType /\ inode' = [inode EXCEPT ![n] = op.copy]
      /\ UNCHANGED <<ibit, bbit, content>>
  BY <1>n, ConstantTypes DEF Freed, Types, OpOK, OpType, Sound, Reached
<1>1. /\ op.copy.type = inode[n].type /\ op.copy.blk = NoBlocks
      /\ op.kind = "unlink" => n \in ibit /\ Refs(n) = {}
      /\ op.kind = "trunc" => op.copy.nlink = inode[n].nlink
  BY <1>0 DEF Sound, Dropping
<1>2. op'.pc = IF op.kind = "trunc" THEN "sync" ELSE "unuse"
  BY GotoTypes DEF Freed, Points
<1>3. op'.kind = op.kind /\ op'.ino = n /\ op'.dir = op.dir
  BY <1>0, GotoTypes DEF Freed, Points
<1>4. Blocks(op.copy) = {} /\ \A l \in Logical : op.copy.blk[l] = NoBlk
  BY <1>1, BlocksNone DEF NoBlocks
<1>5. OwnBlocks(S, n, op.copy)
  BY <1>4 DEF OwnBlocks
<1>6. n = RootIno => op.copy.type = "DIR"
  BY <1>1 DEF Sound, Reached
<1>7. op.copy.type = inode[n].type => Dirs' = Dirs
  BY <1>0 DEF Dirs, Types, TypeOK
<1>8. Reached(S)' /\ Tree(S)' /\ \A x : Refs(x)' \subseteq Refs(x)
  <2>1. \/ Refs(n) = {}
        \/ op.copy.type = inode[n].type /\ op.copy.nlink = inode[n].nlink
    BY <1>0, <1>1
  <2>2. op'.ino \in S \cup {0} /\ op'.dir \in S
    BY <1>0, <1>3
  <2> QED
    BY <1>0, <1>4, <1>5, <1>6, <2>1, <2>2, InodeWritten
<1>9. CASE op.kind = "trunc"
  BY <1>2, <1>8, <1>9, Rest DEF Resting, InDir
<1>10. CASE op.kind = "unlink"
  <2>1. inode'[n] = op.copy
    BY <1>0 DEF Types, TypeOK
  <2>2. Refs(n)' = {}
    BY <1>1, <1>8, <1>10
  <2>3. Refs(op.ino)' = {} /\ Blocks(inode[op.ino])' = {}
    BY <1>3, <1>4, <2>1, <2>2 DEF Refs
  <2>4. Dropping'
    BY <1>0, <1>1, <1>2, <1>3, <1>10, <2>3 DEF Dropping
  <2>5. InDir'
    BY <1>0, <1>1, <1>3, <1>7, <1>10 DEF Sound, InDir, DirKinds
  <2> QED
    BY <1>2, <1>8, <1>10, <2>4, <2>5, AtDropping
<1> QED
  BY <1>0, <1>9, <1>10

LEMMA WriteBlockSound ==
    ASSUME Types, Types', NEW S, Sound(S), WriteBlock, UNCHANGED open
    PROVE  Sound(S)'
<1>0. PICK l \in Lowest(op.todo) :
        /\ At({"write"}, "next")
        /\ \/ /\ op.copy.blk[l] # NoBlk
              /\ op' = [op EXCEPT !.blk = op.copy.blk[l], !.pc = "data"]
              /\ UNCHANGED <<disk, free>>
           \/ op.copy.blk[l] = NoBlk /\ FreeBlks # {} /\ AllocBlock("data")
           \/ op.copy.blk[l] = NoBlk /\ FreeBlks = {} /\ Done /\ UNCHANGED <<disk, free>>
  BY DEF WriteBlock
<1>1. /\ op.pc = "next" /\ op.kind = "write" /\ op.ino \in Ino /\ op \in OpType
      /\ op.copy \in InodeType /\ l \in Logical
  BY <1>0 DEF At, Types, OpOK, OpType, Lowest
<1>2. /\ op.copy.type = "FILE" /\ inode[op.ino].type = "FILE"
      /\ op.copy.nlink = inode[op.ino].nlink
      /\ Blocks(op.copy) \subseteq bbit /\ \A b \in Blocks(op.copy) : content[b] = {}
      /\ \A i \in S \ {op.ino} : Blocks(op.copy) \cap Blocks(inode[i]) = {}
      /\ \A k, m \in Logical :
           k # m /\ op.copy.blk[k] = op.copy.blk[m] => op.copy.blk[k] = NoBlk
  BY <1>1 DEF Sound, Extending
<1>3. CASE /\ op.copy.blk[l] # NoBlk /\ UNCHANGED disk
           /\ op' = [op EXCEPT !.blk = op.copy.blk[l], !.pc = "data"]
  <2>1. /\ op'.pc = "data" /\ op'.kind = "write" /\ op'.ino = op.ino /\ op'.dir = op.dir
        /\ op'.copy = op.copy /\ op'.todo = op.todo /\ op'.blk = op.copy.blk[l]
    BY <1>1, <1>3 DEF OpType
  <2>2. Reached(S)' /\ Tree(S)'
    BY <1>1, <1>3, <2>1, GoOn
  <2>3. op'.blk \in Blocks(op.copy)
    BY <1>1, <1>3, <2>1 DEF Blocks
  <2>4. \A m \in Logical : op.copy.blk[m] = op'.blk => m \in Lowest(op.todo)
    BY <1>0, <1>1, <1>2, <1>3, <2>1
  <2>5. inode' = inode /\ bbit' = bbit /\ content' = content
    BY <1>3 DEF disk
  <2>6. \A i \in S \ {op.ino} : op'.blk \notin Blocks(inode[i])
    BY <1>2, <2>3
  <2>7. Extending(S)'
    BY <1>2, <2>1, <2>3, <2>4, <2>5, <2>6 DEF Extending, Lowest
  <2> QED
    BY <2>1, <2>2, <2>7, AtWriting
<1>4. CASE AllocBlock("data")
  <2>1. /\ op'.pc = "data" /\ op'.kind = "write" /\ op'.ino = op.ino /\ op'.dir = op.dir
        /\ op'.copy = op.copy /\ op'.todo = op.todo /\ op'.blk \notin bbit
        /\ Reached(S)' /\ Tree(S)' /\ Unowned(S, op.blk)' /\ bbit \subseteq bbit'
        /\ inode' = inode /\ content' = content
    BY <1>1, <1>4, AllocBlockSound
  <2>2. op'.blk \in bbit' /\ \A i \in S : op'.blk \notin Blocks(inode[i])
    BY <2>1 DEF Unowned
  <2>3. op'.blk # NoBlk
    BY <2>2, ConstantTypes DEF Types, TypeOK
  <2>4. ASSUME NEW m \in Logical PROVE op.copy.blk[m] # op'.blk
    BY <1>2, <2>1, <2>3, <2>4 DEF Blocks
  <2>5. Extending(S)'
    BY <1>2, <2>1, <2>2, <2>4 DEF Extending
  <2> QED
    BY <2>1, <2>5, AtWriting
<1>5. CASE Done /\ UNCHANGED disk
  BY <1>1, <1>5, DoneStep DEF Sound, Reached
<1> QED
  BY <1>0, <1>3, <1>4, <1>5

LEMMA WriteDataSound ==
    ASSUME Types, Types', NEW S, Sound(S), WriteData, UNCHANGED open
    PROVE  Sound(S)'
<1>0. PICK l \in Lowest(op.todo) :
        op' = [op EXCEPT !.copy.blk[l] = op.blk, !.todo = @ \ {l}, !.pc = "next"]
  BY DEF WriteData
<1>1. /\ op.pc = "data" /\ op.kind = "write" /\ op.ino \in Ino /\ op \in OpType
      /\ op.copy \in InodeType /\ l \in Logical /\ op.blk \in Block
      /\ content' = [content EXCEPT ![op.blk] = {}] /\ UNCHANGED <<ibit, bbit, inode>>
  BY <1>0 DEF WriteData, At, Types, OpOK, OpType, Lowest
<1>2. /\ op.copy.type = "FILE" /\ inode[op.ino].type = "FILE"
      /\ op.copy.nlink = inode[op.ino].nlink
      /\ Blocks(op.copy) \subseteq bbit /\ \A b \in Blocks(op.copy) : content[b] = {}
      /\ \A i \in S \ {op.ino} : Blocks(op.copy) \cap Blocks(inode[i]) = {}
      /\ \A k, m \in Logical :
           k # m /\ op.copy.blk[k] = op.copy.blk[m] => op.copy.blk[k] = NoBlk
  BY <1>1 DEF Sound, Extending
<1>3. /\ op.blk \in bbit /\ \A i \in S \ {op.ino} : op.blk \notin Blocks(inode[i])
      /\ \A m \in Logical : op.copy.blk[m] = op.blk => m \in Lowest(op.todo)
  BY <1>1 DEF Sound, Extending
<1>4. /\ op'.pc = "next" /\ op'.kind = "write" /\ op'.ino = op.ino /\ op'.dir = op.dir
  BY <1>0, <1>1 DEF OpType
<1>5. /\ op'.copy.type = op.copy.type /\ op'.copy.nlink = op.copy.nlink
      /\ op'.copy.blk = [op.copy.blk EXCEPT ![l] = op.blk]
  BY <1>0, <1>1 DEF OpType, InodeType
<1>6. \A m \in Logical : op'.copy.blk[m] = IF m = l THEN op.blk ELSE op.copy.blk[m]
  BY <1>1, <1>5 DEF InodeType
<1>7. op.blk \notin DirBlocks
  BY <1>2, <1>3 DEF DirBlocks, Dirs, Sound, Reached
<1>8. Reached(S)' /\ Tree(S)'
  BY <1>1, <1>4, <1>7, UnlistedContent
<1>9. Blocks(op.copy)' \subseteq Blocks(op.copy) \cup {op.blk}
  BY <1>6 DEF Blocks
<1>10. \A b \in Blocks(op.copy)' : content'[b] = {}
  <2>1. Blocks(op.copy) \subseteq Block
    BY <1>1, BlocksIn
  <2>2. \A b \in Block : content'[b] = IF b = op.blk THEN {} ELSE content[b]
    BY <1>1 DEF Types, TypeOK
  <2> QED
    BY <1>1, <1>2, <1>9, <2>1, <2>2
<1>11. ASSUME NEW k \in Logical, NEW m \in Logical, k # m, op'.copy.blk[k] = op'.copy.blk[m]
       PROVE  op'.copy.blk[k] = NoBlk
  <2>1. \A j \in Logical : j # l => op.copy.blk[j] # op.blk
    BY <1>0, <1>1, <1>3, ConstantTypes DEF Lowest, Logical
  <2> QED
    BY <1>1, <1>2, <1>6, <1>11, <2>1
<1>12. Extending(S)'
  BY <1>1, <1>2, <1>3, <1>4, <1>5, <1>9, <1>10, <1>11 DEF Extending
<1> QED
  BY <1>4, <1>8, <1>12, AtWriting

LEMMA WriteEndSound ==
    ASSUME Types, Types', NEW S, Sound(S), WriteEnd, UNCHANGED open
    PROVE  Sound(S)'
<1>n. PICK n \in Ino : n = op.ino
  BY DEF WriteEnd, At, Types, OpOK
<1>0. /\ op.pc = "next" /\ n \in S /\ op.dir \in S /\ op.copy \in InodeType
      /\ inode' = [inode EXCEPT ![n] = op.copy] /\ UNCHANGED <<ibit, bbit, content>>
  BY <1>n, ConstantTypes DEF WriteEnd, At, Types, OpOK, OpType, Sound, Reached
<1>1. op'.pc = "sync" /\ op'.ino = n /\ op'.dir = op.dir
  BY <1>n, GotoTypes DEF WriteEnd, Points
<1>2. /\ op.copy.type = "FILE" /\ inode[n].type = "FILE" /\ op.copy.nlink = inode[n].nlink
      /\ OwnBlocks(S, n, op.copy)
  BY <1>n, <1>0 DEF Sound, Extending, OwnBlocks
<1>3. n # RootIno
  BY <1>2 DEF Sound, Reached
<1>4. op'.ino \in S \cup {0} /\ op'.dir \in S
  BY <1>0, <1>1
<1>5. Reached(S)' /\ Tree(S)'
  BY <1>0, <1>2, <1>3, <1>4, InodeWritten
<1> QED
  BY <1>1, <1>5, Rest DEF Resting, InDir

LEMMA UnlinkEntrySound ==
    ASSUME Types, Types', NEW S, Sound(S), UnlinkEntry, UNCHANGED open
    PROVE  Sound(S)'
<1>0. /\ op.pc = "begin" /\ op.kind = "unlink" /\ op \in OpType /\ op.dir \in Dirs
      /\ op.dir \in S /\ S \subseteq Ino /\ UNCHANGED <<ibit, bbit, inode>>
  BY DEF UnlinkEntry, At, Types, OpOK, Sound, InDir, DirKinds, Reached
<1>1. CASE Done /\ UNCHANGED content
  BY <1>0, <1>1, DoneStep DEF Sound, Reached, disk
<1>2. ASSUME NEW e, NEW b \in Blocks(inode[op.dir]), e \in content[b],
             content' = [content EXCEPT ![b] = @ \ {e}],
             op' = [op EXCEPT !.ino = e.ino, !.pc = "child"]
      PROVE  Sound(S)'
  <2>0. b \in Block /\ Listing[b] = content[b] /\ b \in DirBlocks
    BY <1>0, <1>2, EntriesListed DEF Types, DirBlocks
  <2>1. content \in [Block -> SUBSET [name : Name, ino : Ino]]
    BY DEF Types, TypeOK
  <2>2. e = [name |-> e.name, ino |-> e.ino] /\ e.name \in Name /\ e.ino \in Ino
    BY <1>2, <2>0, <2>1
  <2>3. e.ino \in S /\ e.ino \in ibit
    BY <1>2, <2>0 DEF Sound, Reached
  <2>4. /\ op'.pc = "child" /\ op'.kind = "unlink" /\ op'.ino = e.ino /\ op'.dir = op.dir
    BY <1>0, <1>2 DEF OpType
  <2>5. Dirs' = Dirs /\ DirBlocks' = DirBlocks
    BY <1>0 DEF Dirs, DirBlocks
  <2>6. \A a \in Block : content'[a] = IF a = b THEN content[b] \ {e} ELSE content[a]
    BY <1>2, <2>0, <2>1
  <2>7. \A a \in Block : Listing'[a] = IF a = b THEN Listing[b] \ {e} ELSE Listing[a]
    BY <2>0, <2>5, <2>6 DEF Listing
  <2>8. LinkCounts'
    BY <1>0, <2>7, ListedLess
  <2>9. Reached(S)'
    BY <1>0, <2>3, <2>4, <2>5, <2>7 DEF Sound, Reached
  <2>10. Marked(S)' /\ Apart(S)' /\ Removed'
    BY <1>0, <2>4 DEF Sound, Tree, Marked, Apart, Removed
  <2>11. Plain(S)'
    <3>1. ASSUME NEW i \in S \ Dirs, NEW a \in Blocks(inode[i]) PROVE content'[a] = {}
      BY <1>0, <2>6, <3>1, InodesOf DEF Sound, Tree, Plain, Types
    <3> QED
      BY <1>0, <2>5, <3>1 DEF Plain
  <2>12. <<b, e.name>> \in Refs(e.ino) /\ Refs(e.ino)' = Refs(e.ino) \ {<<b, e.name>>}
    <3>1. <<b, e.name>> \in Refs(e.ino)
      BY <1>2, <2>0, <2>2 DEF Refs
    <3>2. ASSUME NEW r \in Block \X Name
          PROVE  r \in Refs(e.ino)' <=> r \in Refs(e.ino) /\ r # <<b, e.name>>
      <4>1. r = <<r[1], r[2]>> /\ r[1] \in Block /\ r[2] \in Name
        BY <3>2
      <4>2. [name |-> r[2], ino |-> e.ino] = e <=> r[2] = e.name
        BY <2>2
      <4>3. [name |-> r[2], ino |-> e.ino] \in Listing'[r[1]] <=>
              /\ [name |-> r[2], ino |-> e.ino] \in Listing[r[1]]
              /\ ~(r[1] = b /\ r[2] = e.name)
        BY <2>7, <4>1, <4>2
      <4>4. r # <<b, e.name>> <=> ~(r[1] = b /\ r[2] = e.name)
        BY <4>1
      <4> QED
        BY <4>3, <4>4 DEF Refs
    <3> QED
      BY <3>1, <3>2 DEF Refs
  <2>13. /\ inode[e.ino].type = "DIR" => Refs(e.ino)' = {}
         /\ inode[e.ino].type = "FILE" => Cardinality(Refs(e.ino)') + 1 <= inode[e.ino].nlink
    <3>1. /\ inode[e.ino].type = "DIR" => \A r, t \in Refs(e.ino) : r = t
          /\ inode[e.ino].type = "FILE" => Cardinality(Refs(e.ino)) <= inode[e.ino].nlink + 0
      BY <1>0, <2>2 DEF Sound, Tree, LinkCounts, Uncounted
    <3>2. Cardinality(Refs(e.ino)') = Cardinality(Refs(e.ino)) - 1
      BY <2>12, RefsFinite, FS_RemoveElement
    <3>3. inode[e.ino].nlink \in Nat /\ Cardinality(Refs(e.ino)) \in Nat
      BY <2>2, RefsFinite DEF Types, TypeOK
    <3>4. inode[e.ino].type = "DIR" => Refs(e.ino)' = {}
      BY <2>12, <3>1
    <3>5. inode[e.ino].type = "FILE" => Cardinality(Refs(e.ino)') + 1 <= inode[e.ino].nlink
      BY <3>1, <3>2, <3>3
    <3> QED
      BY <3>4, <3>5
  <2>14. Refs(op.ino)' = Refs(e.ino)'
    BY <2>4 DEF Refs
  <2>15. Dropping'
    BY <1>0, <2>3, <2>4, <2>13, <2>14 DEF Dropping
  <2>16. InDir'
    BY <1>0, <2>4, <2>5 DEF InDir
  <2> QED
    BY <2>4, <2>8, <2>9, <2>10, <2>11, <2>15, <2>16, AtDropping DEF Tree
<1> QED
  BY <1>1, <1>2 DEF UnlinkEntry

\* Where a call goes on once its entry is there.
LEMMA AddedOp ==
    ASSUME Types, op.pc \in Adding, Added
    PROVE  \/ op' = Idle /\ op.kind = "readd"
           \/ /\ op'.kind = op.kind /\ op'.ino = op.ino /\ op'.dir = op.dir
              /\ \/ op.kind = "create" /\ op'.pc = "vnode"
                 \/ op.kind = "mkdir" /\ op'.pc = "nlink"
                 \/ op.kind = "link" /\ op'.pc = "bump"
<1>1. op.kind \in {"create", "mkdir", "link", "readd"}
  BY DEF Types, OpOK
<1>2. CASE op.kind = "readd"
  BY <1>2 DEF Added, AfterAdd, Done
<1>3. CASE op.kind # "readd"
  <2>1. /\ Goto(AfterAdd)
        /\ AfterAdd = IF op.kind = "create" THEN "vnode"
                      ELSE IF op.kind = "mkdir" THEN "nlink" ELSE "bump"
    BY <1>1, <1>3 DEF Added, AfterAdd
  <2>2. AfterAdd \in Points
    BY <2>1 DEF Points
  <2>3. op'.pc = AfterAdd /\ op'.kind = op.kind /\ op'.ino = op.ino /\ op'.dir = op.dir
    BY <2>1, <2>2, GotoTypes
  <2> QED
    BY <1>1, <1>3, <2>1, <2>3
<1> QED
  BY <1>2, <1>3

\* An entry for the inode of the call appears in a directory.
LEMMA EntryAdded ==
    ASSUME Types, Types', NEW S, Sound(S), op.pc \in Adding, Added, NEW b \in Block,
           \A a \in Block :
             Listing'[a] \subseteq Listing[a] \cup (IF a = b THEN {NewEntry} ELSE {}),
           UNCHANGED <<ibit, open>>, Dirs' = Dirs,
           \A i \in Ino : inode'[i].type = inode[i].type /\ inode'[i].nlink = inode[i].nlink,
           Marked(S)', Apart(S)', Removed', Plain(S)'
    PROVE  Sound(S)'
<1>n. PICK n \in Ino : n = op.ino
  BY DEF Types, OpOK, Adding
<1>0. /\ op.pc # "bump" /\ op.kind \in {"create", "mkdir", "link", "readd"} /\ op.name \in Name
      /\ S \subseteq Ino /\ op.dir \in Dirs /\ op.dir \in S /\ n \in S /\ RootIno \in S
  BY <1>n, ConstantTypes DEF Types, OpOK, Adding, DirKinds, Sound, Reached, InDir
<1>1. /\ n \in ibit
      /\ op.kind = "create" => inode[n].type = "FILE" /\ inode[n].nlink = 1 /\ Refs(n) = {}
      /\ op.kind \in {"mkdir", "readd"} => inode[n].type = "DIR" /\ Refs(n) = {}
      /\ op.kind = "link" => inode[n].type = "FILE"
  BY <1>n, <1>0 DEF Sound, Fresh, Linking, Readding
<1>2. NewEntry = [name |-> op.name, ino |-> n]
  BY <1>n DEF NewEntry
<1>3. \/ op'.pc = "idle" /\ op'.ino = 0 /\ op'.dir = RootIno /\ op.kind = "readd"
      \/ /\ op'.kind = op.kind /\ op'.ino = n /\ op'.dir = op.dir
         /\ \/ op.kind = "create" /\ op'.pc = "vnode"
            \/ op.kind = "mkdir" /\ op'.pc = "nlink"
            \/ op.kind = "link" /\ op'.pc = "bump"
  BY <1>n, AddedOp, IdleTypes
<1>4. Reached(S)'
  <2>1. \A a \in Block : \A e \in Listing'[a] : e \in Listing[a] \/ e.ino = n
    BY <1>2
  <2>2. inode'[RootIno].type = "DIR"
    BY ConstantTypes DEF Sound, Reached
  <2> QED
    BY <1>0, <1>1, <1>3, <2>1, <2>2 DEF Sound, Reached
<1>5. Refs(n)' \subseteq Refs(n) \cup {<<b, op.name>>}
  <2>1. ASSUME NEW r \in Block \X Name, [name |-> r[2], ino |-> n] \in Listing'[r[1]],
               r # <<b, op.name>>
        PROVE  [name |-> r[2], ino |-> n] \in Listing[r[1]]
    <3>1. r = <<r[1], r[2]>> /\ r[1] \in Block
      BY <2>1
    <3>2. [name |-> r[2], ino |-> n] = NewEntry => r[2] = op.name
      BY <1>2
    <3> QED
      BY <2>1, <3>1, <3>2
  <2> QED
    BY <2>1 DEF Refs
<1>6. ASSUME NEW x, x # n PROVE Refs(x)' \subseteq Refs(x)
  BY <1>2, <1>6 DEF Refs
<1>7. LinkCounts'
  <2>1. ASSUME NEW x \in Ino
        PROVE  /\ inode[x].type = "DIR" => \A r, t \in Refs(x) : r = t
               /\ inode[x].type = "FILE" => Cardinality(Refs(x)) <= inode[x].nlink + 0
    BY <1>0, <2>1 DEF Sound, Tree, LinkCounts, Uncounted
  <2>2. ASSUME NEW x \in Ino
        PROVE  /\ inode[x].nlink \in Nat /\ Cardinality(Refs(x)) \in Nat
               /\ IsFiniteSet(Refs(x)) /\ Uncounted(x)' \in {0, 1}
    BY <2>2, RefsFinite DEF Types, TypeOK, Uncounted
  <2>3. ASSUME NEW x \in Ino, x # n
        PROVE  /\ inode[x].type = "DIR" => \A r, t \in Refs(x)' : r = t
               /\ inode[x].type = "FILE" =>
                    Cardinality(Refs(x)') <= inode[x].nlink + Uncounted(x)'
    <3>1. Refs(x)' \subseteq Refs(x)
      BY <1>6, <2>3
    <3>2. Cardinality(Refs(x)') <= Cardinality(Refs(x)) /\ Cardinality(Refs(x)') \in Nat
      BY <2>2, <3>1, FS_Subset, FS_CardinalityType
    <3>3. inode[x].type = "DIR" => \A r, t \in Refs(x)' : r = t
      BY <2>1, <3>1
    <3>4. inode[x].type = "FILE" => Cardinality(Refs(x)') <= inode[x].nlink + Uncounted(x)'
      BY <2>1, <2>2, <3>2
    <3> QED
      BY <3>3, <3>4
  <2>4. /\ inode[n].type = "DIR" => \A r, t \in Refs(n)' : r = t
        /\ inode[n].type = "FILE" => Cardinality(Refs(n)') <= inode[n].nlink + Uncounted(n)'
    <3>1. CASE op.kind \in {"mkdir", "readd"}
      <4>1. Refs(n)' \subseteq {<<b, op.name>>}
        BY <1>1, <1>5, <3>1
      <4> QED
        BY <1>1, <3>1, <4>1
    <3>2. CASE op.kind \in {"create", "link"}
      <4>1. /\ IsFiniteSet(Refs(n) \cup {<<b, op.name>>})
            /\ Cardinality(Refs(n) \cup {<<b, op.name>>}) <= Cardinality(Refs(n)) + 1
        <5>1. /\ IsFiniteSet(Refs(n) \cup {<<b, op.name>>})
              /\ Cardinality(Refs(n) \cup {<<b, op.name>>}) \in
                   {Cardinality(Refs(n)), Cardinality(Refs(n)) + 1}
          BY RefsFinite, FS_AddElement
        <5> QED
          BY <2>2, <5>1
      <4>2. Cardinality(Refs(n)') <= Cardinality(Refs(n) \cup {<<b, op.name>>})
            /\ IsFiniteSet(Refs(n)')
        BY <1>5, <4>1, FS_Subset
      <4>3. /\ Cardinality(Refs(n)') \in Nat
            /\ Cardinality(Refs(n) \cup {<<b, op.name>>}) \in Nat
        BY <4>1, <4>2, FS_CardinalityType
      <4>4. Cardinality(Refs(n)') <= Cardinality(Refs(n)) + 1
        BY <2>2, <4>1, <4>2, <4>3
      <4>5. CASE op.kind = "create"
        <5>1. Cardinality(Refs(n)) = 0
          BY <1>1, <4>5, FS_EmptySet
        <5> QED
          BY <1>1, <2>2, <4>3, <4>4, <4>5, <5>1
      <4>6. CASE op.kind = "link"
        <5>1. Uncounted(n)' = 1
          BY <1>3, <4>6 DEF Uncounted
        <5> QED
          BY <1>1, <2>1, <2>2, <4>3, <4>4, <4>6, <5>1
      <4> QED
        BY <3>2, <4>5, <4>6
    <3> QED
      BY <1>0, <3>1, <3>2
  <2> QED
    BY <2>3, <2>4 DEF LinkCounts
<1>8. Tree(S)'
  BY <1>7 DEF Tree
<1>9. CASE op'.pc \in Resting
  BY <1>0, <1>3, <1>4, <1>8, <1>9, Rest DEF InDir
<1>10. CASE op'.pc = "bump"
  <2>1. Linking' /\ InDir'
    BY <1>0, <1>1, <1>3, <1>10 DEF Linking, InDir
  <2> QED
    BY <1>4, <1>8, <1>10, <2>1, AtBump
<1> QED
  BY <1>3, <1>9, <1>10 DEF Resting

LEMMA AddEntrySound ==
    ASSUME Types, Types', NEW S, Sound(S), AddEntry, UNCHANGED open
    PROVE  Sound(S)'
<1>0. /\ op.pc = "add" /\ op.pc \in Adding /\ op.kind \in {"create", "mkdir", "link", "readd"}
      /\ op.dir \in Dirs /\ S \subseteq Ino
  BY DEF AddEntry, Types, OpOK, Adding, Sound, InDir, DirKinds, Reached
<1>1. CASE AddFailed /\ UNCHANGED disk
  BY <1>0, <1>1, AddFailedSound
<1>2. CASE AllocBlock("extend")
  <2>1. /\ op'.pc = "extend" /\ op'.kind = op.kind /\ op'.dir = op.dir /\ op'.ino = op.ino
        /\ Reached(S)' /\ Tree(S)' /\ Dirs' = Dirs /\ Unowned(S, op.blk)'
        /\ UNCHANGED <<ibit, inode, content>> /\ \A x : Refs(x)' = Refs(x)
    BY <1>0, <1>2, AllocBlockSound
  <2>2. Refs(op.ino)' = Refs(op.ino)
    BY <2>1 DEF Refs
  <2>3. Fresh' /\ Linking' /\ Readding'
    BY <1>0, <2>1, <2>2 DEF Sound, Fresh, Linking, Readding, Adding
  <2>4. InDir' /\ NewBlock(S)'
    BY <1>0, <2>1 DEF InDir, NewBlock
  <2> QED
    BY <2>1, <2>3, <2>4, AtAdding DEF Adding
<1>3. ASSUME NEW b \in Blocks(inode[op.dir]), Added, UNCHANGED <<ibit, bbit, inode>>,
             content' = [content EXCEPT ![b] = @ \cup {NewEntry}]
      PROVE  Sound(S)'
  <2>1. b \in Block /\ Listing[b] = content[b] /\ b \in DirBlocks
    BY <1>0, <1>3, EntriesListed DEF Types, DirBlocks
  <2>2. Dirs' = Dirs /\ DirBlocks' = DirBlocks
    BY <1>3 DEF Dirs, DirBlocks
  <2>3. \A a \in Block : content'[a] = IF a = b THEN content[b] \cup {NewEntry} ELSE content[a]
    BY <1>3, <2>1 DEF Types, TypeOK
  <2>4. ASSUME NEW a \in Block
        PROVE  Listing'[a] \subseteq Listing[a] \cup (IF a = b THEN {NewEntry} ELSE {})
    BY <2>1, <2>2, <2>3, <2>4 DEF Listing
  <2>5. op'.pc # "free"
    BY <1>0, <1>3, AddedOp, IdleTypes
  <2>6. Marked(S)' /\ Apart(S)' /\ Removed'
    BY <1>0, <1>3, <2>5 DEF Sound, Tree, Marked, Apart, Removed
  <2>7. Plain(S)'
    <3>1. ASSUME NEW i \in S \ Dirs, NEW a \in Blocks(inode[i]) PROVE content'[a] = {}
      <4>1. content[a] = {} /\ a \in Block
        BY <1>0, <3>1, InodesOf DEF Sound, Tree, Plain, Types
      <4>2. Blocks(inode[i]) \cap Blocks(inode[op.dir]) = {}
        BY <1>0, <3>1 DEF Sound, Tree, Apart, Reached
      <4>3. a # b
        BY <1>3, <3>1, <4>2
      <4> QED
        BY <2>3, <4>1, <4>3
    <3> QED
      BY <1>3, <2>2, <3>1 DEF Plain
  <2>8. /\ ibit' = ibit
        /\ \A i \in Ino : inode'[i].type = inode[i].type /\ inode'[i].nlink = inode[i].nlink
    BY <1>3
  <2> QED
    BY <1>0, <1>3, <2>1, <2>2, <2>4, <2>6, <2>7, <2>8, EntryAdded
<1> QED
  BY <1>0, <1>1, <1>2, <1>3 DEF AddEntry, Lowest, Room, disk

LEMMA ExtendedSound ==
    ASSUME Types, Types', NEW S, Sound(S), Extended, UNCHANGED open
    PROVE  Sound(S)'
<1> DEFINE gaps == {l \in Logical : \A m \in Logical : m >= l => inode[op.dir].blk[m] = NoBlk}
<1>d. PICK d \in Ino : d = op.dir
  BY DEF Types, OpOK, OpType
<1>b. PICK b \in Block : b = op.blk
  BY DEF Extended, Types, OpOK
<1>0. /\ op.pc = "extended" /\ op.pc \in Adding /\ op.kind \in DirKinds /\ d \in Dirs
      /\ S \subseteq Ino /\ d \in S /\ UNCHANGED <<ibit, bbit, content>>
  BY <1>d DEF Extended, Types, OpOK, Adding, Sound, InDir, DirKinds, Reached
<1>1. content[b] = {NewEntry} /\ b \in bbit /\ \A i \in S : b \notin Blocks(inode[i])
  BY <1>b, <1>0 DEF Sound, NewBlock, Unowned
<1>2. CASE AddFailed /\ UNCHANGED inode
  BY <1>0, <1>2, AddFailedSound DEF disk
<1>3. ASSUME NEW l \in gaps, inode' = [inode EXCEPT ![d].blk[l] = b], Added
      PROVE  Sound(S)'
  <2>1. l \in Logical /\ inode[d].blk[l] = NoBlk
    BY <1>d, <1>3, ConstantTypes DEF Logical
  <2>2. inode \in [Ino -> InodeType]
    BY DEF Types, TypeOK, InodeType
  <2>3. \A i \in Ino : /\ i # d => inode'[i] = inode[i]
                       /\ inode'[i].type = inode[i].type /\ inode'[i].nlink = inode[i].nlink
    BY <1>3, <2>2 DEF InodeType
  <2>4. inode'[d].blk = [inode[d].blk EXCEPT ![l] = b]
    BY <1>3, <2>2 DEF InodeType
  <2>5. Blocks(inode'[d]) = Blocks(inode[d]) \cup {b}
    BY <2>1, <2>2, <2>4, BlocksOneMore
  <2>6. \A i \in Ino : Blocks(inode'[i]) = Blocks(inode[i]) \cup (IF i = d THEN {b} ELSE {})
    BY <2>3, <2>5
  <2>7. Dirs' = Dirs /\ Dirs \subseteq Ino
    BY <1>0, <2>3 DEF Dirs, Types, TypeOK
  <2>8. DirBlocks' = DirBlocks \cup {b}
    BY <1>0, <2>6, <2>7 DEF DirBlocks
  <2>9. ASSUME NEW a \in Block
        PROVE  Listing'[a] \subseteq Listing[a] \cup (IF a = b THEN {NewEntry} ELSE {})
    BY <1>0, <1>1, <2>8, <2>9 DEF Listing
  <2>10. op'.pc # "free"
    BY <1>0, <1>3, AddedOp, IdleTypes
  <2>11. Marked(S)'
    BY <1>0, <1>1, <2>6, <2>10 DEF Sound, Tree, Marked
  <2>12. Apart(S)'
    <3>1. ASSUME NEW i \in S, NEW j \in S, i # j
          PROVE  Blocks(inode'[i]) \cap Blocks(inode'[j]) = {}
      <4>1. Blocks(inode[i]) \cap Blocks(inode[j]) = {}
        BY <3>1 DEF Sound, Tree, Apart
      <4> QED
        BY <1>0, <1>1, <2>6, <3>1, <4>1
    <3>2. ASSUME NEW i \in S, NEW k \in Logical, NEW m \in Logical,
                 k # m, inode'[i].blk[k] = inode'[i].blk[m]
          PROVE  inode'[i].blk[k] = NoBlk
      <4>1. inode[i].blk[k] = inode[i].blk[m] => inode[i].blk[k] = NoBlk
        BY <3>2 DEF Sound, Tree, Apart
      <4>2. CASE i # d
        BY <1>0, <2>3, <3>2, <4>1, <4>2
      <4>3. CASE i = d
        <5>1. inode[d].blk \in [Logical -> Block \cup {NoBlk}]
          BY <2>2 DEF InodeType
        <5>2. /\ inode'[d].blk[k] = IF k = l THEN b ELSE inode[d].blk[k]
              /\ inode'[d].blk[m] = IF m = l THEN b ELSE inode[d].blk[m]
          BY <2>4, <5>1
        <5>3. inode[d].blk[k] # b /\ inode[d].blk[m] # b
          BY <1>0, <1>1, ConstantTypes DEF Blocks
        <5> QED
          BY <3>2, <4>1, <4>3, <5>2, <5>3
      <4> QED
        BY <4>2, <4>3
    <3> QED
      BY <3>1, <3>2 DEF Apart
  <2>13. Removed'
    <3>1. d \in ibit
      BY <1>0 DEF Dirs
    <3> QED
      BY <1>0, <2>3, <3>1 DEF Sound, Tree, Removed
  <2>14. Plain(S)'
    BY <1>0, <2>3, <2>7 DEF Sound, Tree, Plain
  <2>15. ibit' = ibit
    BY <1>0
  <2> QED
    BY <1>0, <1>3, <2>3, <2>7, <2>9, <2>11, <2>12, <2>13, <2>14, <2>15, EntryAdded
<1> QED
  BY <1>d, <1>b, <1>2, <1>3 DEF Extended, Lowest

\* A power cut.  A file whose blocks were being freed has no name left: it is
\* not met again, but in the bitmap.
LEMMA PowerCutSound ==
    ASSUME Types, Types', NEW S, Sound(S), PowerCut, hurt' = {}
    PROVE  \E T \in SUBSET Ino : Sound(T)'
<1>t. PICK T : T = IF op.pc = "free" THEN S \ {op.ino} ELSE S
  OBVIOUS
<1>0. /\ op' = Idle /\ open' = {RootVnode} /\ inode' = inode /\ ibit' = ibit /\ bbit' = bbit
      /\ content' = content /\ S \subseteq Ino
  BY DEF PowerCut, disk, Sound, Reached
<1>1. /\ op.pc # "bump"
      /\ op.pc = "free" => op.kind = "unlink" /\ op.copy.type # "DIR"
  BY DEF PowerCut, At, Types, OpOK
<1>2. /\ op'.pc = "idle" /\ op'.ino = 0 /\ op'.dir = RootIno
  BY <1>0, IdleTypes
<1>3. ASSUME op.pc = "free"
      PROVE  /\ op.ino \in ibit /\ op.ino # RootIno /\ op.ino \notin Dirs
             /\ Refs(op.ino) = {}
  BY <1>1, <1>3 DEF Sound, Dropping, Reached, Dirs
<1>4. Dirs' = Dirs /\ Listing' = Listing
  BY <1>0 DEF Dirs, DirBlocks, Listing
<1>5. T \subseteq S /\ RootIno \in T /\ Ino \ ibit \subseteq T /\ Dirs \subseteq T
  BY <1>t, <1>3 DEF Sound, Reached
<1>6. ASSUME NEW b \in Block, NEW e \in Listing[b] PROVE e.ino \in T /\ e.ino \in ibit
  <2>1. e.ino \in S /\ e.ino \in ibit
    BY <1>6 DEF Sound, Reached
  <2>2. e \in [name : Name, ino : Ino]
    BY <1>6 DEF Listing, Types, TypeOK
  <2>3. <<b, e.name>> \in Refs(e.ino)
    <3>1. e = [name |-> e.name, ino |-> e.ino] /\ e.name \in Name
      BY <2>2
    <3> QED
      BY <1>6, <3>1 DEF Refs
  <2> QED
    BY <1>t, <1>3, <2>1, <2>3
<1>7. \A i \in T : Blocks(inode[i]) \subseteq bbit
  BY <1>t DEF Sound, Tree, Marked
<1>8. Reached(T)'
  <2>1. RootVnode.ino = RootIno
    BY DEF RootVnode
  <2> QED
    BY <1>0, <1>2, <1>4, <1>5, <1>6, <2>1 DEF Sound, Reached
<1>9. Marked(T)' /\ Apart(T)' /\ Removed' /\ Plain(T)'
  BY <1>0, <1>4, <1>5, <1>7 DEF Sound, Tree, Marked, Apart, Removed, Plain
<1>10. LinkCounts'
  BY <1>0, <1>1, <1>4, ListedLess
<1>11. InDir'
  BY <1>2 DEF InDir
<1>12. Sound(T)'
  BY <1>2, <1>8, <1>9, <1>10, <1>11, Rest DEF Tree, Resting
<1> QED
  BY <1>0, <1>5, <1>12

-----------------------------------------------------------------------------
(* The free counts *)

\* What a step does to the bitmaps, it does to the counts.  No bit is set or
\* cleared twice.
BitSteps ==
  \/ UNCHANGED <<ibit, bbit, free>>
  \/ \E n \in Ino \ ibit : /\ ibit' = ibit \cup {n} /\ UNCHANGED bbit
                           /\ free' = [free EXCEPT !.inodes = @ - 1]
  \/ \E n \in ibit : /\ ibit' = ibit \ {n} /\ UNCHANGED bbit
                     /\ free' = [free EXCEPT !.inodes = @ + 1]
  \/ \E b \in Block \ bbit : /\ bbit' = bbit \cup {b} /\ UNCHANGED ibit
                             /\ free' = [free EXCEPT !.blocks = @ - 1]
  \/ \E b \in bbit : /\ bbit' = bbit \ {b} /\ UNCHANGED ibit
                     /\ free' = [free EXCEPT !.blocks = @ + 1]

LEMMA AllocBlockBits ==
    ASSUME NEW next, AllocBlock(next)
    PROVE  BitSteps
BY DEF AllocBlock, Lowest, FreeBlks, BitSteps

LEMMA BitsChange ==
    ASSUME Types, NEW S, Sound(S), [Next]_vars, ~PowerCut
    PROVE  BitSteps
<1>1. CASE AddEntry
  BY <1>1, AllocBlockBits DEF AddEntry, BitSteps, disk
<1>2. CASE Undo
  <2>1. op.pc = "undo" /\ op.kind \in {"create", "mkdir"}
    BY <1>2 DEF Undo, Types, OpOK
  <2>2. op.ino \in ibit /\ (op.blk # NoBlk /\ op.kind = "mkdir" => op.blk \in bbit)
    BY <2>1 DEF Sound, Fresh, NewBlock, Unowned
  <2> QED
    BY <1>2, <2>2 DEF Undo, FreeBlock, FreeInode, BitSteps
<1>3. CASE NewInode
  BY <1>3 DEF NewInode, AllocInode, Lowest, FreeInos, BitSteps, disk
<1>4. CASE MkdirBlock
  BY <1>4, AllocBlockBits DEF MkdirBlock, BitSteps, disk
<1>5. CASE FreeBlocks
  <2>1. op.todo \subseteq bbit
    BY <1>5 DEF FreeBlocks, Sound, Dropping
  <2> QED
    BY <1>5, <2>1 DEF FreeBlocks, Lowest, FreeBlock, BitSteps
<1>6. CASE UnlinkUnuse
  <2>1. op.ino \in ibit
    BY <1>6 DEF UnlinkUnuse, At, Sound, Dropping
  <2> QED
    BY <1>6, <2>1 DEF UnlinkUnuse, FreeInode, BitSteps
<1>7. CASE WriteBlock
  <2>1. AllocBlock("data") \/ UNCHANGED <<disk, free>>
    BY <1>7, ZenonT(30) DEF WriteBlock
  <2> QED
    BY <2>1, AllocBlockBits DEF BitSteps, disk
<1>8. CASE \/ Extend \/ Extended \/ MkdirFill \/ WriteInode \/ MkdirNlink
           \/ UnlinkEntry \/ UnlinkChild \/ UnlinkParent \/ UnlinkDrop \/ Truncate \/ Freed
  BY <1>8 DEF Extend, Extended, MkdirFill, WriteInode, MkdirNlink, UnlinkEntry, UnlinkChild,
       UnlinkParent, UnlinkDrop, Truncate, Freed, BitSteps, disk
<1>9. CASE WriteData \/ WriteEnd \/ Sync \/ CreateVnode \/ LinkProbe \/ LinkBump \/ WriteBegin
  <2>1. UNCHANGED <<ibit, bbit, free>>
    BY <1>9, ZenonT(30)
       DEF WriteData, WriteEnd, Sync, CreateVnode, LinkProbe, LinkBump, WriteBegin, disk
  <2> QED
    BY <2>1 DEF BitSteps
<1>10. CASE Call \/ Lookup \/ LookupStale \/ Release \/ UNCHANGED vars
  BY <1>10 DEF Call, Begin, Lookup, LookupStale, Release, vars, BitSteps, disk
<1> QED
  BY <1>1, <1>2, <1>3, <1>4, <1>5, <1>6, <1>7, <1>8, <1>9, <1>10
     DEF Next, AddStep, MakeStep, FreeStep, WriteStep

LEMMA CountsKept ==
    ASSUME Types, BitSteps, free = Counts(ibit, bbit)
    PROVE  free' = Counts(ibit', bbit')
<1>1. /\ IsFiniteSet(ibit) /\ Cardinality(ibit) \in Nat
      /\ IsFiniteSet(bbit) /\ Cardinality(bbit) \in Nat
  BY BitmapFinite DEF Types
<1>2. InoMax \in Nat /\ BlockMax \in Nat
  BY UfsAssumption
<1>3. free = [inodes |-> InoMax - Cardinality(ibit), blocks |-> BlockMax - Cardinality(bbit)]
  BY DEF Counts
<1>4. CASE UNCHANGED <<ibit, bbit, free>>
  BY <1>4
<1>5. ASSUME NEW n \in Ino \ ibit, ibit' = ibit \cup {n}, bbit' = bbit,
             free' = [free EXCEPT !.inodes = @ - 1]
      PROVE  free' = Counts(ibit', bbit')
  <2>1. Cardinality(ibit') = Cardinality(ibit) + 1
    BY <1>1, <1>5, FS_AddElement
  <2> QED
    BY <1>1, <1>2, <1>3, <1>5, <2>1 DEF Counts
<1>6. ASSUME NEW n \in ibit, ibit' = ibit \ {n}, bbit' = bbit,
             free' = [free EXCEPT !.inodes = @ + 1]
      PROVE  free' = Counts(ibit', bbit')
  <2>1. Cardinality(ibit') = Cardinality(ibit) - 1
    BY <1>1, <1>6, FS_RemoveElement
  <2> QED
    BY <1>1, <1>2, <1>3, <1>6, <2>1 DEF Counts
<1>7. ASSUME NEW b \in Block \ bbit, bbit' = bbit \cup {b}, ibit' = ibit,
             free' = [free EXCEPT !.blocks = @ - 1]
      PROVE  free' = Counts(ibit', bbit')
  <2>1. Cardinality(bbit') = Cardinality(bbit) + 1
    BY <1>1, <1>7, FS_AddElement
  <2> QED
    BY <1>1, <1>2, <1>3, <1>7, <2>1 DEF Counts
<1>8. ASSUME NEW b \in bbit, bbit' = bbit \ {b}, ibit' = ibit,
             free' = [free EXCEPT !.blocks = @ + 1]
      PROVE  free' = Counts(ibit', bbit')
  <2>1. Cardinality(bbit') = Cardinality(bbit) - 1
    BY <1>1, <1>8, FS_RemoveElement
  <2> QED
    BY <1>1, <1>2, <1>3, <1>8, <2>1 DEF Counts
<1> QED
  BY <1>4, <1>5, <1>6, <1>7, <1>8 DEF BitSteps

-----------------------------------------------------------------------------
(* The theorems *)

LEMMA InitSound == Init => IInv
<1> SUFFICES ASSUME Init PROVE IInv
  OBVIOUS
<1> DEFINE rootInode == [type |-> "DIR", nlink |-> 2, blk |-> [NoBlocks EXCEPT ![0] = RootBlock]]
<1>1. rootInode \in InodeType /\ rootInode.type = "DIR"
  BY ConstantTypes DEF InodeType
<1>2. \A l \in Logical : rootInode.blk[l] = IF l = 0 THEN RootBlock ELSE NoBlk
  BY DEF NoBlocks
<1>3. Blocks(rootInode) = {RootBlock}
  BY <1>2, ConstantTypes DEF Blocks
<1> HIDE DEF rootInode
<1>4. /\ inode = [i \in Ino |-> IF i # RootIno THEN BlankInode ELSE rootInode]
      /\ ibit = {RootIno} /\ bbit = {RootBlock} /\ content = [b \in Block |-> {}]
      /\ op = Idle /\ open = {RootVnode} /\ free = Counts(ibit, bbit) /\ sb = free
      /\ cuts = 0 /\ hurt = {}
  BY DEF Init, rootInode
<1>5. BlankInode.type = "FILE" /\ BlankInode.nlink = 0 /\ BlankInode.blk = NoBlocks
  BY DEF BlankInode
<1>6. Blocks(BlankInode) = {}
  BY <1>5, BlocksNone
<1>7. TypeOK
  BY <1>1, <1>4, ConstantTypes DEF TypeOK, InodeType, RootVnode
<1>8. OpOK
  BY <1>4, IdleTypes DEF OpOK, Adding, DirKinds
<1>9. Types
  <2>1. free \in [inodes : Int, blocks : Int]
    BY <1>4, <1>7, BitmapFinite, UfsAssumption DEF Counts
  <2> QED
    BY <1>4, <1>7, <1>8, <2>1 DEF Types
<1>10. Dirs = {RootIno} /\ RootIno \in Ino /\ RootBlock \in Block
  BY <1>1, <1>4, ConstantTypes DEF Dirs
<1>11. \A b \in Block : Listing[b] = {}
  BY <1>4 DEF Listing
<1>12. \A x : Refs(x) = {}
  BY <1>11 DEF Refs
<1>13. \A i \in Ino : inode[i] = IF i = RootIno THEN rootInode ELSE BlankInode
  BY <1>4
<1>14. Reached(Ino)
  <2>1. op.ino = 0 /\ op.dir = RootIno /\ RootVnode.ino = RootIno
    BY <1>4, IdleTypes DEF RootVnode
  <2> QED
    BY <1>1, <1>4, <1>10, <1>11, <1>13, <2>1 DEF Reached
<1>15. \A i \in Ino : Blocks(inode[i]) = IF i = RootIno THEN {RootBlock} ELSE {}
  BY <1>3, <1>6, <1>13
<1>16. Marked(Ino) /\ Removed /\ Plain(Ino)
  BY <1>4, <1>10, <1>15 DEF Marked, Removed, Plain
<1>17. Apart(Ino)
  <2>1. \A i \in Ino, l, m \in Logical :
          l # m /\ inode[i].blk[l] = inode[i].blk[m] => inode[i].blk[l] = NoBlk
    BY <1>2, <1>5, <1>13 DEF NoBlocks
  <2> QED
    BY <1>15, <2>1 DEF Apart
<1>18. LinkCounts
  <2>1. Cardinality({}) = 0
    BY FS_EmptySet
  <2>2. \A x \in Ino : inode[x].nlink \in Nat /\ Uncounted(x) \in {0, 1}
    BY <1>7 DEF TypeOK, Uncounted
  <2> QED
    BY <1>12, <2>1, <2>2 DEF LinkCounts
<1>19. Sound(Ino)
  <2>1. op.pc = "idle"
    BY <1>4, IdleTypes
  <2> QED
    BY <1>14, <1>16, <1>17, <1>18, <2>1
       DEF Sound, Tree, InDir, Fresh, NewBlock, Linking, Readding, Dropping, Extending, Adding
<1> QED
  BY <1>4, <1>9, <1>19 DEF IInv, FreeExact

\* Damage stays recorded, and only a power cut counts as one.
LEMMA HurtGrows ==
    ASSUME [Next]_vars
    PROVE  hurt \subseteq hurt' /\ (PowerCut \/ cuts' = cuts)
<1>1. CASE PowerCut
  BY <1>1 DEF PowerCut
<1>2. CASE (LinkProbe \/ LinkBump \/ WriteBegin) /\ UNCHANGED cuts
  <2>1. hurt' \in {hurt, hurt \cup {"stale"}, hurt \cup {"count"}}
    BY <1>2 DEF LinkProbe, LinkBump, WriteBegin
  <2> QED
    BY <1>2, <2>1
<1>3. CASE Call /\ UNCHANGED cuts
  <2>1. hurt' \in {hurt, hurt \cup {"stale"}}
    <3>1. ASSUME NEW kind, NEW v, NEW fields, Begin(kind, v, fields)
          PROVE  hurt' \in {hurt, hurt \cup {"stale"}}
      BY <3>1 DEF Begin
    <3> QED
      BY <1>3, <3>1 DEF Call
  <2> QED
    BY <1>3, <2>1
<1>4. CASE (Lookup \/ LookupStale \/ Release) /\ UNCHANGED cuts
  <2>1. hurt' \in {hurt, hurt \cup {"stale"}}
    BY <1>4 DEF Lookup, LookupStale, Release
  <2> QED
    BY <1>4, <2>1
<1> QED
  BY <1>1, <1>2, <1>3, <1>4 DEF Next, vars

\* Every step keeps the tree sound.
LEMMA SoundStep ==
    ASSUME Types, Types', NEW S, S \subseteq Ino, Sound(S), [Next]_vars, hurt' = {}
    PROVE  \E T \in SUBSET Ino : Sound(T)'
<1>1. CASE AddStep /\ UNCHANGED open
  BY <1>1, AddEntrySound, ExtendSound, ExtendedSound, UndoSound DEF AddStep
<1>2. CASE MakeStep /\ UNCHANGED open
  BY <1>2, NewInodeSound, MkdirBlockSound, MkdirFillSound, WriteInodeSound, BumpSound
     DEF MakeStep
<1>3. CASE FreeStep /\ UNCHANGED open
  BY <1>3, UnlinkEntrySound, UnlinkChildSound, UnlinkParentSound, UnlinkDropSound,
     TruncateSound, FreeBlocksSound, FreedSound, UnlinkUnuseSound DEF FreeStep
<1>4. CASE (WriteStep \/ Sync) /\ UNCHANGED open
  BY <1>4, WriteBlockSound, WriteDataSound, WriteEndSound, SyncSound DEF WriteStep
<1>5. CASE (LinkProbe \/ LinkBump \/ WriteBegin) /\ UNCHANGED open
  BY <1>5, LinkProbeSound, BumpSound, WriteBeginSound
<1>6. CASE CreateVnode
  BY <1>6, CreateVnodeSound
<1>7. CASE Call \/ Lookup \/ Release
  BY <1>7, CallSound, VnodesSound
<1>10. CASE LookupStale
  BY <1>10 DEF LookupStale
<1>8. CASE PowerCut
  BY <1>8, PowerCutSound
<1>9. CASE UNCHANGED vars
  <2>1. /\ ibit' = ibit /\ bbit' = bbit /\ inode' = inode /\ content' = content
        /\ open' = open /\ op' = op
    BY <1>9 DEF vars, disk
  <2>2. Dirs' = Dirs /\ Listing' = Listing
    BY <2>1 DEF Dirs, DirBlocks, Listing
  <2>3. \A x : Refs(x)' = Refs(x) /\ Uncounted(x)' = Uncounted(x)
    BY <2>1, <2>2 DEF Refs, Uncounted
  <2>4. Refs(op.ino)' = Refs(op.ino) /\ NewEntry' = NewEntry
    BY <2>1, <2>3 DEF Refs, NewEntry
  <2>5. Reached(S)' /\ InDir'
    BY <2>1, <2>2 DEF Sound, Reached, InDir
  <2>6. Tree(S)'
    BY <2>1, <2>2, <2>3 DEF Sound, Tree, Marked, Apart, LinkCounts, Removed, Plain
  <2>7. Fresh' /\ NewBlock(S)' /\ Linking' /\ Readding'
    BY <2>1, <2>4 DEF Sound, Fresh, NewBlock, Unowned, Linking, Readding
  <2>8. Dropping' /\ Extending(S)'
    BY <2>1, <2>4 DEF Sound, Dropping, Extending
  <2> QED
    BY <2>5, <2>6, <2>7, <2>8 DEF Sound
<1> QED
  BY <1>1, <1>2, <1>3, <1>4, <1>5, <1>6, <1>7, <1>8, <1>9, <1>10 DEF Next

LEMMA Inductive == IInv /\ [Next]_vars => IInv'
<1> SUFFICES ASSUME IInv, [Next]_vars PROVE IInv'
  OBVIOUS
<1>1. Types'
  BY TypeStep DEF IInv
<1>2. cuts' \in Nat /\ (cuts' = 0 => cuts = 0 /\ ~PowerCut)
  BY HurtGrows DEF IInv, PowerCut
<1>3. ASSUME hurt' = {} PROVE hurt = {} /\ \E S \in SUBSET Ino : Sound(S)
  BY <1>3, HurtGrows DEF IInv
<1>4. ASSUME hurt' = {} PROVE \E T \in SUBSET Ino : Sound(T)'
  BY <1>1, <1>3, <1>4, SoundStep DEF IInv
<1>5. ASSUME cuts' = 0, hurt' = {} PROVE free' = Counts(ibit', bbit')
  <2>1. PICK S \in SUBSET Ino : Sound(S)
    BY <1>3, <1>5
  <2>2. free = Counts(ibit, bbit)
    BY <1>2, <1>3, <1>5 DEF IInv, FreeExact
  <2>3. BitSteps
    BY <1>2, <1>5, <2>1, BitsChange DEF IInv
  <2> QED
    BY <2>2, <2>3, CountsKept DEF IInv
<1> QED
  BY <1>1, <1>2, <1>4, <1>5 DEF IInv, FreeExact, Counts

\* IInv holds in every state.
THEOREM Invariant == Spec => []IInv
BY InitSound, Inductive, PTL DEF Spec

\* The disk holds what its format has room for: inodes and blocks have numbers in
\* range, entries name inodes of the table.
THEOREM TypeCorrect == Spec => []TypeOK
<1>1. IInv => TypeOK
  BY DEF IInv, Types
<1> QED
  BY <1>1, Invariant, PTL

\* The crash consistency of ufs.c: as long as none of the recorded accidents
\* happened, no two files that can be reached share a block and no block of such a
\* file is free, whatever calls were made, failed or were cut off by the power.
THEOREM DiskConsistent == Spec => []BlocksOwned
<1>1. IInv => BlocksOwned
  <2> SUFFICES ASSUME IInv, hurt = {} PROVE BlocksOwned
    BY DEF BlocksOwned
  <2>1. PICK S \in SUBSET Ino : Sound(S)
    BY DEF IInv
  <2>2. Linked \subseteq S
    BY <2>1, EntriesListed DEF Linked, Sound, Reached, IInv, Types
  <2> QED
    BY <2>1, <2>2 DEF BlocksOwned, Sound, Tree, Marked, Apart
<1> QED
  BY <1>1, Invariant, PTL

\* Under the same condition every name refers to an inode in use, after any power
\* cut: entries are written after and removed before their inodes.
THEOREM NamesLive == Spec => []NamesLiveAfterCut
<1>1. IInv => NamesLiveAfterCut
  <2> SUFFICES ASSUME IInv, hurt = {}, NEW d \in Dirs, NEW e \in Entries(d)
               PROVE  e.ino \in ibit
    BY DEF NamesLiveAfterCut
  <2>1. PICK S \in SUBSET Ino : Sound(S)
    BY DEF IInv
  <2>2. PICK b \in Block : e \in Listing[b]
    BY EntriesListed DEF IInv, Types
  <2> QED
    BY <2>1, <2>2 DEF Sound, Reached
<1> QED
  BY <1>1, Invariant, PTL

\* The free counts are exact until the first power cut, on every error path of
\* every call: no inode and no block is freed twice or forgotten.
THEOREM CountsExact == Spec => []FreeExact
<1>1. IInv => FreeExact
  BY DEF IInv
<1> QED
  BY <1>1, Invariant, PTL
=============================================================================
