-------------------------------- MODULE Ufs --------------------------------
(***************************************************************************)
(* The disk file system (kernel/vfs/ufs.c).  ufs_mutex is held from the    *)
(* first to the last access of a call, so calls do not overlap; but a      *)
(* vnode outlives the call that made it, and the power may be cut between  *)
(* any two sector writes.  A step is one write that another call or the    *)
(* next mount can see: a bitmap byte, an inode, a directory sector, the    *)
(* counters of the superblock.  The writes that fill a block nobody refers *)
(* to yet are one step.                                                    *)
(*                                                                         *)
(* Files end within the direct blocks.  What is in a file is left out: a   *)
(* block holds directory entries, or data, which count as no entry (data   *)
(* in a directory are recorded in hurt).  Times and modes are left out,    *)
(* and so are the writes that change only those, and errors of the device. *)
(***************************************************************************)
EXTENDS Integers, FiniteSets

CONSTANTS InoMax,     \* inode_count
          BlockMax,   \* blocks of the data area
          Name,
          DirSlots,   \* entries that fit a block of a directory
          MaxBlk,     \* bound: blocks of a file
          MaxOpen,    \* bound: vnodes besides the root's
          MaxOps,     \* bound: calls made
          MaxCuts     \* bound: power cuts

ASSUME UfsAssumption == /\ InoMax \in Nat \ {0} /\ BlockMax \in Nat \ {0}
                        /\ DirSlots \in Nat \ {0} /\ MaxBlk \in Nat \ {0}
                        /\ MaxOpen \in Nat /\ MaxOps \in Nat /\ MaxCuts \in Nat
                        /\ IsFiniteSet(Name)

VARIABLES ibit,      \* inodes marked used in the cylinder group
          bbit,      \* blocks marked used there
          inode,     \* the inode table
          content,   \* directory entries in each block
          sb,        \* free counts in the superblock
          free,      \* ufs_priv.free_blocks, ufs_priv.free_inodes
          open,      \* vnodes held by processes
          op,        \* the call under way
          ops, cuts, \* calls made and power cuts so far
          hurt       \* calls cut short where it does damage, see Properties

disk == <<ibit, bbit, inode, content>>
vars == <<disk, sb, free, open, op, ops, cuts, hurt>>

Ino == 1..InoMax
Block == 1..BlockMax
Logical == 0..(MaxBlk - 1)
RootIno == 1
RootBlock == 1
NoBlk == 0

NoBlocks == [l \in Logical |-> NoBlk]
BlankInode == [type |-> "FILE", nlink |-> 0, blk |-> NoBlocks]
RootVnode == [ino |-> RootIno, type |-> "DIR"]
Idle == [pc |-> "idle", kind |-> "none", dir |-> RootIno, name |-> "", ino |-> 0,
         blk |-> NoBlk, todo |-> {}, copy |-> BlankInode]

Counts(i, b) == [inodes |-> InoMax - Cardinality(i), blocks |-> BlockMax - Cardinality(b)]

\* A disk fresh from mkufs, mounted: an empty root directory
Init == /\ ibit = {RootIno} /\ bbit = {RootBlock}
        /\ inode = [i \in Ino |-> IF i # RootIno THEN BlankInode
                      ELSE [type |-> "DIR", nlink |-> 2,
                            blk |-> [NoBlocks EXCEPT ![0] = RootBlock]]]
        /\ content = [b \in Block |-> {}]
        /\ sb = Counts(ibit, bbit) /\ free = sb
        /\ open = {RootVnode}
        /\ op = Idle /\ ops = 0 /\ cuts = 0 /\ hurt = {}

\* The blocks of an inode, and the entries of a directory.
Blocks(node) == {node.blk[l] : l \in Logical} \ {NoBlk}
Entries(d) == UNION {content[b] : b \in Blocks(inode[d])}
Named(d, n) == {e \in Entries(d) : e.name = n}

At(kinds, point) == op.pc = point /\ op.kind \in kinds
Goto(point) == op' = [op EXCEPT !.pc = point]
Done == op' = Idle

\* Searches start at the lowest number.
Lowest(S) == {i \in S : \A j \in S : i <= j}

\* The inodes and the blocks that can be given out.
FreeInos == {i \in Ino \ ibit : i > RootIno}
FreeBlks == Block \ bbit

----------------------------------------------------------------------------
\* Steps the calls share

\* ufs_alloc_inode
AllocInode(next) ==
  \E i \in Lowest(FreeInos) :
      /\ ibit' = ibit \cup {i}
      /\ free' = [free EXCEPT !.inodes = @ - 1]
      /\ op' = [op EXCEPT !.ino = i, !.pc = next]
      /\ UNCHANGED <<bbit, inode, content>>

\* As ufs_free_inode without the count.
FreeInode_NoCount(i) == ibit' = ibit \ {i} /\ UNCHANGED free

\* ufs_free_inode
FreeInode(i) == ibit' = ibit \ {i} /\ free' = [free EXCEPT !.inodes = @ + 1]

\* ufs_alloc_block
AllocBlock(next) ==
  \E b \in Lowest(FreeBlks) :
      /\ bbit' = bbit \cup {b}
      /\ free' = [free EXCEPT !.blocks = @ - 1]
      /\ op' = [op EXCEPT !.blk = b, !.pc = next]
      /\ UNCHANGED <<ibit, inode, content>>

\* ufs_free_block
FreeBlock(b) == bbit' = bbit \ {b} /\ free' = [free EXCEPT !.blocks = @ + 1]

\* ufs_sync_super, and the call returns
Sync == /\ op.pc = "sync"
        /\ sb' = free
        /\ Done
        /\ UNCHANGED <<disk, free>>

\* What a call does once its entry is in the directory, and when there is no
\* room or no buffer for it: only create undoes what it did.
AfterAdd == CASE op.kind = "create" -> "vnode"
              [] op.kind = "mkdir"  -> "nlink"
              [] op.kind = "link"   -> "bump"
              [] OTHER -> "idle"
AddFailed == IF op.kind = "create" THEN Goto("undo") ELSE Done
Added == IF AfterAdd = "idle" THEN Done ELSE Goto(AfterAdd)

\* ufs_dir_add_entry: a free slot, or one more block, or neither
Room(d) == {b \in Blocks(inode[d]) : Cardinality(content[b]) < DirSlots}
NewEntry == [name |-> op.name, ino |-> op.ino]

AddEntry ==
  /\ op.pc = "add"
  /\ \/ /\ \E b \in Lowest(Room(op.dir)) :
             content' = [content EXCEPT ![b] = @ \cup {NewEntry}]
        /\ Added
        /\ UNCHANGED <<ibit, bbit, inode, free>>
     \/ /\ Room(op.dir) = {} /\ FreeBlks # {}
        /\ AllocBlock("extend")
     \/ /\ AddFailed   \* ENOSPC, or no scratch buffer
        /\ UNCHANGED <<disk, free>>
  /\ UNCHANGED sb

\* The new block is filled, and linked after that.  A directory that has all
\* its blocks is at the limit of ufs_block_set.
Extend ==
  /\ op.pc = "extend"
  /\ content' = [content EXCEPT ![op.blk] = {NewEntry}]
  /\ Goto("extended")
  /\ UNCHANGED <<ibit, bbit, inode, sb, free>>

Extended ==
  LET gaps == {l \in Logical : \A m \in Logical : m >= l => inode[op.dir].blk[m] = NoBlk}
  IN  /\ op.pc = "extended"
      /\ IF gaps = {} THEN AddFailed /\ UNCHANGED inode
         ELSE /\ \E l \in Lowest(gaps) :
                   inode' = [inode EXCEPT ![op.dir].blk[l] = op.blk]
              /\ Added
      /\ UNCHANGED <<ibit, bbit, content, sb, free>>

\* A failed create gives its inode back; a failed mkdir its block before that
Undo ==
  /\ op.pc = "undo"
  /\ IF op.blk # NoBlk /\ op.kind = "mkdir"
     THEN FreeBlock(op.blk) /\ op' = [op EXCEPT !.blk = NoBlk] /\ UNCHANGED ibit
     ELSE FreeInode(op.ino) /\ Done /\ UNCHANGED bbit
  /\ UNCHANGED <<inode, content, sb>>

----------------------------------------------------------------------------
\* ufs_create, ufs_mkdir

NewInode ==
  /\ At({"create", "mkdir"}, "begin")
  /\ IF FreeInos = {} THEN Done /\ UNCHANGED <<disk, free>>
     ELSE AllocInode(IF op.kind = "create" THEN "inode" ELSE "block")
  /\ UNCHANGED sb

MkdirBlock ==
  /\ At({"mkdir"}, "block")
  /\ IF FreeBlks = {} THEN Goto("undo") /\ UNCHANGED <<disk, free>>
     ELSE AllocBlock("fill")
  /\ UNCHANGED sb

\* "." and "..", or the zeroes of a new block
MkdirFill ==
  /\ At({"mkdir"}, "fill")
  /\ content' = [content EXCEPT ![op.blk] = {}]
  /\ Goto("inode")
  /\ UNCHANGED <<ibit, bbit, inode, sb, free>>

WriteInode ==
  /\ At({"create", "mkdir"}, "inode")
  /\ \/ /\ inode' = [inode EXCEPT ![op.ino] =
                       IF op.kind = "create"
                       THEN [type |-> "FILE", nlink |-> 1, blk |-> NoBlocks]
                       ELSE [type |-> "DIR", nlink |-> 2,
                             blk |-> [NoBlocks EXCEPT ![0] = op.blk]]]
        /\ Goto("add")
     \/ Goto("undo") /\ UNCHANGED inode   \* no scratch buffer
  /\ UNCHANGED <<ibit, bbit, content, sb, free>>

\* The caller gets a vnode, or ENOMEM although the file is there
CreateVnode ==
  /\ At({"create"}, "vnode")
  /\ \/ /\ Cardinality(open) <= MaxOpen
        /\ open' = open \cup {[ino |-> op.ino, type |-> "FILE"]}
        /\ Goto("sync")
     \/ Done /\ UNCHANGED open
  /\ UNCHANGED <<disk, sb, free>>

MkdirNlink ==
  /\ At({"mkdir"}, "nlink")
  /\ inode' = [inode EXCEPT ![op.dir].nlink = @ + 1]
  /\ Goto("sync")
  /\ UNCHANGED <<ibit, bbit, content, sb, free>>

----------------------------------------------------------------------------
\* ufs_link: the entry first, then the count

LinkProbe ==
  /\ At({"link"}, "begin")
  /\ \/ /\ Named(op.dir, op.name) = {}
        /\ Goto("add")
        /\ hurt' = IF op.ino \in ibit /\ inode[op.ino].type = "FILE" THEN hurt
                   ELSE hurt \cup {"stale"}
     \/ Done /\ UNCHANGED hurt   \* EEXIST, or no scratch buffer
  /\ UNCHANGED <<disk, sb, free>>

LinkBump ==
  /\ At({"link"}, "bump")
  /\ \/ /\ inode' = [inode EXCEPT ![op.ino].nlink = @ + 1]
        /\ Goto("sync")
        /\ UNCHANGED hurt
     \/ /\ Done   \* no scratch buffer
        /\ hurt' = hurt \cup {"count"}
        /\ UNCHANGED inode
  /\ UNCHANGED <<ibit, bbit, content, sb, free>>
----------------------------------------------------------------------------
\* ufs_unlink: the entry first; a directory that turns out not to be empty is
\* entered again

UnlinkEntry ==
  /\ At({"unlink"}, "begin")
  /\ \/ \E e \in Named(op.dir, op.name), b \in Blocks(inode[op.dir]) :
          /\ e \in content[b]
          /\ content' = [content EXCEPT ![b] = @ \ {e}]
          /\ op' = [op EXCEPT !.ino = e.ino, !.pc = "child"]
     \/ Done /\ UNCHANGED content   \* ENOENT, or no scratch buffer
  /\ UNCHANGED <<ibit, bbit, inode, sb, free>>

OneLess(n) == IF n > 0 THEN n - 1 ELSE 0

UnlinkChild ==
  LET child == inode[op.ino]
      again == op' = [op EXCEPT !.kind = "readd", !.pc = "add"]
      kept == [child EXCEPT !.nlink = OneLess(@)]
      go(point) == op' = [op EXCEPT !.copy = kept, !.pc = point]
  IN  /\ At({"unlink"}, "child")
      /\ \/ child.type = "FILE" /\ go("drop")
         \/ child.type = "DIR" /\ Entries(op.ino) = {} /\ go("parent")
         \/ child.type = "DIR" /\ again   \* ENOTEMPTY, or no scratch buffer
         \/ Done                          \* no scratch buffer
      /\ UNCHANGED <<disk, sb, free>>

UnlinkParent ==
  /\ At({"unlink"}, "parent")
  /\ \/ inode' = [inode EXCEPT ![op.dir].nlink = OneLess(@)]
     \/ UNCHANGED inode   \* no scratch buffer
  /\ Goto("drop")
  /\ UNCHANGED <<ibit, bbit, content, sb, free>>

\* As ufs_unlink, taking every name for the last.
LastName_Always(node) == TRUE

LastName(node) == node.nlink = 0

UnlinkDrop ==
  /\ At({"unlink"}, "drop")
  /\ IF LastName(op.copy)
     THEN /\ op' = [op EXCEPT !.todo = Blocks(op.copy), !.pc = "free",
                              !.copy.blk = NoBlocks]
          /\ UNCHANGED inode
     ELSE /\ inode' = [inode EXCEPT ![op.ino] = op.copy]
          /\ Goto("sync")
  /\ UNCHANGED <<ibit, bbit, content, sb, free>>

\* ufs_truncate to length 0, the only length the kernel asks for
Truncate ==
  /\ At({"trunc"}, "begin")
  /\ \/ op' = [op EXCEPT !.todo = Blocks(inode[op.ino]), !.pc = "free",
                         !.copy = [inode[op.ino] EXCEPT !.blk = NoBlocks]]
     \/ Done   \* no scratch buffer
  /\ UNCHANGED <<disk, sb, free>>

\* The blocks are marked free one by one, then the inode lets go of them
FreeBlocks ==
  /\ op.pc = "free" /\ op.todo # {}
  /\ \E b \in Lowest(op.todo) : /\ FreeBlock(b)
                                /\ op' = [op EXCEPT !.todo = @ \ {b}]
  /\ UNCHANGED <<ibit, inode, content, sb>>

\* As ufs_truncate, leaving the pointers in the inode.
Freed_KeepsBlocks ==
  /\ op.pc = "free" /\ op.todo = {}
  /\ inode' = [inode EXCEPT ![op.ino] = [op.copy EXCEPT !.blk = inode[op.ino].blk]]
  /\ Goto(IF op.kind = "trunc" THEN "sync" ELSE "unuse")
  /\ UNCHANGED <<ibit, bbit, content, sb, free>>

Freed ==
  /\ op.pc = "free" /\ op.todo = {}
  /\ inode' = [inode EXCEPT ![op.ino] = op.copy]
  /\ Goto(IF op.kind = "trunc" THEN "sync" ELSE "unuse")
  /\ UNCHANGED <<ibit, bbit, content, sb, free>>

UnlinkUnuse ==
  /\ At({"unlink"}, "unuse")
  /\ FreeInode(op.ino)
  /\ Goto("sync")
  /\ UNCHANGED <<bbit, inode, content, sb>>

----------------------------------------------------------------------------
\* ufs_write of the logical blocks in todo: a missing block is allocated and
\* zeroed, the data follow, and the inode is written at the end.  When the
\* disk is full on the way the copy of the inode is thrown away.

WriteBegin ==
  /\ At({"write"}, "begin")
  /\ \/ /\ op' = [op EXCEPT !.copy = inode[op.ino], !.pc = "next"]
        /\ hurt' = IF inode[op.ino].type = "FILE" THEN hurt ELSE hurt \cup {"stale"}
     \/ Done /\ UNCHANGED hurt   \* no scratch buffer
  /\ UNCHANGED <<disk, sb, free>>

WriteBlock ==
  \E l \in Lowest(op.todo) :
      /\ At({"write"}, "next")
      /\ \/ /\ op.copy.blk[l] # NoBlk
            /\ op' = [op EXCEPT !.blk = op.copy.blk[l], !.pc = "data"]
            /\ UNCHANGED <<disk, free>>
         \/ op.copy.blk[l] = NoBlk /\ FreeBlks # {} /\ AllocBlock("data")
         \/ op.copy.blk[l] = NoBlk /\ FreeBlks = {} /\ Done /\ UNCHANGED <<disk, free>>
      /\ UNCHANGED sb

WriteData ==
  /\ At({"write"}, "data")
  /\ content' = [content EXCEPT ![op.blk] = {}]
  /\ \E l \in Lowest(op.todo) :
       op' = [op EXCEPT !.copy.blk[l] = op.blk, !.todo = @ \ {l}, !.pc = "next"]
  /\ UNCHANGED <<ibit, bbit, inode, sb, free>>

WriteEnd ==
  /\ At({"write"}, "next") /\ op.todo = {}
  /\ inode' = [inode EXCEPT ![op.ino] = op.copy]
  /\ Goto("sync")
  /\ UNCHANGED <<ibit, bbit, content, sb, free>>

----------------------------------------------------------------------------
\* Calls, by whoever holds the vnodes they are made on

\* The directories in use.
Dirs == {i \in ibit : inode[i].type = "DIR"}

Begin(kind, v, fields) ==
  /\ op.pc = "idle" /\ ops < MaxOps
  /\ hurt' = IF v.type = "DIR" => v.ino \in Dirs THEN hurt ELSE hurt \cup {"stale"}
  /\ op' = [fields EXCEPT !.kind = kind, !.pc = "begin"]
  /\ ops' = ops + 1
  /\ UNCHANGED <<disk, sb, free, open>>

Call ==
  \/ \E d \in open, n \in Name : d.type = "DIR" /\
       \/ \E kind \in {"create", "mkdir", "unlink"} :
            Begin(kind, d, [Idle EXCEPT !.dir = d.ino, !.name = n])
       \/ \E t \in open : t.type = "FILE" /\
            Begin("link", d, [Idle EXCEPT !.dir = d.ino, !.name = n, !.ino = t.ino])
  \/ \E v \in open : v.type = "FILE" /\
       \/ Begin("trunc", v, [Idle EXCEPT !.ino = v.ino])
       \/ \E l \in Logical, m \in Logical : m \in {l, l + 1} /\
            Begin("write", v, [Idle EXCEPT !.ino = v.ino, !.todo = {l, m}])

\* ufs_lookup, and vfs_vnode_release.  The type of the inode is not looked at:
\* when it is a file by now, its data are read as entries and may name any
\* inode.
Lookup == /\ op.pc = "idle" /\ Cardinality(open) <= MaxOpen
          /\ \E d \in open, n \in Name : d.type = "DIR" /\
               \E e \in Named(d.ino, n) :
                 open' = open \cup {[ino |-> e.ino, type |-> inode[e.ino].type]}
          /\ UNCHANGED <<disk, sb, free, op, ops, hurt>>

LookupStale == /\ op.pc = "idle" /\ Cardinality(open) <= MaxOpen
               /\ \E d \in open, i \in Ino :
                    /\ d.type = "DIR" /\ inode[d.ino].type = "FILE"
                    /\ Blocks(inode[d.ino]) # {}
                    /\ open' = open \cup {[ino |-> i, type |-> inode[i].type]}
               /\ hurt' = hurt \cup {"stale"}
               /\ UNCHANGED <<disk, sb, free, op, ops>>

Release == /\ \E v \in open \ {RootVnode} : open' = open \ {v}
           /\ op.pc = "idle"
           /\ UNCHANGED <<disk, sb, free, op, ops, hurt>>

\* The power fails, the machine starts again and mounts the disk (ufs_mount)
PowerCut ==
  /\ cuts < MaxCuts
  /\ cuts' = cuts + 1
  /\ op' = Idle
  /\ open' = {RootVnode}
  /\ free' = sb
  /\ hurt' = hurt \cup (IF op.pc = "free" /\ (op.kind = "trunc" \/ op.copy.type = "DIR")
                        THEN {"trunc"} ELSE {})
                  \cup (IF At({"link"}, "bump") THEN {"count"} ELSE {})
  /\ UNCHANGED <<disk, sb, ops>>

AddStep == AddEntry \/ Extend \/ Extended \/ Undo
MakeStep == NewInode \/ MkdirBlock \/ MkdirFill \/ WriteInode \/ MkdirNlink
FreeStep == \/ UnlinkEntry \/ UnlinkChild \/ UnlinkParent \/ UnlinkDrop
            \/ Truncate \/ FreeBlocks \/ Freed \/ UnlinkUnuse
WriteStep == WriteBlock \/ WriteData \/ WriteEnd

Next == \/ /\ AddStep \/ MakeStep \/ FreeStep \/ WriteStep \/ Sync
           /\ UNCHANGED <<open, ops, cuts, hurt>>
        \/ CreateVnode /\ UNCHANGED <<ops, cuts, hurt>>
        \/ (LinkProbe \/ LinkBump \/ WriteBegin) /\ UNCHANGED <<open, ops, cuts>>
        \/ Call /\ UNCHANGED cuts
        \/ (Lookup \/ LookupStale \/ Release) /\ UNCHANGED cuts
        \/ PowerCut

Spec == Init /\ [][Next]_vars

----------------------------------------------------------------------------
\* Properties.  hurt records the places where the order of the writes, or the
\* lack of a check, is known to do damage: "trunc", a power cut while a truncate,
\* or the removal of a directory, has marked blocks free that its inode still
\* refers to; "count", a link that is not counted; "stale", a link to a file
\* removed after it was looked up, a write to one whose inode is a directory by
\* now, or a call or a lookup in a directory removed after it was looked up.

TypeOK == /\ ibit \subseteq Ino /\ bbit \subseteq Block
          /\ inode \in [Ino -> [type : {"FILE", "DIR"}, nlink : Nat,
                                blk : [Logical -> Block \cup {NoBlk}]]]
          /\ content \in [Block -> SUBSET [name : Name, ino : Ino]]
          /\ open \subseteq [ino : Ino, type : {"FILE", "DIR"}]

\* What a path can reach: the inodes some directory has an entry for.
Linked == {RootIno} \cup {e.ino : e \in UNION {Entries(d) : d \in Dirs}}

\* Whatever call the power cut, or a missing buffer or a full disk ended, no
\* two files of the disk share a block and no block of a file is free to be
\* given to another: ufs_alloc_block comes before ufs_write_inode, and an entry
\* is removed before its blocks are freed.
BlocksOwned ==
  hurt = {} =>
  LET quiet == Linked \ (IF op.pc = "free" THEN {op.ino} ELSE {})
  IN  /\ \A i \in quiet : Blocks(inode[i]) \subseteq bbit
      /\ \A i, j \in quiet : i # j => Blocks(inode[i]) \cap Blocks(inode[j]) = {}
      /\ \A i \in quiet, l, m \in Logical :
           l # m /\ inode[i].blk[l] = inode[i].blk[m] => inode[i].blk[l] = NoBlk

\* A name refers to an inode in use, wherever the power is cut: an entry is
\* written after its inode and removed before it (ufs_create, ufs_unlink).
NamesLiveAfterCut ==
  hurt = {} => \A d \in Dirs : \A e \in Entries(d) : e.ino \in ibit

\* The free counts that statfs reports are those of the bitmaps, from mount to
\* power cut, whichever call fails on the way: nothing is freed twice and no
\* error path forgets to count.
FreeExact == cuts = 0 /\ hurt = {} => free = Counts(ibit, bbit)
=============================================================================
