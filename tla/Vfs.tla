-------------------------------- MODULE Vfs --------------------------------
(***************************************************************************)
(* The file system switch: the vnode pool and the mount table              *)
(* (kernel/vfs/vfs.c), path resolution (kernel/vfs/namei.c) and the calls  *)
(* that take a path (stat, mkdir, unlink, rename, link, mount, umount).    *)
(* Mounted are a read-only root (kernel/vfs/romfs.c), whose nodes are      *)
(* given by RootDir, and the RAM file system of module Tmpfs.  Files adds  *)
(* the descriptors.                                                        *)
(*                                                                         *)
(* A SPIN_VFS section is one step, and so is a call of a file system       *)
(* driver.  Vnodes are not shared: every lookup makes a new one, with its  *)
(* own copy of the size of the file.                                       *)
(***************************************************************************)
EXTENDS Tmpfs, Sequences, SequencesExt

CONSTANTS Proc,
          VnodeMax,     \* VFS_VNODE_MAX
          MountMax,     \* VFS_MOUNT_MAX
          ScratchMax,   \* VFS_SCRATCH_POOL_SIZE
          SymloopMax,   \* VFS_SYMLOOP_MAX
          RootDir,      \* name -> type of the entries of the root directory
          Link,         \* name -> path, for those that are symbolic links
          PathCalls,    \* the calls that processes make, see Request
          MountPaths,   \* where tmpfs is mounted and unmounted
          Tables,       \* what calls that race in tmpfs may leave, see Race
          MaxCalls,     \* bound: system calls made altogether
          NULL

ASSUME VfsAssumption == /\ VnodeMax \in Nat \ {0, 1} /\ MountMax \in Nat \ {0, 1}
                        /\ ScratchMax \in Nat /\ SymloopMax \in Nat
                        /\ MaxCalls \in Nat /\ NULL \notin Nat
                        /\ IsFiniteSet(Proc)

\* The paths of calls, mounts and links are normalised: sequences of names.
\* vfs_lookup_parent refuses the root, which has no parent, so that no path it
\* is given here is empty (open creates nothing when it is given the root).
ASSUME PathAssumption ==
  /\ PathCalls \subseteq
       [op : {"stat", "lstat", "mkdir", "unlink", "rename", "link", "open"},
        path : Seq(Name), to : Seq(Name), flags : SUBSET {"creat", "trunc", "append"}]
  /\ \A c \in PathCalls :
       /\ c.op \in {"mkdir", "unlink", "rename"} \/ "creat" \in c.flags => c.path # << >>
       /\ c.op \in {"rename", "link"} => c.to # << >>
  /\ MountPaths \subseteq Seq(Name)
  /\ Tables \subseteq [node : [Ino -> Inode], used : 0..UintMax, torn : {TRUE}]
  /\ \A t \in Tables : t.node[RootIno].name = NoName
  /\ RootDir \in [DOMAIN RootDir -> {"DIR", "FILE", "SYMLINK", "DEV"}]
  /\ \A n \in DOMAIN RootDir : RootDir[n] = "SYMLINK" => Link[n] \in Seq(Name)

VARIABLES vnode,     \* vnode_storage
          mnt,       \* vfs_mount_table
          tmp,       \* the table of the RAM file system
          scratch,   \* free buffers of vfs_scratch_pool
          loc,       \* what each process is doing, and what it refers to
          calls      \* system calls made so far

vfsvars == <<vnode, mnt, tmp, scratch, loc, calls>>

Vnode == 1..VnodeMax
Slot == 1..MountMax
RootSlot == 1
RootVnode == 1
RootName == "/"

\* The vnode references a process holds in its local variables.
Hands == {"cur", "pin", "child", "par"}

BlankVnode == [refcnt |-> 0, mount |-> NULL, ino |-> NULL, type |-> "FILE",
               size |-> 0]
BlankMount == [state |-> "FREE", path |-> << >>, root |-> NULL]
Idle == [pc |-> "idle", call |-> NULL, walk |-> 0, todo |-> << >>,
         done |-> << >>, loops |-> 0, tries |-> 0, got |-> 0, buf |-> 0, slot |-> NULL,
         cur |-> NULL, pin |-> NULL, child |-> NULL, par |-> NULL]

\* After boot: the root is mounted (vfs_init, then the platform), and tmpfs
\* too if /etc/fstab names it (vfs_fstab_automount).
VfsInit ==
  /\ \E at \in {NULL} \cup MountPaths :
       /\ vnode = [v \in Vnode |->
            CASE v = RootVnode -> [BlankVnode EXCEPT !.refcnt = 1, !.type = "DIR",
                                     !.mount = RootSlot, !.ino = RootName]
              [] v = 2 /\ at # NULL -> [BlankVnode EXCEPT !.refcnt = 1, !.type = "DIR",
                                          !.mount = 2, !.ino = RootIno]
              [] OTHER -> BlankVnode]
       /\ mnt = [s \in Slot |->
            CASE s = RootSlot -> [state |-> "ACTIVE", path |-> << >>, root |-> RootVnode]
              [] s = 2 /\ at # NULL -> [state |-> "ACTIVE", path |-> at, root |-> 2]
              [] OTHER -> BlankMount]
  /\ tmp = TmpMounted
  /\ scratch = ScratchMax
  /\ loc = [p \in Proc |-> Idle]
  /\ calls = 0

----------------------------------------------------------------------------
\* The pools

FreeVnodes == {v \in Vnode : vnode[v].refcnt = 0}

\* vfs_vnode_alloc, then filled in by the driver that asked for it
NewVnode(m, i, kind, size) ==
  [vnode EXCEPT ![Min(FreeVnodes)] =
     [refcnt |-> 1, mount |-> m, ino |-> i, type |-> kind, size |-> size]]

\* As vfs_vnode_release of all of them but the parent directory's.
Released_KeepParent(vs, p, hands) ==
  [v \in Vnode |->
     LET n == Cardinality({h \in hands \ {"par"} : loc[p][h] = v})
     IN  IF n = 0 THEN vs[v]
         ELSE IF vs[v].refcnt > n THEN [vs[v] EXCEPT !.refcnt = @ - n]
         ELSE BlankVnode]

\* vfs_vnode_release of the vnodes in some of a process's hands
Released(vs, p, hands) ==
  [v \in Vnode |->
     LET n == Cardinality({h \in hands : loc[p][h] = v})
     IN  IF n = 0 THEN vs[v]
         ELSE IF vs[v].refcnt > n THEN [vs[v] EXCEPT !.refcnt = @ - n]
         ELSE BlankVnode]

At(p, point) == loc[p].pc = point
Op(p) == loc[p].call.op

\* The call returns: it releases these references and buffers, and whatever
\* else the process held is lost.
Return(p, hands, bufs) ==
  /\ vnode' = Released(vnode, p, hands)
  /\ scratch' = scratch + bufs
  /\ loc' = [loc EXCEPT ![p] = Idle]

Move(p, fields) == loc' = [loc EXCEPT ![p] = fields]

----------------------------------------------------------------------------
\* The mount table

Under(path, s) == mnt[s].state = "ACTIVE" /\ IsPrefix(mnt[s].path, path)

\* vfs_mount_find: the longest mounted path that is a prefix.  The caller gets
\* a reference to its root.
MountFind(path) ==
  CHOOSE s \in Slot : /\ Under(path, s)
                      /\ \A r \in Slot : Under(path, r) =>
                                 Len(mnt[r].path) <= Len(mnt[s].path)

\* vfs_mount: reserve a slot.  tmpfs_mount works on the table that every other
\* tmpfs uses.
MountReserve(p, path) ==
  LET free == {s \in Slot : mnt[s].state = "FREE"}
  IN  /\ At(p, "idle")
      /\ free # {}
      /\ \A s \in Slot : mnt[s].state # "FREE" => mnt[s].path # path
      /\ mnt' = [mnt EXCEPT ![Min(free)] = [state |-> "MOUNTING", path |-> path,
                                            root |-> NULL]]
      /\ tmp' = [tmp EXCEPT !.torn = \/ @
                                     \/ \E s \in Slot \ {RootSlot} : mnt[s].state # "FREE"]
      /\ Move(p, [loc[p] EXCEPT !.pc = "fs_mount", !.slot = Min(free)])
      /\ UNCHANGED <<vnode, scratch>>

\* vfs_mount, tmpfs_mount: the driver initialises, or has no vnode for its root.
\* When no other tmpfs is there nobody else is in the driver.
FsMount(p) ==
  LET s == loc[p].slot
  IN  /\ At(p, "fs_mount")
      /\ \/ /\ FreeVnodes # {}
            /\ vnode' = NewVnode(s, RootIno, "DIR", 0)
            /\ mnt' = [mnt EXCEPT ![s].root = Min(FreeVnodes)]
            /\ tmp' = [TmpMounted EXCEPT !.torn = tmp.torn]
            /\ Move(p, [loc[p] EXCEPT !.pc = "activate"])
            /\ UNCHANGED scratch
         \/ /\ FreeVnodes = {}
            /\ mnt' = [mnt EXCEPT ![s] = BlankMount]
            /\ Return(p, {}, 0)
            /\ UNCHANGED tmp

\* tmpfs_mount meets other calls of the driver, which it does not exclude and
\* which no longer exclude each other: the table they leave is any of these.
Race == /\ tmp.torn
        /\ tmp' \in Tables
        /\ UNCHANGED <<vnode, mnt, scratch, loc>>

Activate(p) ==
  /\ At(p, "activate")
  /\ mnt' = [mnt EXCEPT ![loc[p].slot].state = "ACTIVE"]
  /\ Return(p, {}, 0)
  /\ UNCHANGED tmp

\* As Busy, trusting the references to the root alone.
Busy_RootOnly(s) == vnode[mnt[s].root].refcnt > 1

Busy(s) == \/ vnode[mnt[s].root].refcnt > 1
           \/ \E v \in Vnode \ {mnt[s].root} : vnode[v].refcnt > 0
                                              /\ vnode[v].mount = s

\* vfs_umount: the tables of the file system stay as they are
Umount(p, path) ==
  \E s \in Slot \ {RootSlot} :
    /\ At(p, "idle")
    /\ mnt[s].state = "ACTIVE" /\ mnt[s].path = path
    /\ ~Busy(s)
    /\ vnode' = [vnode EXCEPT ![mnt[s].root] = BlankVnode]
    /\ mnt' = [mnt EXCEPT ![s] = BlankMount]
    /\ UNCHANGED <<tmp, scratch, loc>>

----------------------------------------------------------------------------
\* Path resolution

\* Buffers of a rename (old_name, new_name), of the walk itself (normalized; then
\* resolved, restart_path, comp), of a symbolic link (target, norm), and those
\* the caller of a walk holds meanwhile.
NameBufs == 2
WalkBufs == 4
LinkBufs == 2

CallerBufs(p) == CASE Op(p) = "rename" -> 2
                   [] Op(p) \in {"unlink", "mkdir"} -> 1
                   [] Op(p) \in {"open", "link"} -> loc[p].walk - 1
                   [] OTHER -> 0

\* What a caller holds while its second walk is under way.
CallerHands(p) == IF loc[p].walk = 2 /\ Op(p) \in {"rename", "link"}
                  THEN {"par"} ELSE {}

\* vfs_lookup, vfs_lookup_parent: the components to resolve
Components(c, walk) == CASE c.op = "rename" -> Front(IF walk = 1 THEN c.path ELSE c.to)
                         [] c.op = "link" -> IF walk = 1 THEN c.path ELSE Front(c.to)
                         [] c.op = "open" -> IF walk = 1 THEN c.path ELSE Front(c.path)
                         [] c.op \in {"unlink", "mkdir"} -> Front(c.path)
                         [] OTHER -> c.path

\* A call that takes a path: its own name buffer, then the first walk
Request(p, c) ==
  /\ At(p, "idle")
  /\ LET own == IF c.op \in {"unlink", "mkdir"} THEN 1 ELSE 0
     IN  /\ scratch >= own
         /\ scratch' = scratch - own
         /\ Move(p, [Idle EXCEPT !.pc = IF c.op = "rename" THEN "names" ELSE "norm",
                                 !.call = c, !.walk = 1,
                                 !.todo = Components(c, 1), !.buf = own])
  /\ UNCHANGED <<vnode, mnt, tmp>>

\* vfs_scratch_alloc for the next of a group of buffers.  The code looks at
\* what it got only when it has asked for each of them.
TakeBuf(p) ==
  LET n == IF scratch > 0 THEN 1 ELSE 0
  IN  /\ scratch' = scratch - n
      /\ Move(p, [loc[p] EXCEPT !.tries = @ + 1, !.got = @ + n, !.buf = @ + n])
      /\ UNCHANGED vnode

\* It has them all and goes on.
HasBufs(p, point) ==
  /\ Move(p, [loc[p] EXCEPT !.pc = point])
  /\ UNCHANGED <<vnode, scratch>>

\* vfs_path_rename: old_name and new_name
Names(p) ==
  /\ At(p, "names")
  /\ \/ loc[p].tries < NameBufs /\ TakeBuf(p)
     \/ loc[p].tries = NameBufs /\ loc[p].got = NameBufs /\ HasBufs(p, "norm")
     \/ loc[p].tries = NameBufs /\ loc[p].got # NameBufs /\ Return(p, {}, loc[p].got)
  /\ UNCHANGED <<mnt, tmp>>

\* A walk that fails: it frees its buffers and these references, then its
\* caller gives up too, unless it is open, which may create a missing file.
WalkFails(p, hands, missing) ==
  IF missing /\ Op(p) = "open" /\ loc[p].walk = 1 /\ "creat" \in loc[p].call.flags
  THEN /\ vnode' = Released(vnode, p, hands)
       /\ scratch' = scratch + WalkBufs
       /\ Move(p, [Idle EXCEPT !.pc = "namebuf", !.call = loc[p].call,
                               !.walk = 1])
  ELSE Return(p, hands \cup CallerHands(p), WalkBufs + CallerBufs(p))

\* Another walk for the same call
Again(p, bufs, fields) ==
  Move(p, [fields EXCEPT !.pc = "norm", !.walk = 2, !.loops = 0,
             !.todo = Components(loc[p].call, 2), !.done = << >>,
             !.buf = @ + bufs])

\* vfs_lookup_flags, vfs_lookup_parent: normalized, or ENOMEM
Normalize(p) ==
  /\ At(p, "norm")
  /\ IF scratch = 0 THEN Return(p, CallerHands(p), CallerBufs(p))
     ELSE /\ scratch' = scratch - 1
          /\ Move(p, [loc[p] EXCEPT !.pc = "bufs", !.tries = 0, !.got = 0,
                                    !.buf = @ + 1])
          /\ UNCHANGED vnode
  /\ UNCHANGED <<mnt, tmp>>

\* absolutize, and vfs_lookup_parent's split: the path may be too long.  Then
\* lookup_walk_flags: its three buffers, or ENOMEM
WalkBuffers(p) ==
  /\ At(p, "bufs")
  /\ \/ loc[p].tries = 0 /\ Return(p, CallerHands(p), 1 + CallerBufs(p))
     \/ loc[p].tries < WalkBufs - 1 /\ TakeBuf(p)
     \/ loc[p].tries = WalkBufs - 1 /\ loc[p].got = WalkBufs - 1 /\ HasBufs(p, "root")
     \/ /\ loc[p].tries = WalkBufs - 1 /\ loc[p].got # WalkBufs - 1
        /\ Return(p, CallerHands(p), 1 + loc[p].got + CallerBufs(p))
  /\ UNCHANGED <<mnt, tmp>>

\* The end of the path, or the next component.
Advance(p, vs, fields) ==
  /\ vnode' = vs
  /\ IF fields.todo = << >>
     THEN /\ scratch' = scratch + WalkBufs
          /\ Move(p, [fields EXCEPT !.pc = "got", !.buf = @ - WalkBufs])
     ELSE /\ Move(p, [fields EXCEPT !.pc = "mount"])
          /\ UNCHANGED scratch

\* restart: too many links, or the root directory
WalkRoot(p) ==
  /\ At(p, "root")
  /\ IF loc[p].loops >= SymloopMax THEN WalkFails(p, {}, FALSE)
     ELSE Advance(p, [vnode EXCEPT ![mnt[RootSlot].root].refcnt = @ + 1],
                  [loc[p] EXCEPT !.cur = mnt[RootSlot].root])
  /\ UNCHANGED <<mnt, tmp>>

\* Not a directory, or the next component is too long, by itself or after the
\* others; or mount_at_acquire for the path so far: the mount it lies in is pinned
WalkMount(p) ==
  LET done == Append(loc[p].done, Head(loc[p].todo))
      root == mnt[MountFind(done)].root
  IN  /\ At(p, "mount")
      /\ \/ WalkFails(p, {"cur"}, FALSE)
         \/ /\ vnode[loc[p].cur].type = "DIR"
            /\ vnode' = [vnode EXCEPT ![root].refcnt = @ + 1]
            /\ Move(p, [loc[p] EXCEPT !.pc = "pinned", !.done = done,
                          !.todo = Tail(@), !.pin = root])
            /\ UNCHANGED scratch
      /\ UNCHANGED <<mnt, tmp>>

\* A mount point is crossed; any other pin is given back
Crosses(p) == LET s == vnode[loc[p].pin].mount
              IN  mnt[s].path = loc[p].done /\ s # vnode[loc[p].cur].mount

WalkPinned(p) ==
  /\ At(p, "pinned")
  /\ IF Crosses(p)
     THEN Advance(p, Released(vnode, p, {"cur"}),
                  [loc[p] EXCEPT !.cur = loc[p].pin, !.pin = NULL])
     ELSE /\ vnode' = Released(vnode, p, {"pin"})
          /\ Move(p, [loc[p] EXCEPT !.pc = "lookup", !.pin = NULL])
          /\ UNCHANGED scratch
  /\ UNCHANGED <<mnt, tmp>>

InRoot(v) == vnode[v].mount = RootSlot

\* ops->lookup: romfs_lookup finds the entry before it takes a vnode,
\* tmpfs_lookup takes the vnode first
WalkLookup(p) ==
  LET n == Last(loc[p].done)
      d == loc[p].cur
      i == FirstEntry(tmp, vnode[d].ino, n)
      found == IF InRoot(d) THEN vnode[d].ino = RootName /\ n \in DOMAIN RootDir
               ELSE Entries(tmp, vnode[d].ino, n) # {}
  IN  /\ At(p, "lookup")
      /\ IF found /\ FreeVnodes # {}
         THEN /\ vnode' = IF InRoot(d) THEN NewVnode(RootSlot, n, RootDir[n], 0)
                          ELSE NewVnode(vnode[d].mount, i, tmp.node[i].type,
                                        tmp.node[i].size)
              /\ Move(p, [loc[p] EXCEPT !.pc = "drop", !.child = Min(FreeVnodes)])
              /\ UNCHANGED scratch
         ELSE WalkFails(p, {"cur"}, ~found /\ (InRoot(d) \/ FreeVnodes # {}))
      /\ UNCHANGED <<mnt, tmp>>

\* The child pins the mount from now on.  A link in the last component is the
\* result itself for the calls that do not follow it.
Followed(p) == /\ vnode[loc[p].child].type = "SYMLINK"
               /\ ~(Op(p) = "lstat" /\ loc[p].todo = << >>)

WalkDrop(p) ==
  /\ At(p, "drop")
  /\ IF Followed(p)
     THEN /\ vnode' = Released(vnode, p, {"cur"})
          /\ Move(p, [loc[p] EXCEPT !.pc = "link", !.tries = 0, !.got = 0,
                                    !.cur = NULL])
          /\ UNCHANGED scratch
     ELSE Advance(p, Released(vnode, p, {"cur"}),
                  [loc[p] EXCEPT !.cur = loc[p].child, !.child = NULL])
  /\ UNCHANGED <<mnt, tmp>>

\* As LinkFails, without vfs_scratch_free of target and norm.
LinkFails_KeepBufs(p, bufs) ==
  Return(p, {"child"} \cup CallerHands(p), WalkBufs + CallerBufs(p))

\* The walk ends at a link, holding this many buffers for it.
LinkFails(p, bufs) ==
  Return(p, {"child"} \cup CallerHands(p), bufs + WalkBufs + CallerBufs(p))

\* target and norm, or ENOMEM
WalkLink(p) ==
  /\ At(p, "link")
  /\ \/ loc[p].tries < LinkBufs /\ TakeBuf(p)
     \/ loc[p].tries = LinkBufs /\ loc[p].got = LinkBufs /\ HasBufs(p, "readlink")
     \/ loc[p].tries = LinkBufs /\ loc[p].got # LinkBufs /\ LinkFails(p, loc[p].got)
  /\ UNCHANGED <<mnt, tmp>>

\* The link cannot be read, or what it makes of the path is too long; or the
\* walk starts again with the target and what was left of the path
WalkReadlink(p) ==
  /\ At(p, "readlink")
  /\ \/ LinkFails(p, LinkBufs)
     \/ /\ vnode' = Released(vnode, p, {"child"})
        /\ scratch' = scratch + LinkBufs
        /\ Move(p, [loc[p] EXCEPT !.pc = "root", !.child = NULL, !.done = << >>,
                      !.todo = Link[vnode[loc[p].child].ino] \o @,
                      !.loops = @ + 1, !.buf = @ - LinkBufs])
  /\ UNCHANGED <<mnt, tmp>>

Walk(p) == \/ Normalize(p) \/ WalkBuffers(p) \/ WalkRoot(p) \/ WalkMount(p)
           \/ WalkPinned(p) \/ WalkLookup(p) \/ WalkDrop(p) \/ WalkLink(p)
           \/ WalkReadlink(p)

----------------------------------------------------------------------------
\* The calls, once their paths are resolved

\* A directory of the RAM file system: the only driver here that can change.
Writable(v) == vnode[v].type = "DIR" /\ ~InRoot(v)

\* sys_stat, sys_access, sys_chdir, vfs_path_chmod, vfs_path_utimes, sys_readlink
Stat(p) == /\ At(p, "got") /\ Op(p) \in {"stat", "lstat"}
           /\ Return(p, {"cur"}, 0)
           /\ UNCHANGED <<mnt, tmp>>

\* vfs_path_mkdir
Mkdir(p) ==
  LET d == loc[p].cur
      n == Last(loc[p].call.path)
  IN  /\ At(p, "got") /\ Op(p) = "mkdir"
      /\ tmp' = IF Writable(d) /\ CanCreate(tmp, vnode[d].ino, n)
                THEN Created(tmp, vnode[d].ino, n, "DIR") ELSE tmp
      /\ Return(p, {"cur"}, 1)
      /\ UNCHANGED mnt

\* vfs_path_unlink, also for rmdir
Unlink(p) ==
  LET d == loc[p].cur
      n == Last(loc[p].call.path)
  IN  /\ At(p, "got") /\ Op(p) = "unlink"
      /\ tmp' = IF Writable(d) /\ CanUnlink(tmp, vnode[d].ino, n)
                THEN Unlinked(tmp, vnode[d].ino, n) ELSE tmp
      /\ Return(p, {"cur"}, 1)
      /\ UNCHANGED mnt

\* vfs_path_rename: the second parent, then the driver
RenameTo(p) ==
  /\ At(p, "got") /\ Op(p) = "rename" /\ loc[p].walk = 1
  /\ Again(p, 0, [loc[p] EXCEPT !.par = loc[p].cur, !.cur = NULL])
  /\ UNCHANGED <<vnode, mnt, tmp, scratch>>

Rename(p) ==
  LET o == loc[p].par
      d == loc[p].cur
      on == Last(loc[p].call.path)
      nn == Last(loc[p].call.to)
  IN  /\ At(p, "got") /\ Op(p) = "rename" /\ loc[p].walk = 2
      /\ tmp' = IF /\ Writable(o) /\ Writable(d) /\ vnode[o].mount = vnode[d].mount
                   /\ CanRename(tmp, vnode[o].ino, on, vnode[d].ino, nn)
                THEN Renamed(tmp, vnode[o].ino, on, vnode[d].ino, nn) ELSE tmp
      /\ Return(p, {"par", "cur"}, 2)
      /\ UNCHANGED mnt

\* vfs_path_link: neither file system has hard links
LinkTo(p) ==
  /\ At(p, "got") /\ Op(p) = "link" /\ loc[p].walk = 1
  /\ IF scratch = 0 THEN Return(p, {"cur"}, 0)
     ELSE /\ scratch' = scratch - 1
          /\ Again(p, 1, [loc[p] EXCEPT !.par = loc[p].cur, !.cur = NULL])
          /\ UNCHANGED vnode
  /\ UNCHANGED <<mnt, tmp>>

LinkRefused(p) ==
  /\ At(p, "got") /\ Op(p) = "link" /\ loc[p].walk = 2
  /\ Return(p, {"cur", "par"}, 1)
  /\ UNCHANGED <<mnt, tmp>>

PathStep(p) == \/ Walk(p) \/ Names(p) \/ Stat(p) \/ Mkdir(p) \/ Unlink(p)
               \/ RenameTo(p) \/ Rename(p) \/ LinkTo(p) \/ LinkRefused(p)
               \/ FsMount(p) \/ Activate(p)

\* A process enters the kernel.
PathCall(p) == /\ calls < MaxCalls
               /\ calls' = calls + 1
               /\ \/ \E c \in PathCalls : Request(p, c)
                  \/ \E path \in MountPaths : MountReserve(p, path)
                  \/ \E path \in MountPaths : Umount(p, path)
=============================================================================
