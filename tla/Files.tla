------------------------------- MODULE Files -------------------------------
(***************************************************************************)
(* Open files: the system-wide pool of struct file (kernel/vfs/fd.c), the  *)
(* descriptors of each process and the calls on them                       *)
(* (kernel/core/syscall/sys_fs.c, sys_io.c), above the vnodes, the mounts  *)
(* and the path walk of module Vfs.                                        *)
(*                                                                         *)
(* A SPIN_FD section is one step.  An operation on an open file runs under *)
(* the file's own lock and, inside it, the lock of the file system; it     *)
(* does not sleep, so it is one step too (pipes and terminals, which do,   *)
(* have their own modules).                                                *)
(***************************************************************************)
EXTENDS Vfs

CONSTANTS FileMaxOpen,   \* FILE_MAX: entries of fd_pool
          FdMax,         \* FD_MAX: descriptors of a process
          Lens           \* bound: lengths of reads and writes

ASSUME FilesAssumption == FileMaxOpen \in Nat /\ FdMax \in Nat /\ Lens \subseteq Nat

VARIABLES file,    \* fd_pool
          fdmap,   \* per process: pcb.fd_map
          io       \* per process: the entry it works on in the pool

vars == <<vnode, mnt, tmp, scratch, loc, calls, file, fdmap, io>>

Desc == 1..FileMaxOpen
Fd == 0..(FdMax - 1)

BlankFile == [refcnt |-> 0, ops |-> "none", vnode |-> NULL, offset |-> 0,
              append |-> FALSE]

\* io.desc: the descriptor in use; io.vn: the vnode of the struct file that
\* vfs_fd_release copied out; io.op, io.n, io.fd: the operation
NoIo == [desc |-> NULL, vn |-> NULL, op |-> "none", n |-> 0, fd |-> 0]

Init == /\ VfsInit
        /\ file = [d \in Desc |-> BlankFile]
        /\ fdmap = [p \in Proc |-> [f \in Fd |-> NULL]]
        /\ io = [p \in Proc |-> NoIo]

FreeFds(p) == {f \in Fd : fdmap[p][f] = NULL}
OpenFds(p) == Fd \ FreeFds(p)

----------------------------------------------------------------------------
\* The pool

\* As fd_pool_alloc, looking at ops only.
FreeDescs_OpsOnly == {d \in Desc : file[d].ops = "none"}

FreeDescs == {d \in Desc : file[d].refcnt = 0 /\ file[d].ops = "none"}

\* fd_get, vfs_fd_acquire
Acquired(fs, d) == [fs EXCEPT ![d].refcnt = @ + 1]

\* vfs_fd_release: under SPIN_FD the count goes down and the last reference
\* clears the entry; ops->close runs on the copy afterwards.  The caller goes
\* on at op, with the entry and the descriptor in after.
NoNext == [desc |-> NULL, fd |-> 0]

FdRelease(p, d, op, after) ==
  IF file[d].refcnt > 1
  THEN /\ file' = [file EXCEPT ![d].refcnt = @ - 1]
       /\ io' = [io EXCEPT ![p] = [NoIo EXCEPT !.desc = after.desc, !.fd = after.fd]]
       /\ Move(p, [Idle EXCEPT !.pc = op])
  ELSE /\ file' = [file EXCEPT ![d] = BlankFile]
       /\ io' = [io EXCEPT ![p] = [NoIo EXCEPT !.desc = after.desc, !.fd = after.fd,
                                     !.vn = file[d].vnode, !.op = op]]
       /\ Move(p, [Idle EXCEPT !.pc = "close"])

\* vfs_bridge_close
CloseOps(p) ==
  /\ At(p, "close")
  /\ vnode' = [v \in Vnode |-> IF v # io[p].vn THEN vnode[v]
                 ELSE IF vnode[v].refcnt > 1 THEN [vnode[v] EXCEPT !.refcnt = @ - 1]
                 ELSE BlankVnode]
  /\ io' = [io EXCEPT ![p].vn = NULL]
  /\ Move(p, [Idle EXCEPT !.pc = io[p].op])
  /\ UNCHANGED <<mnt, tmp, scratch, file, fdmap>>

----------------------------------------------------------------------------
\* open

\* vfs_fd_open: the file is missing, its parent is looked up
NameBuf(p) ==
  /\ At(p, "namebuf")
  /\ IF scratch = 0 THEN Return(p, {}, 0)
     ELSE /\ scratch' = scratch - 1
          /\ Again(p, 1, loc[p])
          /\ UNCHANGED vnode
  /\ UNCHANGED <<mnt, tmp, file, fdmap, io>>

\* ops->create (tmpfs_create takes the vnode before it looks at the table),
\* then the parent is released
OpenCreate(p) ==
  LET d == loc[p].cur
      n == Last(loc[p].call.path)
      i == Min(FreeInodes(tmp))
  IN  /\ At(p, "got") /\ Op(p) = "open" /\ loc[p].walk = 2
      /\ IF Writable(d) /\ FreeVnodes # {} /\ CanCreate(tmp, vnode[d].ino, n)
         THEN /\ tmp' = Created(tmp, vnode[d].ino, n, "FILE")
              /\ vnode' = NewVnode(vnode[d].mount, i, "FILE", 0)
              /\ Move(p, [loc[p] EXCEPT !.pc = "created", !.par = d,
                            !.cur = Min(FreeVnodes)])
              /\ UNCHANGED scratch
         ELSE Return(p, {"cur"}, 1) /\ UNCHANGED tmp
      /\ UNCHANGED <<mnt, file, fdmap, io>>

OpenCreated(p) ==
  /\ At(p, "created")
  /\ vnode' = Released(vnode, p, {"par"})
  /\ scratch' = scratch + 1
  /\ Move(p, [loc[p] EXCEPT !.pc = "trunc", !.par = NULL, !.buf = @ - 1])
  /\ UNCHANGED <<mnt, tmp, file, fdmap, io>>

OpenFound(p) ==
  /\ At(p, "got") /\ Op(p) = "open" /\ loc[p].walk = 1
  /\ Move(p, [loc[p] EXCEPT !.pc = "trunc"])
  /\ UNCHANGED <<vnode, mnt, tmp, scratch, file, fdmap, io>>

\* O_TRUNC.  The driver looks at the type of the inode the vnode names now,
\* which is not always the one it named when it was looked up.
OpenTrunc(p) ==
  LET v == loc[p].cur
      cut == "trunc" \in loc[p].call.flags /\ vnode[v].type = "FILE"
      refused == cut /\ ~InRoot(v) /\ tmp.node[vnode[v].ino].type = "DIR"
  IN  /\ At(p, "trunc")
      /\ \/ refused /\ Return(p, {"cur"}, 0) /\ UNCHANGED tmp
         \/ /\ ~refused
            /\ tmp' = IF cut /\ ~InRoot(v) THEN Truncated(tmp, vnode[v].ino) ELSE tmp
            /\ vnode' = IF cut THEN [vnode EXCEPT ![v].size = 0] ELSE vnode
            /\ Move(p, [loc[p] EXCEPT !.pc = "desc"])
            /\ UNCHANGED scratch
      /\ UNCHANGED <<mnt, file, fdmap, io>>

\* fd_pool_alloc: the entry has a reference but no operations yet
OpenDesc(p) ==
  /\ At(p, "desc")
  /\ IF FreeDescs = {} THEN Return(p, {"cur"}, 0) /\ UNCHANGED <<file, io>>
     ELSE LET d == Min(FreeDescs)
          IN  /\ file' = [file EXCEPT ![d] = [BlankFile EXCEPT !.refcnt = 1]]
              /\ io' = [io EXCEPT ![p].desc = d]
              /\ Move(p, [loc[p] EXCEPT !.pc = "fill"])
              /\ UNCHANGED <<vnode, scratch>>
  /\ UNCHANGED <<mnt, tmp, fdmap>>

\* The entry is filled in: a terminal keeps no vnode
OpenFill(p) ==
  LET v == loc[p].cur
      app == "append" \in loc[p].call.flags
  IN  /\ At(p, "fill")
      /\ IF vnode[v].type = "DEV"
         THEN /\ file' = [file EXCEPT ![io[p].desc].ops = "tty",
                                      ![io[p].desc].append = app]
              /\ vnode' = Released(vnode, p, {"cur"})
         ELSE /\ file' = [file EXCEPT ![io[p].desc] =
                            [refcnt |-> 1, ops |-> "vfs", vnode |-> v,
                             offset |-> IF app THEN vnode[v].size ELSE 0,
                             append |-> app]]
              /\ UNCHANGED vnode
      /\ Move(p, [Idle EXCEPT !.pc = "install"])
      /\ UNCHANGED <<mnt, tmp, scratch, fdmap, io>>

\* sys_open: the lowest free descriptor, or EMFILE
OpenInstall(p) ==
  /\ At(p, "install")
  /\ \/ /\ FreeFds(p) # {}
        /\ fdmap' = [fdmap EXCEPT ![p][Min(FreeFds(p))] = io[p].desc]
        /\ io' = [io EXCEPT ![p] = NoIo]
        /\ Move(p, Idle)
        /\ UNCHANGED file
     \/ /\ FreeFds(p) = {}
        /\ FdRelease(p, io[p].desc, "idle", NoNext)
        /\ UNCHANGED fdmap
  /\ UNCHANGED <<vnode, mnt, tmp, scratch>>

----------------------------------------------------------------------------
\* The calls on a descriptor

\* sys_close
Close(p, f) ==
  /\ At(p, "idle")
  /\ fdmap' = [fdmap EXCEPT ![p][f] = NULL]
  /\ FdRelease(p, fdmap[p][f], "idle", NoNext)
  /\ UNCHANGED <<vnode, mnt, tmp, scratch>>

\* sys_dup, sys_fcntl64 (F_DUPFD)
Dup(p, f) ==
  /\ At(p, "idle") /\ FreeFds(p) # {}
  /\ fdmap' = [fdmap EXCEPT ![p][Min(FreeFds(p))] = fdmap[p][f]]
  /\ file' = Acquired(file, fdmap[p][f])
  /\ UNCHANGED <<vnode, mnt, tmp, scratch, loc, io>>

\* sys_dup2: an open target is closed first; the source is taken after that
Dup2(p, f, g) ==
  /\ At(p, "idle") /\ f # g
  /\ \/ /\ fdmap[p][g] # NULL
        /\ fdmap' = [fdmap EXCEPT ![p][g] = NULL]
        /\ FdRelease(p, fdmap[p][g], "dup2", [desc |-> fdmap[p][f], fd |-> g])
     \/ /\ fdmap[p][g] = NULL
        /\ io' = [io EXCEPT ![p] = [NoIo EXCEPT !.fd = g, !.desc = fdmap[p][f]]]
        /\ Move(p, [Idle EXCEPT !.pc = "dup2"])
        /\ UNCHANGED <<file, fdmap>>
  /\ UNCHANGED <<vnode, mnt, tmp, scratch>>

Dup2Take(p) ==
  /\ At(p, "dup2")
  /\ fdmap' = [fdmap EXCEPT ![p][io[p].fd] = io[p].desc]
  /\ file' = Acquired(file, io[p].desc)
  /\ io' = [io EXCEPT ![p] = NoIo]
  /\ Move(p, Idle)
  /\ UNCHANGED <<vnode, mnt, tmp, scratch>>

\* vfs_fd_read, vfs_fd_write, vfs_fd_lseek: fd_get, or EBADF
Get(p, f, op, n) ==
  LET d == fdmap[p][f]
  IN  /\ At(p, "idle")
      /\ file[d].refcnt > 0 /\ file[d].ops # "none"
      /\ file' = Acquired(file, d)
      /\ io' = [io EXCEPT ![p] = [NoIo EXCEPT !.desc = d, !.op = op, !.n = n]]
      /\ Move(p, [Idle EXCEPT !.pc = "io"])
      /\ UNCHANGED <<vnode, mnt, tmp, scratch, fdmap>>

\* vfs_bridge_write on a file of tmpfs.  The end of the file is what this
\* vnode last knew of it.  region_alloc of the file's page may fail.
WriteAt(d) == IF file[d].append THEN vnode[file[d].vnode].size ELSE file[d].offset

TmpWrite(d, n) ==
  LET v == file[d].vnode
      i == vnode[v].ino
      off == WriteAt(d)
      new == Written(tmp, i, off, n)
  IN  \/ /\ CanWrite(tmp, i, off)
         /\ tmp' = new
         /\ vnode' = IF new.node[i].size > tmp.node[i].size
                     THEN [vnode EXCEPT ![v].size = new.node[i].size] ELSE vnode
         /\ file' = [file EXCEPT ![d].offset = off + WriteLen(off, n)]
      \/ /\ ~CanWrite(tmp, i, off) \/ ~tmp.node[i].page
         /\ file' = [file EXCEPT ![d].offset = off]
         /\ UNCHANGED <<tmp, vnode>>

\* vfs_bridge_read; vfs_fd_lseek (SEEK_SET to n, SEEK_END)
TmpRead(d, n) ==
  /\ file' = [file EXCEPT ![d].offset = @ + ReadLen(tmp, vnode[file[d].vnode].ino, @, n)]
  /\ UNCHANGED <<tmp, vnode>>

Seek(d, n) ==
  /\ \E off \in {n, vnode[file[d].vnode].size} :
       file' = [file EXCEPT ![d].offset = off]
  /\ UNCHANGED <<tmp, vnode>>

\* The operation, under the lock of the file; no terminal is seekable, and no
\* directory readable
Io(p) ==
  LET d == io[p].desc
      tmpfile == file[d].ops = "vfs" /\ ~InRoot(file[d].vnode)
                 /\ vnode[file[d].vnode].type = "FILE"
  IN  /\ At(p, "io")
      /\ \/ tmpfile /\ io[p].op = "write" /\ TmpWrite(d, io[p].n)
         \/ tmpfile /\ io[p].op = "read" /\ TmpRead(d, io[p].n)
         \/ file[d].ops = "vfs" /\ io[p].op = "lseek" /\ Seek(d, io[p].n)
         \/ /\ ~tmpfile /\ (io[p].op # "lseek" \/ file[d].ops # "vfs")
            /\ UNCHANGED <<tmp, vnode, file>>
      /\ Move(p, [Idle EXCEPT !.pc = "put"])
      /\ UNCHANGED <<mnt, scratch, fdmap, io>>

Put(p) == /\ At(p, "put")
          /\ FdRelease(p, io[p].desc, "idle", NoNext)
          /\ UNCHANGED <<vnode, mnt, tmp, scratch, fdmap>>

\* sys_vfork: the child, which has nothing open yet, shares its parent's files
Inherit(p, q) ==
  /\ At(p, "idle") /\ At(q, "idle") /\ p # q
  /\ OpenFds(p) # {} /\ OpenFds(q) = {}
  /\ fdmap' = [fdmap EXCEPT ![q] = fdmap[p]]
  /\ file' = [d \in Desc |-> [file[d] EXCEPT !.refcnt =
                @ + Cardinality({f \in Fd : fdmap[p][f] = d})]]
  /\ UNCHANGED <<vnode, mnt, tmp, scratch, loc, io>>

----------------------------------------------------------------------------
FdCall(p) ==
  /\ calls < MaxCalls
  /\ calls' = calls + 1
  /\ \/ \E f \in OpenFds(p) : Close(p, f) \/ Dup(p, f)
     \/ \E f \in OpenFds(p), g \in Fd : Dup2(p, f, g)
     \/ \E f \in OpenFds(p), op \in {"read", "write", "lseek"}, n \in Lens :
          Get(p, f, op, n)
     \/ \E q \in Proc : Inherit(p, q)

OpenStep(p) == \/ NameBuf(p) \/ OpenCreate(p) \/ OpenCreated(p) \/ OpenFound(p)
               \/ OpenTrunc(p) \/ OpenDesc(p) \/ OpenFill(p) \/ OpenInstall(p)

FdStep(p) == \/ OpenStep(p) \/ CloseOps(p) \/ Dup2Take(p) \/ Io(p) \/ Put(p)

Next == \/ \E p \in Proc : \/ PathCall(p) /\ UNCHANGED <<file, fdmap, io>>
                           \/ PathStep(p) /\ UNCHANGED <<calls, file, fdmap, io>>
                           \/ FdCall(p)
                           \/ FdStep(p) /\ UNCHANGED calls
        \/ Race /\ UNCHANGED <<calls, file, fdmap, io>>

Spec == Init /\ [][Next]_vars

----------------------------------------------------------------------------
\* Properties

TypeOK ==
  /\ DOMAIN vnode = Vnode
  /\ \A v \in Vnode :
       /\ vnode[v].refcnt \in Nat /\ vnode[v].size \in 0..FileMax
       /\ \/ vnode[v] = BlankVnode
          \/ vnode[v].mount = RootSlot /\ vnode[v].ino \in DOMAIN RootDir \cup {RootName}
          \/ vnode[v].mount \in Slot \ {RootSlot} /\ vnode[v].ino \in Ino
  /\ \A s \in Slot : /\ mnt[s].state \in {"FREE", "MOUNTING", "ACTIVE"}
                     /\ mnt[s].root \in Vnode \cup {NULL}
  /\ tmp \in [node : [Ino -> Inode], used : Nat, torn : BOOLEAN]
  /\ scratch \in 0..ScratchMax
  /\ \A p \in Proc : \A h \in Hands : loc[p][h] \in Vnode \cup {NULL}
  /\ file \in [Desc -> [refcnt : Nat, ops : {"none", "vfs", "tty"},
                        vnode : Vnode \cup {NULL}, offset : Nat, append : BOOLEAN]]
  /\ fdmap \in [Proc -> [Fd -> Desc \cup {NULL}]]
  /\ \A p \in Proc : io[p].desc \in Desc \cup {NULL} /\ io[p].vn \in Vnode \cup {NULL}

\* A vnode is counted once for every variable of the kernel that refers to it:
\* the locals of a call, an open file, an open file being closed, a mount.  No
\* error path of a walk or of a call loses a reference or gives one back twice
\* (lookup_walk_flags, vfs_fd_open, vfs_path_*, vfs_mount).
VnodeRefs ==
  \A v \in Vnode :
    vnode[v].refcnt = Cardinality({x \in Proc \X Hands : loc[x[1]][x[2]] = v})
                    + Cardinality({p \in Proc : io[p].vn = v})
                    + Cardinality({d \in Desc : file[d].vnode = v})
                    + Cardinality({s \in Slot : mnt[s].root = v})

\* Every path buffer is either free or held by a call under way, which knows
\* how many it has.  Buffers are asked for one by one while other walks do the
\* same; whichever of a group are missing, and whatever ends a walk at whatever
\* point, no error path of namei.c or vfs.c forgets one or frees one twice, so
\* that a walk refused for want of buffers can succeed later.
BuffersReturned ==
  scratch + Cardinality(UNION {{p} \X (1..loc[p].buf) : p \in Proc}) = ScratchMax

\* vfs_umount never takes a mount away under a walk or an open file: what a
\* process can still reach belongs to a mount that is there, and its directory
\* (vfs_umount and mount_at_acquire against the walk).
MountPinned ==
  /\ \A v \in Vnode : vnode[v].refcnt > 0 => mnt[vnode[v].mount].state # "FREE"
  /\ \A s \in Slot : mnt[s].state = "ACTIVE" => /\ vnode[mnt[s].root].mount = s
                                                /\ vnode[mnt[s].root].type = "DIR"

\* The process works on the entry now, besides the descriptors that name it.
Working(p, d) == io[p].desc = d /\ loc[p].pc \in {"fill", "install", "io", "put"}

\* An entry of the pool is counted once for every descriptor of every process
\* that names it and once for every call working on it, and is complete before
\* a descriptor names it: an entry is not given to another open while a read
\* on it is under way, nor kept when the last of them is gone
\* (fd_pool_alloc, vfs_fd_release).
DescRefs ==
  \A d \in Desc :
    /\ file[d].refcnt = Cardinality({x \in Proc \X Fd : fdmap[x[1]][x[2]] = d})
                      + Cardinality({p \in Proc : Working(p, d)})
    /\ (\E p \in Proc, f \in Fd : fdmap[p][f] = d) => file[d].ops # "none"

\* Until a second tmpfs is mounted besides the first, a directory of tmpfs has
\* at most one entry of each name, whoever creates or renames at the same time.
NamesUnique ==
  ~tmp.torn =>
  \A i, j \in {k \in Ino \ {RootIno} : tmp.node[k].active} :
    /\ i # j
    /\ tmp.node[i].parent = tmp.node[j].parent
    => tmp.node[i].name # tmp.node[j].name

\* Until a second tmpfs is mounted besides the first, the pages that inodes of
\* tmpfs hold, live or not, are counted: the counter never runs below zero and
\* so never lets tmpfs have more than its share.
PagesCounted ==
  ~tmp.torn =>
  /\ Cardinality({i \in Ino : tmp.node[i].page}) <= tmp.used
  /\ tmp.used <= PageMax
=============================================================================
