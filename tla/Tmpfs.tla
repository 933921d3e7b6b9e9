------------------------------- MODULE Tmpfs -------------------------------
(***************************************************************************)
(* The RAM file system (kernel/vfs/tmpfs.c) as functions of its inode      *)
(* table.  Each entry point but tmpfs_mount holds tmpfs_mutex from its     *)
(* first look at the table to its last change of it, so a call is one step *)
(* of its caller.  tmpfs_mount takes no lock, and makes a new mutex: when  *)
(* another tmpfs is there already, calls on the table no longer exclude    *)
(* each other, and from then on it is torn (Vfs.Race).                     *)
(*                                                                         *)
(* A table t is [node |-> inode table, used |-> data_pages_used,           *)
(* torn |-> whether two mounts have met].  File                            *)
(* contents, modes and times are left out; sizes count units of a write.   *)
(* The name and the parent of a free inode are never read: inode_free      *)
(* leaves them, the table here forgets them.                               *)
(***************************************************************************)
EXTENDS Naturals, FiniteSets, FiniteSetsExt

CONSTANTS InodeMax,   \* TMPFS_INODE_MAX
          PageMax,    \* TMPFS_MAX_PAGES: data pages of all files together
          FileMax,    \* TMPFS_FILE_MAX: units that fit the page of a file
          UintMax,    \* UINT32_MAX, the largest value of data_pages_used
          Name,       \* names of directory entries
          NoName

ASSUME TmpfsAssumption == /\ InodeMax \in Nat \ {0} /\ PageMax \in Nat
                          /\ FileMax \in Nat \ {0} /\ NoName \notin Name
                          /\ UintMax \in Nat /\ PageMax <= UintMax

Ino == 0..(InodeMax - 1)
RootIno == 0

Inode == [active : BOOLEAN, type : {"FILE", "DIR"}, name : Name \cup {NoName},
          parent : Ino, size : 0..FileMax, page : BOOLEAN]

BlankInode == [active |-> FALSE, type |-> "FILE", name |-> NoName,
               parent |-> RootIno, size |-> 0, page |-> FALSE]

\* tmpfs_mount: every inode is forgotten, whatever pages it holds, and the
\* root directory is made.  There is one table for all tmpfs mounts.
TmpMounted == [node |-> [i \in Ino |-> [BlankInode EXCEPT
                            !.active = (i = RootIno),
                            !.type   = IF i = RootIno THEN "DIR" ELSE "FILE"]],
               used |-> 0, torn |-> FALSE]

\* The live entries called n of directory d.
Entries(t, d, n) == {i \in Ino : /\ t.node[i].active /\ t.node[i].name = n
                                 /\ t.node[i].parent = d}

FirstEntry(t, d, n) == Min(Entries(t, d, n))

\* A directory that still holds something: unlink and rename refuse it.
HasChildren(t, i) == /\ t.node[i].type = "DIR"
                     /\ \E j \in Ino \ {i} : /\ t.node[j].active
                                             /\ t.node[j].parent = i

\* inode_alloc
FreeInodes(t) == {i \in Ino \ {RootIno} : ~t.node[i].active}

\* data_pages_used without the page of inode i; a torn table may not have
\* counted it.
UsedWithout(t, i) == IF ~t.node[i].page THEN t.used
                     ELSE IF t.used = 0 THEN UintMax ELSE t.used - 1

\* inode_free
InodeFreed(t, i) == [node |-> [t.node EXCEPT ![i] = [BlankInode EXCEPT
                                                     !.type = t.node[i].type]],
                     used |-> UsedWithout(t, i), torn |-> t.torn]

\* As tmpfs_create without the check for a duplicate.
CanCreate_NoCheck(t, d, n) == FreeInodes(t) # {}

CanCreate(t, d, n) == Entries(t, d, n) = {} /\ FreeInodes(t) # {}

\* tmpfs_create, tmpfs_mkdir: the first free inode is filled in from scratch.
Created(t, d, n, kind) ==
  [t EXCEPT !.node[Min(FreeInodes(t))] =
     [active |-> TRUE, type |-> kind, name |-> n, parent |-> d,
      size |-> 0, page |-> FALSE]]

\* tmpfs_unlink, for files and directories alike
CanUnlink(t, d, n) == /\ Entries(t, d, n) # {}
                      /\ ~HasChildren(t, FirstEntry(t, d, n))

Unlinked(t, d, n) == InodeFreed(t, FirstEntry(t, d, n))

\* tmpfs_rename: an entry already there under the new name is freed first,
\* then the inode that was found under the old name is moved.
CanRename(t, od, on, nd, nn) ==
  /\ Entries(t, od, on) # {}
  /\ \A i \in Entries(t, nd, nn) : ~HasChildren(t, i)

Renamed(t, od, on, nd, nn) ==
  LET src == FirstEntry(t, od, on)
      rid == IF Entries(t, nd, nn) = {} THEN t
             ELSE InodeFreed(t, FirstEntry(t, nd, nn))
  IN  IF rid.node[src].active
      THEN [rid EXCEPT !.node[src].parent = nd, !.node[src].name = nn]
      ELSE rid

\* As tmpfs_truncate, forgetting that the page is gone.
Truncated_KeepPage(t, i) ==
  [node |-> [t.node EXCEPT ![i].size = 0],
   used |-> UsedWithout(t, i), torn |-> t.torn]

\* tmpfs_truncate to length 0, the only length the kernel asks for
Truncated(t, i) ==
  [node |-> [t.node EXCEPT ![i].page = FALSE, ![i].size = 0],
   used |-> UsedWithout(t, i), torn |-> t.torn]

\* tmpfs_write of n units at off: whether it writes at all, how much, and the
\* table after it.  The page comes from region_alloc on the first write.
CanWrite(t, i, off) == off < FileMax /\ (t.node[i].page \/ t.used < PageMax)

WriteLen(off, n) == Min({n, FileMax - off})

Written(t, i, off, n) ==
  [node |-> [t.node EXCEPT ![i].page = TRUE,
                           ![i].size = Max({@, off + WriteLen(off, n)})],
   used |-> IF t.node[i].page THEN t.used ELSE t.used + 1, torn |-> t.torn]

\* tmpfs_read
ReadLen(t, i, off, n) == IF off >= t.node[i].size THEN 0
                         ELSE Min({n, t.node[i].size - off})
=============================================================================
