# A TLA+ verification of the PPAP kernel

PiPAPo (PPAP) is a small Unix-like kernel for microcontrollers and
old personal computers: preemptive processes without an MMU, vfork/execve/waitpid,
signals, ptrace, pipes, terminals and a VFS with several file systems. It runs on
one or two cores. This directory models the parts of it in which the order of
events matters, checks them with TLC and proves theorems about them with TLAPS.

Paths below are relative to `src/src/kernel/` unless they start with `docs/`.

## 1. Inventory

### How the parts fit together

- A **process** is a slot of `proc_table` (`core/proc/proc.c`). Its `state` is the
  one variable the scheduler looks at: FREE, RUNNABLE, SLEEPING (until a tick),
  BLOCKED (on `wait_channel`), TRACED_STOP, ZOMBIE, REAPING.
- **Spin locks** (`SPIN_PROC`, `SPIN_SCHED`, `SPIN_PIPE`, `SPIN_FD`, `SPIN_VFS`, ...)
  mask interrupts and, on dual-core targets, exclude the other core. Between two
  critical sections of one function anything can happen: the timer preempts the
  kernel (`arch/i16` "Preempt from any state"), the other core runs on.
- **Sleeping** is always: check a condition, mark the process BLOCKED or SLEEPING,
  `sched_switch()`, check again. Wakers call `sched_wakeup(channel)`, `sys_kill`,
  `proc_wake_blocked_pid_locked` or are the timer tick. Whether a wakeup can fall
  between check and sleep depends on which lock covers both.
- **kmutex** is the sleeping lock of the VFS layer: every `struct file` has one, so
  have tmpfs and UFS. A process that dies leaves its mutexes to `proc_free`.
- The **core** and **vfs** modules call each other only through the tables
  `mod_core` and `mod_vfs` (`common/mod`).

### Components

| Component | State | Operations | Hard behaviour | What makes it correct |
|---|---|---|---|---|
| kmutex (`core/sync/kmutex.c`) | owner, held list of each process | init, lock, try_lock, unlock, release_owned | unlock and wakeup are two steps; owners die | exclusion, no lost wakeup, nothing left locked by the dead |
| pipe (`vfs/pipe.c`) | ring, counts of ends, pool slot | alloc, read, write, close | sleeping on both sides of one channel, signals, last close | it is a byte channel; sleepers are served |
| life cycle (`core/syscall/sys_proc.c`, `core/proc/proc.c`) | pcb: pid, ppid, vfork_parent, pages, state | vfork, execve, exit, waitpid | vfork shares a stack; exit races waitpid; slots are reused | every exit reaches a parent, pages are freed by their owner |
| ptrace (same file) | tracer_pid, trace flags | TRACEME, ATTACH, CONT, DETACH, peek/poke | tracer works on a target without the lock | the stopped target stays put |
| signals (`core/signal/signal.c`) | sig_pending, sig_blocked, handlers | kill, delivery, sigaction, sigprocmask | kill against a process about to sleep | a signal ends a sleep |
| scheduler (`core/proc/sched.c`) | running_on_core, time slices, tick counter | sched_next, sleep, wakeup, tick | two cores, wrap of the counter | nobody sleeps past a deadline, nobody runs twice |
| time, poll (`core/syscall/sys_time.c`, `sys_poll.c`) | sleep_until | nanosleep, poll, wall clock | deadline, input and signal race the sleep | not early, not for ever |
| descriptors (`vfs/fd.c`, `core/syscall/sys_fs.c`, `sys_io.c`) | fd_pool with reference counts, fd_map | open, dup, dup2, close, read, write, lseek, pipe | an entry published before its operations are filled in, lookup against last close, pool exhaustion | an entry lives as long as a reference |
| TTY (`vfs/tty.c`) | line buffer, foreground group | read, write, ioctl, rx_notify | input interrupts against a reader | no input is lost or read twice |
| pages, regions (`core/mm/`) | array of free blocks, sorted and coalesced | alloc one page, a run, given pages; free | split, merge on either side, a full array | the free list is canonical |
| user memory (`core/syscall/sys_mem.c`) | user_pages table, break, stack page | brk, mmap2, munmap | page by page, failure halfway, others allocate meanwhile | every page is free or has one owner |
| loaders (`core/exec/`) | the new image | load, relocate, arguments | failure after some of the pages are taken | what was taken is given back |
| VFS core (`vfs/vfs.c`, `namei.c`) | vnode pool, mount table, path buffers | lookup, stat, mkdir, unlink, rename, link, mount, umount | umount against lookups, error paths of the walk | references are exact, a mount in use is not freed |
| tmpfs (`vfs/tmpfs.c`) | one inode table, page count | create, mkdir, unlink, rename, read, write, truncate | calls through a vnode whose file is gone | a name leads to one inode, pages are counted |
| UFS (`vfs/ufs.c`) | bitmaps, inodes, directories, free counts | create, mkdir, link, unlink, truncate, write, mount | order of disk writes, power loss, stale vnodes | no block belongs to two files, no name dangles |
| VFAT | clusters, directories | create, write, unlink, rename | order of disk writes, power loss | no cluster belongs to two files |
| romfs, devfs, procfs, klog, block and display drivers, CPU emulators, subsystems, architectures, user land | - | - | mostly data and devices | - |

`PROJECT.json` lists each component with its sources and status, and every hazard
with the line at which it bites.

## 2. Modules

| Module | Models | Built on |
|---|---|---|
| `Kmutex` | `core/sync/kmutex.c`, sleep and wakeup, death of an owner | - |
| `KmutexProofs` | theorems about `Kmutex` | `Kmutex`, TLAPS |
| `Pipe` | `vfs/pipe.c`, `file.lock`, the page loop of `sys_io.c`; its refinement mapping | `ByteChannel` |
| `PipeProofs` | theorems about `Pipe`, with the refinement | `Pipe`, TLAPS |
| `ByteChannel` | what pipe(2) promises: the abstract specification of `Pipe` | - |
| `ProcLife` | vfork, execve, exit, waitpid, kill, ptrace, dispatch | - |
| `ProcLifeProofs` | theorems about `ProcLife` | `ProcLife`, TLAPS |
| `Timers` | tick counter, `sched_tick`, nanosleep, poll | - |
| `TimersProofs` | theorems about `Timers` | `Timers`, TLAPS |
| `Tmpfs` | `vfs/tmpfs.c` as functions of its inode table | - |
| `Vfs` | vnodes, mounts, the path walk and the calls by path | `Tmpfs` |
| `Files` | `vfs/fd.c` and the calls on descriptors, over walk and file systems | `Vfs` |
| `FilesProofs` | theorems about `Files` | `Files`, TLAPS |
| `Ufs` | `vfs/ufs.c` and the disk, one write at a time | - |
| `UfsProofs` | theorems about `Ufs` | `Ufs`, TLAPS |
| `PagePool` | `core/mm/page_pool.c`, `page.c`, `region.c` as functions of the pool | - |
| `PagePoolProofs` | what each call of the allocator does, as theorems | `PagePool`, TLAPS |
| `Memory` | execve, exit, vfork, brk, mmap2, munmap as owners of pages | `PagePool` |
| `MemoryProofs` | the free list and the owners of pages under those calls | `Memory`, `PagePoolProofs` |
| `MCKmutex`, `MCPipe`, `MCProcLife`, `MCTimers`, `MCFiles`, `MCUfs`, `MCMemory` | instances for TLC | the above |

**Granularity.** A step holds at most one critical section of a spin lock that takes, tests or
publishes something, with what the function does on its own variables around it; two such
sections are two steps. Two things are coarser: the references and path buffers a call gives
back one after another at its end are one step (each only adds to a pool, and the call looks at
nothing in between), and a call of tmpfs is one step as long as `tmpfs_mutex` excludes the others
(below). Two things are finer: a process that holds `SPIN_PIPE` and is about to take `SPIN_PROC` to sleep can
be overtaken by code of the other core that takes `SPIN_PROC` only (`Decide` and `Sleep` of `Pipe`),
and stores made without any lock are steps of their own where others look at them (`PtraceDetach`,
`DetachClear`).

### Kmutex

`state`, `wait_channel` and `kmutex_held` are the pcb fields, `owner` is the field of
the mutex; the intrusive list is the set of its members. `inside[p]` is the set of
mutexes whose critical section the code of `p` is executing: it is what exclusion is
about, and differs from `owner` when an owner dies. Actions: `LockCall`, `LockAcquire`,
`LockBlock`, `LockRecursive` (panic), `TryLockAcquire`, `TryLockRecursive`, `Unlock`
and `UnlockNonOwner` (panic), `Wakeup` (the `sched_wakeup` after the unlock),
`Interrupt` (`sys_kill` wakes a sleeper), `Exit`, `Reap`, `ReleaseOne`, `ReleaseDone`
(`kmutex_release_owned` and `proc_free`), `Spawn`. `Nests` says in which order callers
nest mutexes, `Misuse` whether they unlock what they do not own (as `ktest.c` does).

### Pipe and ByteChannel

The ring keeps its one-slot gap and its wrap; the i-th byte written has the value i.
`readers` and `writers` are the counts of `pipe_t`, `open` the descriptors of each
process, `flock` the mutex of each end's `struct file`, which a sleeping reader or
writer holds. A request that crosses a page is two `fd` calls (`chunk`, `rest`).
`cores` is the number of cores of the board, chosen in `Init`: with two, other code can
run between `Decide` and `Sleep`.
`ByteChannel` has a written and a received sequence and two open flags; put, get, end
of file, EPIPE, EAGAIN and EINTR are its steps. `ImplementsByteChannel`
instantiates it with the mapping `written <- 1..sent`, `readOpen <- HasOpen("r")`,
`writeOpen <- HasOpen("w")`.

### ProcLife

Slots `1..NSlots`; `Init` is the state after boot, with init (pid 1) and one shell. The
pages of a process are one value, the slot whose execve allocated them, so that sharing
by vfork and freeing by the wrong process are visible. `pc` and `loc` are the place in
the system call and its local variables, kept across steps because the code keeps them
while it has dropped the lock (`zombie_slot` in waitpid, `child` in vfork, `target` in
ptrace). `core` is the set of slots on a core; `leaving` the slots whose ended process
has not yet switched away; `undead` records that such a process was resumed. PTRACE_DETACH clears
`tracer_pid` and the rest of the trace fields without the lock before it resumes the target:
`PtraceDetach`, `DetachClear` and `PtraceCont` are its three steps.
init never exits and is not killed.

### Timers

`tick_count` and `sleep_until` have `Width` bits and wrap. A tick has `Sub` units, so a
call can begin between two ticks. Only terminals can be polled and not be ready: pipes
and plain files have no `poll` callback. `fd_poll` and `fd_get_priv` take `file.lock`,
which a reader asleep in `tty_read` holds (`ReadCall`, `ReadEnd`). `age` and `waited`
only observe: how long the call has lasted, and whether it ever met a held lock. Durations are in
units of time, any number of them; `NapTicks` and `PollTicks` convert them to ticks with the
arithmetic of the code, modulo the range of the counter, and `asked` keeps what the conversion should
have given.

### Tmpfs, Vfs, Files

`Tmpfs` is a set of operators from table to table (`Created`, `Unlinked`, `Renamed`, ...):
each entry point but `tmpfs_mount` holds `tmpfs_mutex` throughout, so a call is one step of its
caller. `tmpfs_mount` takes no lock and makes the mutex new. While no other tmpfs is mounted or being
mounted nobody else is in the driver, and it is one step too; otherwise the table is `torn`: from then on
`Race` may put any table of `Tables` in its place between two steps, and nothing is claimed of the
contents of the table any more. `Vfs`
has the vnode pool, the mount table, the free path buffers and, in `loc`, what each process
does and refers to. Each `vfs_scratch_alloc` is a step (`Names`, `Normalize`, `WalkBuffers`, `WalkLink`): the code
asks for all buffers of a group and looks afterwards at what it got, so a group may be had in part, and
the failure gives back that part. A walk takes one component per step, crosses mounts, expands symbolic
links up to `SymloopMax`, and can fail wherever the code has an error return (no directory, a name or path
too long, a link that cannot be read). `Files` adds
`file` (the entries of `fd_pool`), `fdmap` and `io` (the entry a call works on). Its actions are
the steps of open (`NameBuf`, `OpenCreate`, `OpenCreated`, `OpenFound`, `OpenTrunc`, `OpenDesc`,
`OpenFill`, `OpenInstall`), `Close`, `CloseOps`, `Dup`, `Dup2Take`, `Get`, `Io` and `Put`,
`Inherit` (vfork). A path is a sequence of names. Sizes live twice, as in the code: in the inode
and in each vnode.

### Ufs

The disk is `ibit`, `bbit`, `inode`, `content` and `sb`; `free`, `open` and `op` are in memory and
lost with the power. `ufs_mutex` admits one call at a time, so `op` is one record; each write that
the next mount or a later call can see is a step, and `PowerCut` may fall between any two. Vnodes
in `open` carry the type they had when they were looked up and go stale when somebody removes the
file. `hurt` records that the run went through one of the damaging places listed in section 5
("trunc", "count", "stale"): the invariants say what is kept on all other paths.

### PagePool and Memory

`PagePool` has the array of free blocks and the three ways to take pages (the last page of the
last block, the first run that fits, given addresses) and to free a run with merging. In `Memory`
each allocator call is a step: `hold` is what an execve has taken so far, `claim` the pages brk or
MAP_FIXED take one by one, `drop` what a call still has to free. A growing brk puts each page in its slot at
once (`BrkPage`), and a page it does not get clears the slots it has filled; MAP_FIXED fills its slots
at the end (`ClaimDone`). `execve` keeps the old table until
`ExecCommit`; the code saves it in a page and restores it on failure, which no other process can tell.
A vfork child shares its parent's table and frees nothing of it (`OwnTable`). `maps` is a ghost: the
mappings the program was given. `wild` is set by the three accidents after which the tables mean nothing: a page of brk put over
the slot of a mapping, brk in a vfork child, and a vfork parent that runs before its child has left
(section 5); nothing after them is explored. Images have data and a stack of their own (not 8086),
and programs unmap only parts of one mapping they were given.

## 3. Runs

| Run | Instance | Shows |
|---|---|---|
| `kmutex_any_caller` | 4 processes, 2 mutexes, any nesting, misuse, any process may die in the kernel | `MutualExclusion`, `NoLostWakeup`, `NoOrphanedMutex` |
| `kmutex_ordered` | 3 processes, file lock outside file system mutex, fairness | `NoPanic`; a waiter of an innermost mutex wakes (`WaiterWakes`) |
| `pipe_shared` | 2 processes, ring of 3, requests up to 2, F_SETFL on both ends, one core and two cores, fairness | `ImplementsByteChannel`, `NoLostWakeup`, `SignalEndsSleep`, `CountsMatchEnds`, `SlotLifetime`, `WriteNeedsReader`, `SleeperServed` |
| `proc_smp` | 4 slots, 5 pids, two cores | `NoLostExit`, `OrphansAdopted`, `VforkParentNotStranded`, `PagesFreedByOwner` |
| `proc_trace` | 3 slots, 4 pids, one core, kill and ptrace | `NoLostExit`, `ReapedByParent` |
| `proc_live` | 3 slots, 4 pids, one core, fairness | `WaiterReturns` |
| `proc_vfork_resumed` | 4 slots, one core | **violation** of `VforkParentStays` |
| `proc_slot_shared` | 3 slots, one core, overlapping vforks | **violation** of `SlotAllocatedOnce` |
| `timers_wrap` | 3-bit counter, 2 units per tick, one sleeper, one reader, fairness | `NoEarlyReturn`, `OversleepBounded`, `DeadlineServed` |
| `files_smp` | 2 processes, 4 calls by colliding names, through links, across two tmpfs mounts on one inode table | `VnodeRefs`, `BuffersReturned`, `MountPinned`, `DescRefs`, `NamesUnique`, `PagesCounted` |
| `ufs_power` | 3 inodes, 4 blocks, 5 calls, one power cut | `BlocksOwned`, `NamesLiveAfterCut`, `FreeExact` |
| `memory` | 3 processes, 10 pages, 4 table slots, 6 calls | `PoolCanonical`, `OwnedOnce`, `GivenIsHeld` |

Every property of a passing run has a mutant in `PROJECT.json`: a variant of one mapped
definition, next to it in the module, under which TLC finds the property violated.

**Bounds and why they are enough.** Kmutex: a third process is needed to steal a mutex
between unlock and wakeup, a fourth to reap an owner meanwhile; two mutexes make nesting
and a held list of more than one. Pipe: a ring of 3 holds 2 bytes, so requests of 1 and 2
fill it, split and wrap, and 4 bytes pass it twice; two processes with both ends each include a reader and a writer
on both sides. ProcLife: four slots give init, a parent, a child and a grandchild; with
5 pids a slot is reused at least once, which the stale-slot hazards need. Timers: the
counter wraps many times within a run, the deadline 0 is reached, and the durations cover
less than a tick, several ticks below half the range of the counter, and more than half of it.
Files: four calls are an open, a removal or rename against it, a mount change and a reuse; the pools
(4 vnodes, 2 entries, 2 descriptors, 1 page, 3 inodes) all run out, and so do the 8
path buffers when two walks meet: the names of a rename, the buffers of a walk and those of a link are each had in part.
A tmpfs can be mounted at two places; when both are, the table may become one that has a name twice and pages that
are not counted (`Tables`). Ufs: two files besides
the root; a directory block of one entry makes directories grow; 5 calls reach make, look up,
remove, reuse and use of the stale vnode. Memory: a program executed in place, one that is staged and
one too big for the pool; fragments of one page, runs that fit nowhere and failures after each
allocation of an execve all occur.
`MaxBytes`, `MaxPid`, `Lag`, `MaxCalls`, `MaxOps` and `MaxCuts` are bounds in guards: bytes over the
life of a pipe, pids handed out, ticks a runnable process waits for a core, calls and power cuts.
`UintMax` stands for UINT32_MAX, at which the page counter of a torn tmpfs wraps.
In `Memory` the processes but the first are interchangeable, in `Files` all are: the runs use symmetry.

**Fairness.**
- Kmutex: weak on what a process does once it is inside `kmutex.c` (round robin), strong
  on unlock: a critical section is finite. No fairness for taking a contended mutex:
  `kmutex_unlock` hands it to nobody, so an outer lock may be starved and
  `WaiterWakes` does not claim otherwise.
- Files, Ufs and Memory state safety only and assume none.
- Pipe: weak on the steps inside the kernel. Programs need not do anything.
- ProcLife: strong on `Dispatch` (round robin over a fixed table), weak on `Preempt` (time
  slices end), strong on the steps of waitpid, weak on `ExitSwitch`.
- Timers: weak on time and on the steps inside a call. `InTime` bounds how long round robin
  leaves a runnable process without a core.

**Deadlock** is not checked where the system may stop: a panicked kernel, a process that
reads a pipe only it could write, bounded pids and calls.

## 4. Proofs

A theorem holds for every value of the constants that satisfies the named `ASSUME`s of the module
(TLC evaluates them in the runs), and not only for the instances of section 3. Each proof module
defines an inductive invariant `IInv`, shows `Init => IInv` and, with one lemma per action,
`IInv /\ [Next]_vars => IInv'`, and derives the properties.

| Module | Theorem | Property | Under |
|---|---|---|---|
| `KmutexProofs` | `TypeCorrect`, `Exclusion`, `WakeupNotLost`, `NothingOrphaned` | `TypeOK`, `MutualExclusion`, `NoLostWakeup`, `NoOrphanedMutex` | - |
| | `DisciplineAvoidsPanic` | `NoPanic` | irreflexive `Nests`, no misuse |
| `PipeProofs` | `TypeCorrect`, `WakeupNotLost`, `SignalNotLost`, `CountsRight` | `TypeOK`, `NoLostWakeup`, `SignalEndsSleep`, `CountsMatchEnds` | - |
| | `SlotGivenBack`, `WritesAreReadable`, `Refinement` | `SlotLifetime`, `WriteNeedsReader`, `ImplementsByteChannel` | - |
| `ProcLifeProofs` | `TypeCorrect`, `ExitNotLost`, `NoOrphans`, `ReapedOnce`, `VforkParentWoken`, `PagesSafe` | `TypeOK`, `NoLostExit`, `OrphansAdopted`, `ReapedByParent`, `VforkParentNotStranded`, `PagesFreedByOwner` | `SerialVfork` |
| `TimersProofs` | `TypeCorrect`, `NeverEarly`, `NeverOverslept` | `TypeOK`, `NoEarlyReturn`, `OversleepBounded` | `LagAssumption`, `RangeAssumption` |
| `FilesProofs` | `TypeCorrect`, `VnodesCounted`, `BuffersKept`, `DescriptorsCounted` | `TypeOK`, `VnodeRefs`, `BuffersReturned`, `DescRefs` | `PathAssumption` |
| | `MountsPinned`, `NamesStayUnique`, `TmpfsWithinShare` | `MountPinned`, `NamesUnique`, `PagesCounted` | `PathAssumption` |
| `UfsProofs` | `TypeCorrect`, `DiskConsistent`, `NamesLive`, `CountsExact` | `TypeOK`, `BlocksOwned`, `NamesLiveAfterCut`, `FreeExact` | - |
| `PagePoolProofs` | `TakeNCorrect`, `TakeAtCorrect`, `PageFreeCorrect` | what a call takes, gives and leaves | `RoomAssumption` |
| `MemoryProofs` | `FreeListCanonical`, `PagesOwnedOnce`, `ProgramsKeepPages` | `PoolCanonical`, `OwnedOnce`, `GivenIsHeld` | `RoomAssumption` |

The conditions in the last column are not there to get a proof through: without `SerialVfork` and the discipline of
`NoPanic` the property is false and TLC has a counterexample (section 5, item 2); `RoomAssumption` is how the array is sized, `PathAssumption` what the calls' arguments are, and
`LagAssumption` how long the scheduler may leave a process without a core (below). They say on which systems the code is right.
Some properties are conditional themselves, because the code gives no more: `OwnedOnce` and `GivenIsHeld` hold until `wild`, those of
UFS until `hurt`, `NamesUnique` and `PagesCounted` until `torn`, `SignalEndsSleep` on one core, `NoEarlyReturn` for durations that survive the
conversion to ticks and are below half the range. The accidents are actions of the models, the theorems are about every run up to them.

**Kmutex.** Exclusion speaks of the code that is executing; the code decides by `owner`.
`OwnerIsHolder` (owner fields and held lists are one relation) and `InsideIsHeld` (code inside a
section holds the mutex) connect them. A sleeper's channel must be known to be the mutex it asked for
(`SleeperInLock`, `ArgIsMutex`) for `NoLostWakeup` to survive another process's unlock. Releasing the
mutexes of the dead takes several steps of another process, so the invariant also says that a slot in
REAPING has exactly one reaper (`OneReaper`) and that the dead execute nothing and a freed slot holds
nothing (`DeadIsIdle`). `NoPanic` needs in addition `AsksInOrder`: a live process holds exactly what
its code is inside of, and what it asks for may nest in that.

**Pipe.** The invariant says where a process can be while it sleeps, who holds which `file.lock`, and
that a process about to sleep has seen a condition which is still true or has a wakeup coming;
the lock of a file makes a sleeper the only one in its call, and its end stays open. It also ties `readers` and
`writers` to the descriptors, with the one way in which they can be wrong: once the last read end has been closed with
O_NONBLOCK in its flags word (`pipe.c:181`), `readers` stays 1 and `writers` is one too low (`Miscounted`). The refinement
survives this: a channel takes bytes whether or not somebody can read them, and EPIPE and the end of file are
told only when they are true; what is lost is that EPIPE is told at all (item 3). It adds that the ring holds exactly the bytes sent and not
yet received, in order: lemmas on `Used`, `Space` and the index arithmetic modulo the ring size
show that a put and a get keep this across the wrap.

**ProcLife.** The slots in other processes' hands carry the argument: `loc` of a process in vfork,
waitpid or ptrace names a slot, and the invariant says in which states that slot can be, that no two
processes hold the same one for freeing or filling, and that live slots have different pids. From this
follow the parent relation across exits and adoptions and the ownership of pages. `SerialVfork` is needed
because `proc_alloc` hands out a slot twice otherwise (item 2). The target of a ptrace call is no such slot: DETACH and ATTACH
can overlap on it (item 4), and the invariant asks nothing of it but a slot number.

**Timers.** A deadline is a number modulo the range of the counter, time is not. `CallInv` keeps, for each
process in a call, a witness: the true number of ticks it has seen, equal to `tick_count` modulo
the range, and the bound on its distance from the deadline. The signed comparison of the code is then
right because that distance is below half the range; for a longer duration nothing is claimed, and the code breaks it (item 6).
The provers know nothing of powers of two, so
the proof uses `RangeAssumption`, which every `Width` of at least 2 satisfies. It showed that `Lag` must
stay one tick below half the range, and `LagAssumption` says so: a process that waited longer for a core
could find its deadline in the future again.

**Files.** A count is right when every step that changes it also changes what it counts, and the steps of a
walk act on references they took many steps before. The three counts (`VnodeRefs`, `DescRefs`,
`BuffersReturned`) are therefore part of the invariant as they stand, and the rest says what the code knows when it
gives something back:
- `Holding`: the point a process is at tells which of `cur`, `pin`, `child` and `par` are set and how many
  path buffers it has: those of its caller, those of the walk, and of the group it is taking as many as `got` says. It holds
  on every way to a point, so an error path that gives back what is held there gives back everything. `Within` says which calls can be at the second walk;
- `VnodesFit` and `MountsFit`: a vnode in use belongs to an active mount, or is the root, with one reference, of a mount
  that is being made. When umount finds the root with one reference only, and no other vnode
  of the mount, nothing else refers to the mount. `MakingMount` gives each process in `vfs_mount` a slot of its own, since it
  calls the driver without the lock; `AtLink` says that what readlink reads is still a link;
- `FilesFit` and `Handles`: what a call on a descriptor knows of its entry between two locked sections; dup2 finds a
  descriptor that still names the entry after it has closed the one in its place;
- `TmpOK`: what each operator of `Tmpfs` keeps of the inode table, by a lemma for each: its types always (`TmpTyped`), unique
  names and counted pages until it is torn (`Whole`). `Race` keeps the first, so that the theorems about references, buffers and mounts hold whatever a race leaves.

Cardinalities change by lemmas on sets of pairs: changing one row of `Proc \X Hands`, `Proc \X Fd` or of the buffers
changes the count by the difference of the rows (`CountRow`, `BufRow`). Every action on paths then needs only
its own bookkeeping, an equation between the references of the process before and after (`PathKept`); opens and the calls on
descriptors have the same with the entry besides (`FilesStep`, `FdDescs`). `PathAssumption` says that paths are
normalised sequences of names, and that a call which looks up a parent is not given the root: `vfs_lookup_parent`
refuses it, and the model leaves that refusal out. It also says that what a race leaves of the tmpfs table is a table: its fields have their types, and its root has no name.

**Ufs.** Conditions on single inodes are not inductive because a vnode or an entry may lead to a number that
has been reused. The invariant states that there is a set `S` of inodes that later calls may still
meet, closed under entries, vnodes, free numbers and the call under way (`Reached`), and that on `S` the
disk is a tree: blocks are marked and apart, a file has no more names than it counts, a directory
at most one, and only directories hold entries (`Tree`). For the call under way it states what is known at
each point: the new inode has no name (`Fresh`), the new block no owner (`NewBlock`), the copy that
unlink or write will store has the right blocks (`Dropping`, `Extending`). A file that loses power
while its blocks are freed leaves `S`: it has no name left. `FreeExact` follows because by the same facts
no bit is set or cleared twice. The proof found two places of damage that the small run had not
reached (item 18), which are now recorded in `hurt`.

**PagePool and Memory.** `Canonical` compares neighbours only. The proofs use `Sorted`, which compares any
two blocks, because the provers cannot do the induction from one to the other; `Well` adds that the total counts
the pages. Lemmas say what removing, changing and inserting a block does to the set of free pages, and that a sorted
list has no more blocks than the pool has pages. With `RoomAssumption` (`FREE_BLOCKS_MAX` is
`PAGE_COUNT_MAX`, `page_pool.c:22`) the array therefore never is full when a block goes in: what the comment there
promises ("we are guaranteed to never drop a free") is theorem `PageFreeCorrect`. That a run of free pages lies in one block
makes first fit complete (`TakeNCorrect`). For `FreeListCanonical` `Memory` adds only that execve asks for a number
of pages.

Who owns a page needs much more. A page is in the free list, in a table, or in the hands of a call (`hold`,
`claim`, `drop`); `OneOwner` says that these are apart for different processes and apart from the free list. That is
not inductive: a vfork child names its parent's pages without owning them, and a call acts on what it
found out earlier. `OInv == wild \/ Sane` adds to it:
- `Ancestry`: there is a function that gives each process its ancestors by vfork, all asleep until it
  calls execve or exits. A child's table is therefore not changed by its owner while the child reads it, and the child gives
  nothing of it back. The function is a witness in the proof: it shrinks when a child leaves and grows by vfork;
- `Apart`: inside one process table, call and leftovers have no page in common and none twice;
- `Phase` and `Stages`: at each point of an execve, brk, mmap2, munmap or exit which of them is empty, and what the
  sizes taken so far have to do with the image;
- `Heap`: the first slots hold consecutive pages up to the break, so that the slots brk gives back are the
  pages between the two breaks;
- `Mappings`: every mapping the program has lies at consecutive slots above the break;
- `Claiming`: the pages brk or MAP_FIXED claim one by one follow each other, those of brk in the slots above the break, and failure gives back exactly these.
One lemma per action shows that each part is kept; the theorems of `PagePoolProofs` say what an action does to the
free list. `MemoryAssumption` asks for a pool that holds the kernel, a first program and two free fragments, which is
what `Init` describes. The three accidents that set `wild` are where the property really fails (items 1, 7 and 20).

**Only model-checked.** Liveness and everything under fairness (`WaiterWakes`, `SleeperServed`,
`WaiterReturns`, `DeadlineServed`): liveness and ENABLED are out of the prover's reach. Every invariant and every action
property of a passing run is stated by a theorem. Induction over data is out of reach as well, and
nothing here needs it: no module uses RECURSIVE operators or folds.
No run lists `TypeOK` of `Files` and of `Ufs`; both are proved.

## 5. Where code and text disagree

Carried as runs, with a finding each:

1. `core/syscall/sys_proc.c:1870`: the vfork parent is resumed by any wakeup addressed to it
   (another child's exit), while its child still runs on its stack.
2. `core/proc/proc.c:163`: `proc_alloc` returns a slot that is still FREE; a second vfork gets it
   too. The other ProcLife runs look at schedules without this (`SerialVfork = TRUE`).

Seen with TLC on the same modules, or met while writing them, and not carried as runs of their own:

3. `vfs/pipe.c:181` compares the whole flags word to tell which end is closed. After
   `fcntl(F_SETFL, O_NONBLOCK)` on the reading end its close is counted as a writer's, and writes go on
   into a pipe nobody can read, where `docs/kernel/syscall.md:525` promises -EPIPE. `CountsMatchEnds` and `SlotLifetime`
   name this one way to be wrong.
4. `core/syscall/sys_proc.c:1470`: PTRACE_DETACH clears `tracer_pid` without the lock; another tracer attaches
   before the target is resumed, and loses the stop that "pins the PCB slot" (1368) under its hands: `TargetPinned` of
   `ProcLife` fails with `Cores = 1` and `Tracers = {1, 2}`. With two cores ATTACH itself (1352) marks a process that
   still runs on the other core.
5. `sys_proc.c:1606`: with two cores ZOMBIE is published before the process has left the slot's stack, and a
   parent on the other core reaps and reuses it. The comment at 1518 says it "will never be scheduled again":
   `ExitIsFinal` of `ProcLife` fails with `Cores = 2`.
6. `core/syscall/sys_time.c:114`: the cap on `tv_sec` that the comment at 104 mentions is not in the code. A deadline
   half the range of the counter or more ahead counts as past, and still larger numbers of ticks wrap in 32 bits:
   the sleep ends early (`LongSleepsLast` of `Timers` fails in the instance of `timers_wrap`).
7. `core/syscall/sys_mem.c:149`: brk grows over the table slots mmap2 took from the top, although line 173 says
   they are there "to avoid colliding with brk growth" (`MapsApart` of `Memory` fails in the instance of `memory`).
   When a later page of that brk fails, the rollback (145) clears the slots all the same.
8. With two cores `SignalEndsSleep` fails (`vfs/pipe.c:131` and `168`; `docs/kernel/syscall.md:901`).
9. `sys_kill` does not end a traced stop (`core/signal/signal.c:104`), though the comment at
   `sys_proc.c:294` names it; a tracee whose tracer has exited stays stopped.
10. `waitpid(WSTOPPED)` of a child stopped by another tracer loops without sleeping and without
    looking at signals (`sys_proc.c:1946`; the comment at 1890 promises -EINTR).
11. A write to a partly full pipe is split (`vfs/pipe.c:152`), `docs/kernel/syscall.md:534`
    promises atomic writes up to PIPE_BUF.
12. `nanosleep` truncates to ticks and starts inside one, so it can end early; `sys_time.c:93`
    says "at least the duration". `NoEarlyReturn` states what is kept.
13. A poll with a timeout waits without limit for `file.lock` when another process is asleep in
    `read` of the same file (`vfs/fd.c:308`); the same call does not notice input or a signal that
    comes between its checks and its sleep, or input on a file other than the first
    (`sys_poll.c:12-15` promises all three).
14. A poll whose deadline is exactly tick 0 after the wrap is never woken by time
    (`core/proc/sched.c:112`).

Files, path walk and tmpfs:

15. O_APPEND writes at the size kept in the vnode of this open (`vfs/fd.c:83`), which another open's
    write does not move; `docs/kernel/syscall.md:427` says the end of the file.
16. `tmpfs_rename` of a name to itself frees the file. After `unlink` of an open file a write gives a
    page to a free inode, which stays counted and is lost when the inode is reused; create and rename
    into a removed directory succeed. A second tmpfs mount clears the one table, without the lock and with a
    new mutex (`vfs/tmpfs.c:103`): calls under way no longer exclude each other.
17. The comment at `vfs/vfs.c:38` counts the path buffers for one walk; two walks through links, or a
    rename through one, can exceed it and fail with ENOMEM. The documented symlink depth of 8 is
    `VFS_SYMLOOP_MAX` 4 in the code.

UFS:

18. `ufs_truncate` frees blocks in the bitmap before the inode forgets them ("trunc"); a link count
    that cannot be written is "not fatal" (`vfs/ufs.c:1641`, "count") and a link to a file removed since its lookup
    succeeds ("stale"): later a name leads to a free inode. A FILE vnode whose inode became a directory
    still takes writes, and links ("stale"). Found by the proof: `ufs_unlink` of a directory frees blocks
    before its inode forgets them while the inode is still a directory in use, as truncate does ("trunc"), and a
    call through the vnode of a removed directory works in whatever its inode number is by then ("stale").
19. Create and mkdir do not look for a duplicate; rmdir leaves inode and block allocated; a write that
    meets ENOSPC drops the inode copy and with it the blocks it took; a refused unlink of a full
    directory removes the entry and adds it again; free counts are stale after a power cut; error paths
    skip `ufs_sync_super`. There is no rename. A second mount overwrites `ufs_priv`, and each mount
    leaves a scratch page behind.

Memory:

20. brk in a vfork child computes with a break of 0 (`core/syscall/sys_mem.c:132`), frees the parent's slots and reports
    success. This, item 1 and item 7 set `wild`.
21. munmap frees consecutive slots, not addresses: across two mappings it can free others' pages, and it frees
    addresses that no table has. `page_pool.h:11` says best fit, the code is first fit, or the last page.
    `elf_loader.c:655` says `sys_brk` allocates on demand, but it fails without a tracked page. The limit
    `MMAP_REGIONS_MAX` of `docs/kernel/syscall.md:830` is not in the code. An image of one data page gets the
    highest free page, so its heap cannot grow past the stack.

## 6. Plan

In this order; each step names what it composes and proves.

1. **Timers** with two cores: the scan of `sched_tick` per process, split signal delivery.
2. **Tty**: canonical and raw reading, input interrupts, the foreground group, `line_ready` shared by
   two readers.
3. **VFAT and the block cache**: cluster chains, the two directory writes of a rename, power loss.
4. ALUs of the emulators against reference arithmetic on a few bits.

Runs stay few: a composed module replaces the runs of its parts where it asks the same question.

## 7. Not modelled

Most of the repository's lines are outside what a state machine can say: device drivers, display and
keyboard (registers and pixels); the instruction sets of the emulators; the foreign-system bridges, which
translate calls to the ones modelled here; executable formats and relocation; the assembly of the five
architectures, whose context switch is taken as one step; user land and its tests. The map therefore
covers a small share of all lines, and over a third of those of the process, memory and file system code that
the components name.

Left out of components that are modelled: process groups and sessions, signal masks and handlers' frames,
the wall clock; `page_alloc_largest`, the 8086 segments and the arenas of single architectures; indirect
blocks, symbolic links, times and modes of UFS and errors of its device; symbolic links and directory
listing in tmpfs; getdents, statfs and chdir.

Hazards seen and not covered by a property: the interrupt state saved in one variable by both cores
(`vfs/klog.c:49`), `switch_pending` shared by both (`core/proc/sched.c:43`), the outgoing process marked as
running nowhere before its registers are saved (`sched.c:91`), the wrap of pids (`core/proc/proc.c:166`), a
read that sleeps for its second page with bytes already read (`sys_io.c:153`).
