-------------------------------- MODULE Pipe --------------------------------
(***************************************************************************)
(* One kernel pipe (kernel/vfs/pipe.c): the ring buffer, its sleeping      *)
(* readers and writers, the counts of its open ends, and the file layer    *)
(* above it as far as it decides who may be inside the pipe: the lock of   *)
(* each end's struct file (kernel/vfs/fd.c) and the page-by-page loop of   *)
(* sys_read and sys_write (kernel/core/syscall/sys_io.c).                  *)
(*                                                                         *)
(* A SPIN_PIPE section is one step, except the one that ends in a sleep:   *)
(* sched_sleep_current_unlock takes SPIN_PROC inside it, and sys_kill,     *)
(* which takes SPIN_PROC only, can run on the other core between the check *)
(* for signals and the sleep.                                              *)
(*                                                                         *)
(* The byte written i-th has the value i: the code never looks at a byte.  *)
(***************************************************************************)
EXTENDS Naturals, FiniteSets, Sequences

CONSTANTS Proc,        \* processes that come to share the pipe
          Size,        \* PIPE_BUF_SIZE
          MaxReq,      \* bound: bytes asked for in one call
          MaxBytes,    \* bound: bytes written over the life of the pipe
          Cores,       \* the numbers of processor cores to consider
          SetFlEnds,   \* ends some process sets O_NONBLOCK on with fcntl
          NULL

ASSUME SizeAssumption == Size \in Nat /\ Size > 1
ASSUME BoundAssumption == MaxReq \in Nat /\ MaxBytes \in Nat /\ Cores \subseteq {1, 2}
ASSUME EndAssumption == SetFlEnds \subseteq {"r", "w"} /\ NULL \notin Proc

VARIABLES buf, head, tail,    \* the ring
          readers, writers,   \* pipe_t counts of open ends (uint8_t)
          in_use,             \* the slot of pipe_pool is allocated
          nonblock,           \* per end: O_NONBLOCK is in file.flags, or was
                              \* when its last descriptor was closed
          flock,              \* per end: owner of file.lock
          spin,               \* holder of SPIN_PIPE across steps
          open,               \* per process: the ends in its fd_map
          state,              \* pcb.state, RUNNABLE or BLOCKED on the pipe
          sig,                \* per process: an unblocked signal is pending
          pc, op,             \* where it is, and on which end
          chunk, rest,        \* bytes of this fd call, and of the next page's
          result,             \* what the fd call it is in returns
          sent, received,     \* bytes written so far; bytes read, in order
          cores               \* processor cores of the board

ring == <<buf, head, tail>>
counts == <<readers, writers, in_use>>
request == <<chunk, rest>>
vars == <<buf, head, tail, readers, writers, in_use, nonblock, flock, spin,
          open, state, sig, pc, op, chunk, rest, result, sent,
          received, cores>>

End == {"r", "w"}
Points == {"user", "flock", "body", "sleep", "wake", "unlock",
           "close", "close_wake", "close_wake_free", "free"}
Results == {"none", "bytes", "eof", "epipe", "eagain", "eintr"}

Init == /\ buf = [i \in 0..(Size - 1) |-> 0]
        /\ head = 0 /\ tail = 0
        /\ readers = 0 /\ writers = 0 /\ in_use = FALSE
        /\ nonblock = [e \in End |-> FALSE]
        /\ flock = [e \in End |-> NULL]
        /\ spin = NULL
        /\ open = [p \in Proc |-> {}]
        /\ state = [p \in Proc |-> "RUNNABLE"]
        /\ sig = [p \in Proc |-> FALSE]
        /\ pc = [p \in Proc |-> "user"]
        /\ op = [p \in Proc |-> "r"]
        /\ chunk = [p \in Proc |-> 0]
        /\ rest = [p \in Proc |-> 0]
        /\ result = [p \in Proc |-> "none"]
        /\ sent = 0
        /\ received = << >>
        /\ cores \in Cores

At(p, point) == state[p] = "RUNNABLE" /\ pc[p] = point
Goto(p, point) == pc' = [pc EXCEPT ![p] = point]
HasOpen(e) == \E p \in Proc : e \in open[p]

Lesser(a, b) == IF a < b THEN a ELSE b

\* pipe_used, pipe_space
Used == (Size + head - tail) % Size

\* Variant: no gap between full and empty.
Space_NoGap == Size - Used

Space == Size - 1 - Used

-----------------------------------------------------------------------------
(* Creation, sharing, fcntl *)

\* sys_pipe: pipe_alloc and the two struct files. (One that runs out of files
\* gives the slot back before anyone can name it.)
Create(p) == /\ At(p, "user")
             /\ ~in_use
             /\ in_use' = TRUE /\ readers' = 1 /\ writers' = 1
             /\ buf' = [i \in 0..(Size - 1) |-> 0] /\ head' = 0 /\ tail' = 0
             /\ nonblock' = [e \in End |-> FALSE]
             /\ open' = [open EXCEPT ![p] = End]
             /\ sent' = 0 /\ received' = << >>
             /\ UNCHANGED <<flock, spin, state, sig, pc, op, request, result>>

\* vfork: the child's fd_map names the same struct files (vfs_fd_acquire).
Inherit(p, q) == /\ At(p, "user") /\ At(q, "user")
                 /\ open[p] # {} /\ open[q] = {}
                 /\ open' = [open EXCEPT ![q] = open[p]]
                 /\ UNCHANGED <<ring, counts, nonblock, flock, spin, state,
                                sig, pc, op, request, result, sent, received>>

\* fcntl(F_SETFL), under the lock of the file.
SetFl(p, e) == /\ At(p, "user")
               /\ e \in open[p] \cap SetFlEnds
               /\ flock[e] = NULL
               /\ nonblock' = [nonblock EXCEPT ![e] = ~@]
               /\ UNCHANGED <<ring, counts, flock, spin, open, state, sig, pc,
                              op, request, result, sent, received>>

-----------------------------------------------------------------------------
(* read and write *)

\* sys_read and sys_write: a request of n bytes whose first page ends after c.
Call(p, e, n, c) == /\ At(p, "user")
                    /\ e \in open[p]
                    /\ e = "w" => sent + n <= MaxBytes
                    /\ Goto(p, "flock")
                    /\ op' = [op EXCEPT ![p] = e]
                    /\ chunk' = [chunk EXCEPT ![p] = c]
                    /\ rest' = [rest EXCEPT ![p] = n - c]
                    /\ UNCHANGED <<ring, counts, nonblock, flock, spin, open,
                                   state, sig, result, sent, received>>

\* kmutex_lock(&f->lock) of vfs_fd_read and vfs_fd_write; what it promises is
\* the subject of module Kmutex.
LockFile(p) == /\ At(p, "flock")
               /\ flock[op[p]] = NULL
               /\ flock' = [flock EXCEPT ![op[p]] = p]
               /\ Goto(p, "body")
               /\ UNCHANGED <<ring, counts, nonblock, spin, open, state, sig,
                              op, request, result, sent, received>>

\* p is at the top of the loop of pipe_read or pipe_write, in SPIN_PIPE.
InBody(p, e) == At(p, "body") /\ op[p] = e /\ spin = NULL

\* The call returns without having moved a byte.
ReturnEmpty(p, r) == /\ result' = [result EXCEPT ![p] = r]
                     /\ chunk' = [chunk EXCEPT ![p] = 0]
                     /\ rest' = [rest EXCEPT ![p] = 0]
                     /\ Goto(p, "unlock")
                     /\ UNCHANGED <<ring, counts, nonblock, flock, spin, open,
                                    state, sig, op, sent, received>>

\* The call moved k bytes; a chunk that was filled is followed by the next
\* page's, a short one ends the system call.
ReturnBytes(p, k) ==
    /\ result' = [result EXCEPT ![p] = "bytes"]
    /\ chunk' = [chunk EXCEPT ![p] = IF k = @ THEN rest[p] ELSE 0]
    /\ rest' = [rest EXCEPT ![p] = 0]
    /\ Goto(p, "wake")

\* pipe_read: drain one batch.
Batch(p) == Lesser(chunk[p], IF op[p] = "r" THEN Used ELSE Space)

\* Variant: the tail is not masked.
ReadData_NoMask(p) ==
    /\ InBody(p, "r")
    /\ Used > 0
    /\ received' = received \o
          [i \in 1..Batch(p) |-> buf[(tail + i - 1) % Size]]
    /\ tail' = tail + Batch(p)
    /\ ReturnBytes(p, Batch(p))
    /\ UNCHANGED <<buf, head, counts, nonblock, flock, spin, open, state, sig, op,
                   sent>>

\* Variant: readers do not wake blocked writers.
ReadData_NoWake(p) ==
    /\ InBody(p, "r")
    /\ Used > 0
    /\ received' = received \o
          [i \in 1..Batch(p) |-> buf[(tail + i - 1) % Size]]
    /\ tail' = (tail + Batch(p)) % Size
    /\ result' = [result EXCEPT ![p] = "bytes"]
    /\ chunk' = [chunk EXCEPT ![p] = IF Batch(p) = @ THEN rest[p] ELSE 0]
    /\ rest' = [rest EXCEPT ![p] = 0]
    /\ Goto(p, "unlock")
    /\ UNCHANGED <<buf, head, counts, nonblock, flock, spin, open, state, sig, op,
                   sent>>

ReadData(p) == /\ InBody(p, "r")
               /\ Used > 0
               /\ received' = received \o
                     [i \in 1..Batch(p) |-> buf[(tail + i - 1) % Size]]
               /\ tail' = (tail + Batch(p)) % Size
               /\ ReturnBytes(p, Batch(p))
               /\ UNCHANGED <<buf, head, counts, nonblock, flock, spin, open,
                              state, sig, op, sent>>

ReadEof(p) == /\ InBody(p, "r")
              /\ Used = 0 /\ writers = 0
              /\ ReturnEmpty(p, "eof")

\* Variant: the space is looked at before the readers.
WriteData_SpaceFirst(p) ==
    /\ InBody(p, "w")
    /\ Space > 0
    /\ buf' = [i \in 0..(Size - 1) |->
                  LET k == (Size + i - head) % Size
                  IN  IF k < Batch(p) THEN sent + k + 1 ELSE buf[i]]
    /\ head' = (head + Batch(p)) % Size
    /\ sent' = sent + Batch(p)
    /\ ReturnBytes(p, Batch(p))
    /\ UNCHANGED <<tail, counts, nonblock, flock, spin, open, state, sig, op,
                   received>>

\* pipe_write: push one batch; the k-th byte after sent is sent + k.
WriteData(p) ==
    /\ InBody(p, "w")
    /\ readers # 0 /\ Space > 0
    /\ buf' = [i \in 0..(Size - 1) |->
                  LET k == (Size + i - head) % Size
                  IN  IF k < Batch(p) THEN sent + k + 1 ELSE buf[i]]
    /\ head' = (head + Batch(p)) % Size
    /\ sent' = sent + Batch(p)
    /\ ReturnBytes(p, Batch(p))
    /\ UNCHANGED <<tail, counts, nonblock, flock, spin, open, state, sig, op,
                   received>>

WriteBroken(p) == InBody(p, "w") /\ readers = 0 /\ ReturnEmpty(p, "epipe")

\* Nothing to read, or no room to write, and the other end is open.
Starved(p) == \/ InBody(p, "r") /\ Used = 0 /\ writers # 0
              \/ InBody(p, "w") /\ Space = 0 /\ readers # 0

Again(p) == Starved(p) /\ nonblock[op[p]] /\ ReturnEmpty(p, "eagain")

Interrupted(p) == /\ Starved(p) /\ ~nonblock[op[p]] /\ sig[p]
                  /\ ReturnEmpty(p, "eintr")

\* No signal is pending: p goes on to sleep, with SPIN_PIPE held.
Decide(p) == /\ Starved(p) /\ ~nonblock[op[p]] /\ ~sig[p]
             /\ spin' = p
             /\ Goto(p, "sleep")
             /\ UNCHANGED <<ring, counts, nonblock, flock, open, state, sig,
                            op, request, result, sent, received>>

\* sched_sleep_current_unlock(p, SPIN_PIPE): blocked, then SPIN_PIPE released.
Sleep(p) == /\ At(p, "sleep")
            /\ state' = [state EXCEPT ![p] = "BLOCKED"]
            /\ spin' = NULL
            /\ Goto(p, "body")
            /\ UNCHANGED <<ring, counts, nonblock, flock, open, sig, op,
                           request, result, sent, received>>

\* sched_wakeup(p), after a transfer or in pipe_close.
WakeSleepers == state' = [q \in Proc |-> "RUNNABLE"]

\* Variant: the wakeup waits for the lock of the other end's file.
Wake_LocksOther(p) ==
    /\ At(p, "wake")
    /\ \A e \in End \ {op[p]} : flock[e] = NULL
    /\ WakeSleepers
    /\ Goto(p, "unlock")
    /\ UNCHANGED <<ring, counts, nonblock, flock, spin, open, sig, op, request,
                   result, sent, received>>

Wake(p) == /\ At(p, "wake")
           /\ WakeSleepers
           /\ Goto(p, "unlock")
           /\ UNCHANGED <<ring, counts, nonblock, flock, spin, open, sig, op,
                          request, result, sent, received>>

\* kmutex_unlock(&f->lock); then the next page's chunk, or back to user mode,
\* where a pending signal is delivered.
UnlockFile(p) == /\ At(p, "unlock")
                 /\ flock' = [flock EXCEPT ![op[p]] = NULL]
                 /\ Goto(p, IF chunk[p] > 0 THEN "flock" ELSE "user")
                 /\ sig' = [sig EXCEPT ![p] = @ /\ chunk[p] > 0]
                 /\ op' = [op EXCEPT ![p] = IF chunk[p] > 0 THEN @ ELSE "r"]
                 /\ result' = [result EXCEPT ![p] = "none"]
                 /\ UNCHANGED <<ring, counts, nonblock, spin, open, state,
                                request, sent, received>>

-----------------------------------------------------------------------------
(* close *)

\* Variant: every close of an end runs pipe_close, not only the last.
Close_Always(p, e) ==
    /\ At(p, "user")
    /\ e \in open[p]
    /\ open' = [open EXCEPT ![p] = @ \ {e}]
    /\ op' = [op EXCEPT ![p] = e]
    /\ Goto(p, "close")
    /\ UNCHANGED <<ring, counts, nonblock, flock, spin, state, sig, request,
                   result, sent, received>>

\* sys_close, or sys_exit closing its files: vfs_fd_release drops one reference
\* and the last one runs pipe_close.
Close(p, e) == /\ At(p, "user")
               /\ e \in open[p]
               /\ open' = [open EXCEPT ![p] = @ \ {e}]
               /\ op' = [op EXCEPT ![p] = e]
               /\ Goto(p, IF \E q \in Proc \ {p} : e \in open[q]
                          THEN "user" ELSE "close")
               /\ UNCHANGED <<ring, counts, nonblock, flock, spin, state, sig,
                              request, result, sent, received>>

\* pipe_close tells the ends apart by file.flags == O_RDONLY: with O_NONBLOCK
\* set, the flags of a read end are not O_RDONLY any more.
IsReadEnd(e) == e = "r" /\ ~nonblock[e]

\* Variant: the last close of both does not give the slot back.
CloseEnd_NoFree(p) ==
    /\ At(p, "close")
    /\ spin = NULL
    /\ readers' = IF IsReadEnd(op[p]) THEN (readers + 255) % 256 ELSE readers
    /\ writers' = IF IsReadEnd(op[p]) THEN writers ELSE (writers + 255) % 256
    /\ Goto(p, "close_wake")
    /\ UNCHANGED <<ring, in_use, nonblock, flock, spin, open, state, sig, op,
                   request, result, sent, received>>

CloseEnd(p) ==
    /\ At(p, "close")
    /\ spin = NULL
    /\ readers' = IF IsReadEnd(op[p]) THEN (readers + 255) % 256 ELSE readers
    /\ writers' = IF IsReadEnd(op[p]) THEN writers ELSE (writers + 255) % 256
    /\ Goto(p, IF readers' = 0 /\ writers' = 0  \* do_free
               THEN "close_wake_free" ELSE "close_wake")
    /\ UNCHANGED <<ring, in_use, nonblock, flock, spin, open, state, sig, op,
                   request, result, sent, received>>

CloseWake(p) ==
    /\ At(p, "close_wake") \/ At(p, "close_wake_free")
    /\ WakeSleepers
    /\ Goto(p, IF pc[p] = "close_wake_free" THEN "free" ELSE "user")
    /\ UNCHANGED <<ring, counts, nonblock, flock, spin, open, sig, op, request,
                   result, sent, received>>

\* pipe_free
Free(p) == /\ At(p, "free")
           /\ spin = NULL
           /\ in_use' = FALSE
           /\ Goto(p, "user")
           /\ UNCHANGED <<ring, readers, writers, nonblock, flock, spin, open,
                          state, sig, op, request, result, sent, received>>

-----------------------------------------------------------------------------
\* Variant: the signal is posted and the sleeper left asleep.
Kill_NoWake(p) ==
    /\ pc[p] \in {"flock", "body", "sleep"} /\ ~sig[p]
    /\ cores = 1 => spin = NULL
    /\ sig' = [sig EXCEPT ![p] = TRUE]
    /\ UNCHANGED <<ring, counts, nonblock, flock, spin, open, state, pc, op,
                   request, result, sent, received>>

\* sys_kill(p): the signal becomes pending and a sleeper runnable (elsewhere in
\* the kernel it only waits for the return to user mode). On one core it cannot
\* run while SPIN_PIPE is held: interrupts are off.
Kill(p) == /\ pc[p] \in {"flock", "body", "sleep"} /\ ~sig[p]
           /\ cores = 1 => spin = NULL
           /\ sig' = [sig EXCEPT ![p] = TRUE]
           /\ state' = [state EXCEPT ![p] = "RUNNABLE"]
           /\ UNCHANGED <<ring, counts, nonblock, flock, spin, open, pc, op,
                          request, result, sent, received>>

\* What a process does on its own once it has called the kernel.
Step(p) == /\ \/ LockFile(p) \/ ReadData(p) \/ ReadEof(p)
              \/ WriteData(p) \/ WriteBroken(p)
              \/ Again(p) \/ Interrupted(p) \/ Decide(p) \/ Sleep(p)
              \/ Wake(p) \/ UnlockFile(p)
              \/ CloseEnd(p) \/ CloseWake(p) \/ Free(p)
           /\ UNCHANGED cores

UserCall(p) == \/ Create(p)
               \/ \E q \in Proc \ {p} : Inherit(p, q)
               \/ \E e \in End : \/ SetFl(p, e)
                                 \/ Close(p, e)
                                 \/ \E n \in 1..MaxReq, c \in 1..MaxReq :
                                       c <= n /\ Call(p, e, n, c)

Next == \E p \in Proc : \/ Step(p)
                        \/ UserCall(p) /\ UNCHANGED cores
                        \/ Kill(p) /\ UNCHANGED cores

Spec == Init /\ [][Next]_vars

\* A runnable process is scheduled again; a free lock is taken by someone.
Fairness == \A p \in Proc : WF_vars(Step(p))
FairSpec == Spec /\ Fairness

-----------------------------------------------------------------------------
(* Properties *)

TypeOK == /\ buf \in [0..(Size - 1) -> Nat]
          /\ head \in 0..(Size - 1) /\ tail \in 0..(Size - 1)
          /\ readers \in 0..255 /\ writers \in 0..255 /\ in_use \in BOOLEAN
          /\ nonblock \in [End -> BOOLEAN]
          /\ flock \in [End -> Proc \cup {NULL}]
          /\ spin \in Proc \cup {NULL}
          /\ open \in [Proc -> SUBSET End]
          /\ state \in [Proc -> {"RUNNABLE", "BLOCKED"}]
          /\ sig \in [Proc -> BOOLEAN]
          /\ pc \in [Proc -> Points] /\ op \in [Proc -> End]
          /\ chunk \in [Proc -> Nat] /\ rest \in [Proc -> Nat]
          /\ result \in [Proc -> Results]
          /\ sent \in Nat /\ received \in Seq(Nat) /\ cores \in Cores

\* A process asleep in pipe_read or pipe_write has nothing to do yet, or the
\* sched_wakeup that follows the change is still to come.
WakePending == \E q \in Proc : pc[q] \in {"wake", "close_wake", "close_wake_free"}
NoLostWakeup ==
    \A p \in Proc : state[p] = "BLOCKED" =>
        \/ op[p] = "r" /\ Used = 0 /\ writers # 0
        \/ op[p] = "w" /\ Space = 0 /\ readers # 0
        \/ WakePending

\* The counts of pipe_t agree with the file descriptors: the pipe counts an end
\* as long as a process has it open or is closing it.  The one exception is a
\* read end whose last close found O_NONBLOCK set: pipe_close takes it off the
\* writers, and then the counts are wrong in this way and no other.
Counted(e) == HasOpen(e) \/ \E p \in Proc : pc[p] = "close" /\ op[p] = e
Miscounted == nonblock["r"] /\ ~Counted("r")
CountsMatchEnds ==
    in_use => IF Miscounted
              THEN readers = 1 /\ writers = (IF Counted("w") THEN 0 ELSE 255)
              ELSE /\ readers = (IF Counted("r") THEN 1 ELSE 0)
                   /\ writers = (IF Counted("w") THEN 1 ELSE 0)

\* No process is inside a pipe that was given back to pipe_pool, and a slot
\* nobody has open any more is given back, unless its counts are wrong.
SlotLifetime ==
    /\ \A p \in Proc :
          pc[p] \in {"flock", "body", "sleep", "close", "free"} => in_use
    /\ in_use => \/ Miscounted
                 \/ \E p \in Proc : open[p] # {}
                 \/ \E p \in Proc : pc[p] \in {"close", "close_wake_free", "free"}

\* A signal ends the sleep of a reader or a writer: on one core nobody sleeps
\* with one pending (on two, sys_kill may run between Decide and Sleep).
SignalEndsSleep == cores = 1 => \A p \in Proc : ~(state[p] = "BLOCKED" /\ sig[p])

\* A write moves bytes only while some process can still read them, or after a
\* read end was closed that pipe_close took for a write end.
WriteNeedsReader ==
    [][\A p \in Proc : WriteData(p) => Counted("r") \/ Miscounted]_vars

\* A sleeper whose wait is over (bytes, room, or no other end left) is woken,
\* but for a writer whose last reader was miscounted.
Served(p) == IF op[p] = "r" THEN Used > 0 \/ ~HasOpen("w")
                            ELSE Space > 0 \/ ~(HasOpen("r") \/ nonblock["r"])
SleeperServed ==
    \A p \in Proc :
        (state[p] = "BLOCKED" /\ Served(p)) ~> (state[p] # "BLOCKED")

\* The pipe implements the byte channel: the bytes accepted are 1, 2, ..., sent.
Channel == INSTANCE ByteChannel
             WITH Capacity  <- Size - 1,
                  written   <- [i \in 1..sent |-> i],
                  readOpen  <- HasOpen("r"),
                  writeOpen <- HasOpen("w")

\* Every step of pipe.c and of the calls around it is a step of the channel or
\* leaves it alone: order, loss, EOF, EPIPE and EAGAIN are as pipe(2) promises.
ImplementsByteChannel == Channel!Spec
=============================================================================
