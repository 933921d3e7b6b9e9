------------------------------ MODULE ProcLife ------------------------------
(***************************************************************************)
(* The life of a process: vfork, execve, exit, waitpid, kill and the       *)
(* ptrace stops (kernel/core/syscall/sys_proc.c, kernel/core/proc/proc.c,  *)
(* kernel/core/signal/signal.c) under the scheduler of proc/sched.c.       *)
(*                                                                         *)
(* A SPIN_PROC critical section is one step.  What a system call does      *)
(* outside the lock, and reads again under it, is in separate steps: a     *)
(* timer tick can switch to another process in between, and with two       *)
(* cores the other core runs on.                                           *)
(*                                                                         *)
(* The pages of a process are one value, the slot whose execve allocated   *)
(* them; Freed stands for pages that were given back while still mapped.   *)
(* Descriptors, kernel stacks and mutexes are not in this module.          *)
(***************************************************************************)
EXTENDS FiniteSets, Integers

CONSTANTS NSlots,       \* usable slots of proc_table, 1 .. PROC_MAX - 1
          MaxPid,       \* bound: next_pid stops here
          Cores,        \* cores that run processes
          SerialVfork,  \* TRUE: only schedules in which no two vforks overlap
          Killers,      \* slots whose program calls kill
          Tracers,      \* slots whose program traces others
          Tracees,      \* slots whose program asks to be traced
          WaitFor,      \* pids passed to waitpid (Any: -1)
          WaitOptions   \* option sets passed to waitpid

ASSUME BoundsAssumption == /\ NSlots \in Nat /\ NSlots >= 2
                           /\ MaxPid \in Nat /\ MaxPid >= 2
                           /\ Cores \in Nat \ {0}
ASSUME ProgramsAssumption ==
    /\ SerialVfork \in BOOLEAN
    /\ Killers \subseteq 1 .. NSlots
    /\ Tracers \subseteq 1 .. NSlots /\ Tracees \subseteq 1 .. NSlots
    /\ WaitFor \subseteq 0 .. MaxPid
    /\ WaitOptions \subseteq SUBSET {"WNOHANG", "WSTOPPED"}

Slot == 1 .. NSlots
InitSlot == 1   \* init: the first process main.c allocates
InitPid == 1
None == 0       \* a NULL pcb pointer, pid 0, no pages
Any == 0        \* waitpid(-1)
Freed == NSlots + 1

VARIABLES state, pid, ppid, vfork_parent,                    \* pcb fields
          tracer_pid, trace_requested, trace_wait_pending,
          sig_pending,   \* a deliverable signal is pending
          image,         \* the pages the process runs on
          next_pid,
          pc,            \* where in its system call the process is
          loc,           \* the system call's local variables
          core,          \* slots with running_on_core >= 0
          leaving,       \* slots whose ended process has not switched away yet
          undead         \* an ended process was resumed

trace == <<tracer_pid, trace_requested, trace_wait_pending>>
links == <<pid, ppid, vfork_parent, next_pid>>
cpu == <<core, leaving, undead>>
vars == <<state, links, trace, sig_pending, image, pc, loc, cpu>>

States == {"FREE", "RUNNABLE", "BLOCKED", "TRACED_STOP", "ZOMBIE", "REAPING"}
Points == {"none", "user", "vfork", "vforked", "exec", "exec_stop", "stop",
           "exit", "wait", "report_stop", "report_exit", "free", "ptrace",
           "detach", "resume"}
Locals == [slot : Slot \cup {None}, pid : 0 .. MaxPid, child : BOOLEAN,
           want : 0 .. MaxPid, opts : SUBSET {"WNOHANG", "WSTOPPED"}]
NoLocals == [slot |-> None, pid |-> 0, child |-> FALSE, want |-> Any, opts |-> {}]

\* After boot: init has started one shell, which has called execve.
Init == /\ state = [s \in Slot |-> IF s <= 2 THEN "RUNNABLE" ELSE "FREE"]
        /\ pid = [s \in Slot |-> IF s <= 2 THEN s ELSE 0]
        /\ ppid = [s \in Slot |-> IF s = 2 THEN InitPid ELSE 0]
        /\ vfork_parent = [s \in Slot |-> None]
        /\ tracer_pid = [s \in Slot |-> 0]
        /\ trace_requested = [s \in Slot |-> FALSE]
        /\ trace_wait_pending = [s \in Slot |-> FALSE]
        /\ sig_pending = [s \in Slot |-> FALSE]
        /\ image = [s \in Slot |-> IF s <= 2 THEN s ELSE None]
        /\ next_pid = 3
        /\ pc = [s \in Slot |-> IF s <= 2 THEN "user" ELSE "none"]
        /\ loc = [s \in Slot |-> NoLocals]
        /\ core = {} /\ leaving = {} /\ undead = FALSE

Live(s) == state[s] \notin {"FREE", "REAPING"}
ByPid(n) == {s \in Slot : Live(s) /\ pid[s] = n}
At(p, point) == p \in core /\ pc[p] = point

\* The states after the processes of S that are BLOCKED are woken.
Woken(S) == [s \in Slot |-> IF s \in S /\ state[s] = "BLOCKED"
                            THEN "RUNNABLE" ELSE state[s]]

Goto(p, point, l) == /\ pc' = [pc EXCEPT ![p] = point]
                     /\ loc' = [loc EXCEPT ![p] = l]
Return(p) == Goto(p, "user", NoLocals)

\* p is switched out by the sched_switch that ends its step.
SwitchOut(p) == core' = core \ {p} /\ UNCHANGED <<leaving, undead>>

----------------------------------------------------------------------------
(* vfork                                                                   *)

\* proc_alloc: the first free slot is cleared and numbered.  Its state is
\* still PROC_FREE when the lock is released.
VforkAlloc(p) ==
    /\ At(p, "user")
    /\ next_pid <= MaxPid
    /\ SerialVfork => \A q \in Slot : pc[q] # "vfork"
    /\ \E c \in Slot :
         /\ state[c] = "FREE"
         /\ \A d \in Slot : state[d] = "FREE" => c <= d
         /\ pid' = [pid EXCEPT ![c] = next_pid]
         /\ ppid' = [ppid EXCEPT ![c] = 0]
         /\ vfork_parent' = [vfork_parent EXCEPT ![c] = None]
         /\ tracer_pid' = [tracer_pid EXCEPT ![c] = 0]
         /\ trace_requested' = [trace_requested EXCEPT ![c] = FALSE]
         /\ trace_wait_pending' = [trace_wait_pending EXCEPT ![c] = FALSE]
         /\ sig_pending' = [sig_pending EXCEPT ![c] = FALSE]
         /\ image' = [image EXCEPT ![c] = None]
         /\ Goto(p, "vfork", [NoLocals EXCEPT !.slot = c])
    /\ next_pid' = next_pid + 1
    /\ UNCHANGED <<state, cpu>>

\* No user stack to share: proc_free(child), -ENOMEM.
VforkFail(p) == /\ At(p, "vfork")
                /\ state' = [state EXCEPT ![loc[p].slot] = "FREE"]
                /\ Return(p)
                /\ UNCHANGED <<links, trace, sig_pending, image, cpu>>

\* The child takes over the pages and is published as the parent blocks.
VforkStart(p) ==
    LET c == loc[p].slot IN
    /\ At(p, "vfork")
    /\ ppid' = [ppid EXCEPT ![c] = pid[p]]
    /\ vfork_parent' = [vfork_parent EXCEPT ![c] = p]
    /\ image' = [image EXCEPT ![c] = image[p]]
    /\ state' = [state EXCEPT ![p] = "BLOCKED", ![c] = "RUNNABLE"]
    /\ pc' = [pc EXCEPT ![p] = "vforked", ![c] = "user"]
    /\ loc' = [loc EXCEPT ![c] = NoLocals]
    /\ SwitchOut(p)
    /\ UNCHANGED <<pid, next_pid, trace, sig_pending>>

\* sched_switch() returns to sys_vfork, which returns to the program.
VforkReturn(p) == /\ At(p, "vforked")
                  /\ Return(p)
                  /\ UNCHANGED <<state, links, trace, sig_pending, image, cpu>>

----------------------------------------------------------------------------
(* execve                                                                  *)

\* The image table after p gives its pages back: whoever else runs on them
\* runs on freed pages.
Released(p) == [s \in Slot |-> IF s = p THEN None
                               ELSE IF image[p] # None /\ image[s] = image[p]
                                    THEN Freed ELSE image[s]]

\* Variant: the pages are freed whether or not they are the parent's.
ExecLoad_FreesShared(p) ==
    /\ At(p, "user")
    /\ image' = [Released(p) EXCEPT ![p] = p]
    /\ Goto(p, "exec", NoLocals)
    /\ UNCHANGED <<state, links, trace, sig_pending, cpu>>

\* The new program is loaded; the old pages are freed if they are p's own.
\* (A failed load puts every field back and returns: nothing changes.)
ExecLoad(p) ==
    /\ At(p, "user")
    /\ image' = [IF vfork_parent[p] = None THEN Released(p) ELSE image
                 EXCEPT ![p] = p]
    /\ Goto(p, "exec", NoLocals)
    /\ UNCHANGED <<state, links, trace, sig_pending, cpu>>

\* Variant: the parent pointer is dropped and the parent stays asleep.
ExecWake_NoWake(p) ==
    /\ At(p, "exec")
    /\ state' = state
    /\ vfork_parent' = [vfork_parent EXCEPT ![p] = None]
    /\ Goto(p, IF trace_requested[p] THEN "exec_stop" ELSE "user", NoLocals)
    /\ UNCHANGED <<pid, ppid, next_pid, trace, sig_pending, image, cpu>>

ExecWake(p) ==
    /\ At(p, "exec")
    /\ state' = Woken({vfork_parent[p]})
    /\ vfork_parent' = [vfork_parent EXCEPT ![p] = None]
    /\ Goto(p, IF trace_requested[p] THEN "exec_stop" ELSE "user", NoLocals)
    /\ UNCHANGED <<pid, ppid, next_pid, trace, sig_pending, image, cpu>>

----------------------------------------------------------------------------
(* exit and signals                                                        *)

\* sys_exit up to the lock: own pages are freed, a vfork parent's are not.
ExitRelease(p) ==
    /\ image' = IF vfork_parent[p] = None THEN Released(p)
                ELSE [image EXCEPT ![p] = None]
    /\ Goto(p, "exit", NoLocals)
    /\ UNCHANGED <<state, links, trace, cpu>>

ExitCall(p) == /\ At(p, "user")
               /\ p # InitSlot
               /\ ExitRelease(p)
               /\ UNCHANGED sig_pending

\* signal_default_action: sys_exit(128 + sig).
SignalExit(p) == /\ At(p, "user")
                 /\ sig_pending[p] /\ state[p] = "RUNNABLE"
                 /\ sig_pending' = [sig_pending EXCEPT ![p] = FALSE]
                 /\ ExitRelease(p)

\* An ignored signal, or one with a handler, which returns to the program.
SignalCaught(p) == /\ At(p, "user")
                   /\ sig_pending[p] /\ state[p] = "RUNNABLE"
                   /\ sig_pending' = [sig_pending EXCEPT ![p] = FALSE]
                   /\ UNCHANGED <<state, links, trace, image, pc, loc, cpu>>

Children(p) == {s \in Slot : Live(s) /\ ppid[s] = pid[p]}

\* Variant: init is not told of the zombies it inherits.
ExitWakes_NotInit(p) ==
    {vfork_parent[p]} \cup ByPid(ppid[p]) \cup ByPid(tracer_pid[p])

\* Variant: only the vfork parent is woken.
ExitWakes_VforkOnly(p) == {vfork_parent[p]}

\* Whom the critical section of sys_exit wakes.
ExitWakes(p) ==
    {vfork_parent[p]} \cup ByPid(ppid[p]) \cup ByPid(tracer_pid[p])
    \cup IF \E s \in Children(p) : state[s] = "ZOMBIE"
         THEN ByPid(InitPid) ELSE {}

\* Variant: children keep the pid of the parent that ended.
ExitPublish_KeepsChildren(p) ==
    /\ At(p, "exit")
    /\ state' = [Woken(ExitWakes(p)) EXCEPT ![p] = "ZOMBIE"]
    /\ vfork_parent' = [vfork_parent EXCEPT ![p] = None]
    /\ ppid' = ppid
    /\ pc' = [pc EXCEPT ![p] = "none"]
    /\ core' = core \ {p} /\ leaving' = leaving \cup {p}
    /\ UNCHANGED <<pid, next_pid, trace, sig_pending, image, loc, undead>>

\* sys_exit under the lock.  From here the slot may be reaped, while this
\* core is still on its way to sched_switch.
ExitPublish(p) ==
    /\ At(p, "exit")
    /\ state' = [Woken(ExitWakes(p)) EXCEPT ![p] = "ZOMBIE"]
    /\ vfork_parent' = [vfork_parent EXCEPT ![p] = None]
    /\ ppid' = [s \in Slot |-> IF s \in Children(p) THEN InitPid ELSE ppid[s]]
    /\ pc' = [pc EXCEPT ![p] = "none"]
    /\ core' = core \ {p} /\ leaving' = leaving \cup {p}
    /\ UNCHANGED <<pid, next_pid, trace, sig_pending, image, loc, undead>>

\* The core leaves the ended process.  sched_next looks at the slot's state,
\* and the switch saves the dead context in the slot.
ExitSwitch(s) == /\ s \in leaving
                 /\ leaving' = leaving \ {s}
                 /\ undead' = (undead \/ state[s] = "RUNNABLE")
                 /\ UNCHANGED <<state, links, trace, sig_pending, image, pc,
                                loc, core>>

\* sys_kill(pid[t], sig): a BLOCKED target wakes, whatever it waits for.
Kill(p, t) == /\ At(p, "user")
              /\ p \in Killers
              /\ Live(t) /\ pid[t] # InitPid
              /\ sig_pending' = [sig_pending EXCEPT ![t] = TRUE]
              /\ state' = Woken({t})
              /\ UNCHANGED <<links, trace, image, pc, loc, cpu>>
----------------------------------------------------------------------------
(* waitpid                                                                 *)

WaitCall(p, want, opts) ==
    /\ At(p, "user")
    /\ Goto(p, "wait", [NoLocals EXCEPT !.want = want, !.opts = opts])
    /\ UNCHANGED <<state, links, trace, sig_pending, image, cpu>>

\* The scan's filter, and what makes it stop at a slot.
Matches(p, s) == /\ Live(s)
                 /\ ppid[s] = pid[p] \/ tracer_pid[s] = pid[p]
                 /\ loc[p].want \in {Any, pid[s]}
StopShows(p, s) == /\ "WSTOPPED" \in loc[p].opts
                   /\ state[s] = "TRACED_STOP" /\ trace_wait_pending[s]
Found(p) == {s \in Slot : Matches(p, s) /\ (StopShows(p, s) \/ state[s] = "ZOMBIE")}

\* Variant: the slot index is remembered after the loop's increment.
WaitFound_NextSlot(p) ==
    /\ At(p, "wait")
    /\ \E s \in Found(p) :
         /\ \A t \in Found(p) : s <= t
         /\ Goto(p, IF state[s] = "ZOMBIE" THEN "report_exit" ELSE "report_stop",
                 [loc[p] EXCEPT !.slot = s + 1, !.pid = pid[s],
                                !.child = (ppid[s] = pid[p])])
    /\ UNCHANGED <<state, links, trace, sig_pending, image, cpu>>

\* The scan ends at the lowest slot it found and drops the lock.
WaitFound(p) ==
    /\ At(p, "wait")
    /\ \E s \in Found(p) :
         /\ \A t \in Found(p) : s <= t
         /\ Goto(p, IF state[s] = "ZOMBIE" THEN "report_exit" ELSE "report_stop",
                 [loc[p] EXCEPT !.slot = s, !.pid = pid[s],
                                !.child = (ppid[s] = pid[p])])
    /\ UNCHANGED <<state, links, trace, sig_pending, image, cpu>>

\* -ECHILD, WNOHANG or -EINTR.
WaitReturn(p) ==
    /\ At(p, "wait")
    /\ Found(p) = {}
    /\ \/ \A s \in Slot : ~Matches(p, s)
       \/ "WNOHANG" \in loc[p].opts
       \/ sig_pending[p]
    /\ Return(p)
    /\ UNCHANGED <<state, links, trace, sig_pending, image, cpu>>

\* Variant: the scan drops the lock before the parent is marked blocked, so a
\* child may end in between.
WaitSleep_Late(p) ==
    /\ At(p, "wait")
    /\ \E s \in Slot : Matches(p, s)
    /\ "WNOHANG" \notin loc[p].opts
    /\ ~sig_pending[p]
    /\ state' = [state EXCEPT ![p] = "BLOCKED"]
    /\ SwitchOut(p)
    /\ UNCHANGED <<links, trace, sig_pending, image, pc, loc>>

\* The parent blocks in the critical section of the scan and scans again when
\* it wakes.
WaitSleep(p) ==
    /\ At(p, "wait")
    /\ Found(p) = {}
    /\ \E s \in Slot : Matches(p, s)
    /\ "WNOHANG" \notin loc[p].opts
    /\ ~sig_pending[p]
    /\ state' = [state EXCEPT ![p] = "BLOCKED"]
    /\ SwitchOut(p)
    /\ UNCHANGED <<links, trace, sig_pending, image, pc, loc>>

\* The status cannot be stored: -EFAULT, and the child stays as it is.
WaitFault(p) == /\ At(p, "report_stop") \/ At(p, "report_exit")
                /\ Return(p)
                /\ UNCHANGED <<state, links, trace, sig_pending, image, cpu>>

\* A stop is reported if it is still there and p is the tracer; otherwise the
\* scan starts again.
WaitStop(p) ==
    LET s == loc[p].slot
        valid == /\ pid[s] = loc[p].pid /\ state[s] = "TRACED_STOP"
                 /\ tracer_pid[s] = pid[p] /\ trace_wait_pending[s] IN
    /\ At(p, "report_stop")
    /\ \/ /\ valid
          /\ trace_wait_pending' = [trace_wait_pending EXCEPT ![s] = FALSE]
          /\ Return(p)
       \/ /\ ~valid
          /\ Goto(p, "wait", [loc[p] EXCEPT !.slot = None, !.pid = 0, !.child = FALSE])
          /\ UNCHANGED trace_wait_pending
    /\ UNCHANGED <<state, links, tracer_pid, trace_requested, sig_pending,
                   image, cpu>>

\* The exit of a tracee that is not a child: p lets go of it, its parent reaps.
WaitTracee(p) ==
    LET s == loc[p].slot IN
    /\ At(p, "report_exit")
    /\ ~loc[p].child
    /\ pid[s] = loc[p].pid /\ state[s] = "ZOMBIE"
    /\ tracer_pid[s] = pid[p] /\ ppid[s] # pid[p]
    /\ tracer_pid' = [tracer_pid EXCEPT ![s] = 0]
    /\ trace_requested' = [trace_requested EXCEPT ![s] = FALSE]
    /\ trace_wait_pending' = [trace_wait_pending EXCEPT ![s] = FALSE]
    /\ Return(p)
    /\ UNCHANGED <<state, links, sig_pending, image, cpu>>

\* Variant: whoever was shown the exit reaps.
WaitReap_AnyTracer(p) ==
    LET s == loc[p].slot IN
    /\ At(p, "report_exit")
    /\ pid[s] = loc[p].pid /\ state[s] = "ZOMBIE"
    /\ state' = [state EXCEPT ![s] = "REAPING"]
    /\ Goto(p, "free", loc[p])
    /\ UNCHANGED <<links, trace, sig_pending, image, cpu>>

\* The exit of a child: the slot is taken out of every other scan.
WaitReap(p) ==
    LET s == loc[p].slot IN
    /\ At(p, "report_exit")
    /\ loc[p].child
    /\ pid[s] = loc[p].pid /\ state[s] = "ZOMBIE"
    /\ ppid[s] = pid[p]
    /\ state' = [state EXCEPT ![s] = "REAPING"]
    /\ Goto(p, "free", loc[p])
    /\ UNCHANGED <<links, trace, sig_pending, image, cpu>>

\* The zombie is not what the scan saw: scan again.
WaitStale(p) ==
    LET s == loc[p].slot IN
    /\ At(p, "report_exit")
    /\ \/ pid[s] # loc[p].pid \/ state[s] # "ZOMBIE"
       \/ ~loc[p].child /\ (tracer_pid[s] # pid[p] \/ ppid[s] = pid[p])
       \/ loc[p].child /\ ppid[s] # pid[p]
    /\ Goto(p, "wait", [loc[p] EXCEPT !.slot = None, !.pid = 0, !.child = FALSE])
    /\ UNCHANGED <<state, links, trace, sig_pending, image, cpu>>

\* proc_free(zombie)
ProcFree(p) == /\ At(p, "free")
               /\ state' = [state EXCEPT ![loc[p].slot] = "FREE"]
               /\ Return(p)
               /\ UNCHANGED <<links, trace, sig_pending, image, cpu>>

----------------------------------------------------------------------------
(* ptrace                                                                  *)

PtraceTraceme(p) ==
    /\ At(p, "user")
    /\ p \in Tracees
    /\ tracer_pid[p] = 0 /\ ~trace_requested[p]
    /\ tracer_pid' = [tracer_pid EXCEPT ![p] = ppid[p]]
    /\ trace_requested' = [trace_requested EXCEPT ![p] = TRUE]
    /\ trace_wait_pending' = [trace_wait_pending EXCEPT ![p] = FALSE]
    /\ UNCHANGED <<state, links, sig_pending, image, pc, loc, cpu>>

\* The target stops in whatever state it is: asleep, runnable or running on
\* the other core.  (The wakeup of the tracer is of p itself, which is awake.)
PtraceAttach(p, t) ==
    /\ At(p, "user")
    /\ p \in Tracers
    /\ Live(t) /\ state[t] # "ZOMBIE" /\ t # p
    /\ tracer_pid[t] = 0 /\ ~trace_requested[t]
    /\ tracer_pid' = [tracer_pid EXCEPT ![t] = pid[p]]
    /\ trace_wait_pending' = [trace_wait_pending EXCEPT ![t] = TRUE]
    /\ state' = [state EXCEPT ![t] = "TRACED_STOP"]
    /\ UNCHANGED <<trace_requested, links, sig_pending, image, pc, loc, cpu>>

\* Any other request: the target is looked up under the lock, which is dropped.
PtraceFind(p, t) ==
    /\ At(p, "user")
    /\ p \in Tracers
    /\ Live(t) /\ tracer_pid[t] = pid[p] /\ state[t] = "TRACED_STOP"
    /\ Goto(p, "ptrace", [NoLocals EXCEPT !.slot = t, !.pid = pid[t]])
    /\ UNCHANGED <<state, links, trace, sig_pending, image, cpu>>

\* The requests that leave the target stopped: registers, memory, breakpoints.
PtraceInspect(p) == /\ At(p, "ptrace")
                    /\ Return(p)
                    /\ UNCHANGED <<state, links, trace, sig_pending, image, cpu>>

\* trace_resume_target
Resume(t) == /\ trace_wait_pending' = [trace_wait_pending EXCEPT ![t] = FALSE]
             /\ state' = [state EXCEPT ![t] = IF @ = "TRACED_STOP"
                                              THEN "RUNNABLE" ELSE @]

\* PTRACE_CONT, PTRACE_SYSCALL and PTRACE_SINGLESTEP at once, PTRACE_DETACH
\* after its stores.
PtraceCont(p) == /\ At(p, "ptrace") \/ At(p, "resume")
                 /\ Resume(loc[p].slot)
                 /\ Return(p)
                 /\ UNCHANGED <<links, tracer_pid, trace_requested,
                                sig_pending, image, cpu>>

\* PTRACE_DETACH lets go of the target without the lock, store by store: once
\* tracer_pid is 0 another tracer may attach.
PtraceDetach(p) ==
    /\ At(p, "ptrace")
    /\ tracer_pid' = [tracer_pid EXCEPT ![loc[p].slot] = 0]
    /\ trace_requested' = [trace_requested EXCEPT ![loc[p].slot] = FALSE]
    /\ Goto(p, "detach", loc[p])
    /\ UNCHANGED <<state, links, trace_wait_pending, sig_pending, image, cpu>>

DetachClear(p) ==
    /\ At(p, "detach")
    /\ trace_wait_pending' = [trace_wait_pending EXCEPT ![loc[p].slot] = FALSE]
    /\ Goto(p, "resume", loc[p])
    /\ UNCHANGED <<state, links, tracer_pid, trace_requested, sig_pending,
                   image, cpu>>

\* trace_stop_current
StopCurrent(p) ==
    /\ trace_wait_pending' = [trace_wait_pending EXCEPT ![p] = TRUE]
    /\ state' = [Woken(ByPid(tracer_pid[p])) EXCEPT ![p] = "TRACED_STOP"]
    /\ Goto(p, "stop", NoLocals)
    /\ SwitchOut(p)
    /\ UNCHANGED <<links, tracer_pid, sig_pending, image>>

\* trace_exec_stop
ExecStop(p) == /\ At(p, "exec_stop")
               /\ trace_requested' = [trace_requested EXCEPT ![p] = FALSE]
               /\ StopCurrent(p)

\* A stop at a system call, a breakpoint or a single step.
TraceStop(p) == /\ At(p, "user")
                /\ tracer_pid[p] # 0 /\ ~trace_requested[p]
                /\ StopCurrent(p)
                /\ UNCHANGED trace_requested

\* The loop of trace_stop_current ends: p runs again.
StopReturn(p) == /\ At(p, "stop")
                 /\ Return(p)
                 /\ UNCHANGED <<state, links, trace, sig_pending, image, cpu>>

----------------------------------------------------------------------------
(* The scheduler                                                           *)

\* sched_next picks a RUNNABLE process that no core runs.
Dispatch(p) == /\ p \notin core
               /\ state[p] = "RUNNABLE"
               /\ Cardinality(core) + Cardinality(leaving) < Cores
               /\ core' = core \cup {p}
               /\ UNCHANGED <<state, links, trace, sig_pending, image, pc, loc,
                              leaving, undead>>

\* The time slice ends, in the program or in the kernel outside a lock.
Preempt(p) == /\ p \in core
              /\ SwitchOut(p)
              /\ UNCHANGED <<state, links, trace, sig_pending, image, pc, loc>>

Vfork(p) == VforkAlloc(p) \/ VforkFail(p) \/ VforkStart(p) \/ VforkReturn(p)
Exec(p) == ExecLoad(p) \/ ExecWake(p) \/ ExecStop(p)
Exit(p) == ExitCall(p) \/ SignalExit(p) \/ ExitPublish(p) \/ ExitSwitch(p)
WaitStep(p) == \/ WaitFound(p) \/ WaitReturn(p) \/ WaitSleep(p) \/ WaitFault(p)
               \/ WaitStop(p) \/ WaitTracee(p) \/ WaitReap(p) \/ WaitStale(p)
               \/ ProcFree(p)
PtraceStep(p) == \/ PtraceTraceme(p) \/ PtraceInspect(p) \/ PtraceCont(p)
                 \/ PtraceDetach(p) \/ DetachClear(p) \/ TraceStop(p) \/ StopReturn(p)

Next == \E p \in Slot :
          \/ Vfork(p) \/ Exec(p) \/ Exit(p) \/ WaitStep(p) \/ PtraceStep(p)
          \/ SignalCaught(p) \/ Dispatch(p) \/ Preempt(p)
          \/ \E want \in WaitFor, opts \in WaitOptions : WaitCall(p, want, opts)
          \/ \E t \in Slot : Kill(p, t) \/ PtraceAttach(p, t) \/ PtraceFind(p, t)

Spec == Init /\ [][Next]_vars

\* A time slice ends, round-robin gives every runnable process the processor
\* again and again, and a slice is long enough for a step of the kernel.
\* Nothing is assumed of what programs do.
FairSpec == /\ Spec
            /\ \A p \in Slot : /\ SF_vars(Dispatch(p)) /\ WF_vars(Preempt(p))
                                /\ SF_vars(WaitStep(p))
                                /\ WF_vars(ExitSwitch(p))

----------------------------------------------------------------------------
(* Properties                                                              *)

TypeOK == /\ state \in [Slot -> States]
          /\ pid \in [Slot -> 0 .. MaxPid] /\ ppid \in [Slot -> 0 .. MaxPid]
          /\ vfork_parent \in [Slot -> Slot \cup {None}]
          /\ tracer_pid \in [Slot -> 0 .. MaxPid]
          /\ trace_requested \in [Slot -> BOOLEAN]
          /\ trace_wait_pending \in [Slot -> BOOLEAN]
          /\ sig_pending \in [Slot -> BOOLEAN]
          /\ image \in [Slot -> 0 .. Freed]
          /\ next_pid \in 1 .. MaxPid + 1
          /\ pc \in [Slot -> Points] /\ loc \in [Slot -> Locals]
          /\ core \subseteq Slot /\ leaving \subseteq Slot
          /\ undead \in BOOLEAN

Waits(p) == state[p] = "BLOCKED" /\ pc[p] = "wait"

\* waitpid never sleeps through an exit: while a process is asleep in waitpid,
\* no child or tracee it waits for is a zombie, and no stop of its tracees that
\* it asked for is unreported - whoever ended, was adopted, attached or stopped
\* in between (sys_exit, trace_stop_current against the scan of sys_waitpid).
NoLostExit ==
    \A p, s \in Slot :
        Waits(p) /\ Matches(p, s) =>
            /\ state[s] # "ZOMBIE"
            /\ ~(StopShows(p, s) /\ tracer_pid[s] = pid[p])

\* Every process has a parent that can still reap it: its ppid is the pid of a
\* process that has not ended, also when its parent ends while it is being
\* traced, is in vfork or has ended itself (the reparenting of sys_exit).
OrphansAdopted ==
    \A s \in Slot \ {InitSlot} :
        Live(s) => \E t \in ByPid(ppid[s]) : state[t] # "ZOMBIE"

\* A slot is freed once, by the parent that found it dead: the slot sys_waitpid
\* frees is one it marked REAPING, is still its child, and is in nobody else's
\* hands.
ReapedByParent ==
    \A p \in Slot : pc[p] = "free" =>
        LET s == loc[p].slot IN
        /\ state[s] = "REAPING" /\ pid[s] = loc[p].pid /\ ppid[s] = pid[p]
        /\ \A q \in Slot \ {p} : pc[q] \in {"free", "vfork"} => loc[q].slot # s

\* A parent asleep in vfork has a child that will wake it: the child it created
\* has neither ended nor finished its execve (sys_exit and sys_execve wake the
\* parent in the step that drops vfork_parent).
VforkParentNotStranded ==
    \A p \in Slot : state[p] = "BLOCKED" /\ pc[p] = "vforked" =>
        LET c == loc[p].slot IN
        Live(c) /\ state[c] # "ZOMBIE" /\ vfork_parent[c] = p

\* Pages are freed by their owner only: a process that is no vfork child keeps
\* the pages its own execve allocated until it calls execve or exit itself, and
\* a vfork child runs on the same pages as the parent parked for it (owns_pages
\* in sys_execve, the vfork_parent branches of sys_exit).
PagesFreedByOwner ==
    \A p \in Slot :
        /\ Live(p) /\ pc[p] \notin {"exit", "none"} /\ vfork_parent[p] = None
               => image[p] = p
        /\ pc[p] = "vforked" =>
               LET c == loc[p].slot IN
               vfork_parent[c] = p /\ pc[c] \notin {"exec", "exit"} =>
                   image[c] = image[p]

\* A parent that waits in waitpid for a child that has ended returns.
WaiterReturns ==
    \A p \in Slot :
        (pc[p] = "wait" /\ \E s \in Slot : Matches(p, s) /\ state[s] = "ZOMBIE")
            ~> pc[p] = "user"

----------------------------------------------------------------------------
(* What comments of the code say and the code does not keep                *)

\* sys_vfork: "The parent is BLOCKED, so it will not be selected again until
\* the child exits or execs."
VforkParentStays ==
    \A c \in Slot : Live(c) /\ vfork_parent[c] # None =>
        LET p == vfork_parent[c] IN pc[p] = "vforked" /\ p \notin core

\* proc_alloc: "Allocate a free PCB slot ... assigns a unique pid": two callers
\* are never given the same slot.
SlotAllocatedOnce ==
    \A p, q \in Slot : p # q /\ pc[p] = "vfork" /\ pc[q] = "vfork" =>
        loc[p].slot # loc[q].slot

\* sys_ptrace: "PROC_TRACED_STOP pins the PCB slot while the tracer operates on
\* it": from the lookup on, the slot holds the same, stopped process.  Not so
\* with two tracers, on one core already (README, section 5).
TargetPinned ==
    \A p \in Slot : pc[p] = "ptrace" =>
        state[loc[p].slot] = "TRACED_STOP" /\ pid[loc[p].slot] = loc[p].pid

\* sys_exit: "the ZOMBIE process will never be scheduled again", not even in a
\* slot that was reaped and handed out again before it left its core.  Not so
\* with two cores (README, section 5).
ExitIsFinal == ~undead
=============================================================================
