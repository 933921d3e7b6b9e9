--------------------------- MODULE ProcLifeProofs ---------------------------
(***************************************************************************)
(* Safety of the life of processes, for any number of slots, pids, tracers *)
(* and killers, on any number of cores, as long as no two vforks overlap.  *)
(***************************************************************************)
EXTENDS ProcLife, TLAPS

----------------------------------------------------------------------------
(* The inductive invariant                                                 *)

\* A process that has not ended is somewhere in its program or a system call,
\* and a core runs only such a process, never one asleep.
Running ==
    /\ \A s \in Slot : pc[s] # "none" <=>
                           state[s] \in {"RUNNABLE", "BLOCKED", "TRACED_STOP"}
    /\ \A s \in core : state[s] \in {"RUNNABLE", "TRACED_STOP"}

\* Pids are unique, also against the stale ones in free slots.
Numbered ==
    /\ \A s \in Slot : pid[s] < next_pid /\ (state[s] # "FREE" => pid[s] # 0)
    /\ \A s, t \in Slot : pid[s] # 0 /\ pid[s] = pid[t] => s = t
    /\ \A s \in Slot : state[s] # "FREE" => ppid[s] # pid[s]

\* init is always there to adopt.
InitLives == /\ pid[InitSlot] = InitPid /\ ppid[InitSlot] = 0
             /\ pc[InitSlot] \notin {"none", "exit"} /\ ~sig_pending[InitSlot]

\* The slot a system call has in hand: vfork's is free and nobody else's.
InHand ==
    /\ \A p \in Slot :
          pc[p] \in {"vfork", "vforked", "report_stop", "report_exit", "free",
                     "ptrace", "detach", "resume"} => loc[p].slot \in Slot
    /\ \A p \in Slot : pc[p] = "vfork" =>
          /\ state[loc[p].slot] = "FREE" /\ pid[loc[p].slot] # 0
          /\ \A q \in Slot : pc[q] = "vfork" => q = p

\* The pages of a new program are its own before the vfork parent is let go.
ExecOwnsPages == \A p \in Slot : pc[p] = "exec" => image[p] = p

IInv == /\ TypeOK /\ Running /\ Numbered /\ InitLives /\ InHand
        /\ OrphansAdopted /\ ReapedByParent
        /\ VforkParentNotStranded /\ PagesFreedByOwner /\ ExecOwnsPages
        /\ NoLostExit

----------------------------------------------------------------------------
(* Local variables and states                                              *)

LEMMA LocalsType ==
  /\ NoLocals \in Locals
  /\ \A c \in Slot : [NoLocals EXCEPT !.slot = c] \in Locals
  /\ \A c \in Slot, n \in 0 .. MaxPid :
        [NoLocals EXCEPT !.slot = c, !.pid = n] \in Locals
  /\ \A n \in WaitFor, o \in WaitOptions :
        [NoLocals EXCEPT !.want = n, !.opts = o] \in Locals
  /\ \A l \in Locals, c \in Slot \cup {None}, n \in 0 .. MaxPid, b \in BOOLEAN :
        [l EXCEPT !.slot = c, !.pid = n, !.child = b] \in Locals
<1>1. 0 \in 0 .. MaxPid /\ WaitFor \subseteq 0 .. MaxPid
  BY BoundsAssumption, ProgramsAssumption
<1>2. WaitOptions \subseteq SUBSET {"WNOHANG", "WSTOPPED"}
  BY ProgramsAssumption
<1>3. NoLocals \in Locals
  BY <1>1 DEF NoLocals, Locals, None, Any
<1>4. \A c \in Slot : [NoLocals EXCEPT !.slot = c] \in Locals
  BY <1>1 DEF NoLocals, Locals, None, Any
<1>5. \A c \in Slot, n \in 0 .. MaxPid :
        [NoLocals EXCEPT !.slot = c, !.pid = n] \in Locals
  BY <1>1 DEF NoLocals, Locals, None, Any
<1>6. \A n \in WaitFor, o \in WaitOptions :
        [NoLocals EXCEPT !.want = n, !.opts = o] \in Locals
  BY <1>1, <1>2 DEF NoLocals, Locals, None, Any
<1>7. \A l \in Locals, c \in Slot \cup {None}, n \in 0 .. MaxPid, b \in BOOLEAN :
        [l EXCEPT !.slot = c, !.pid = n, !.child = b] \in Locals
  BY DEF Locals
<1> QED BY <1>3, <1>4, <1>5, <1>6, <1>7

LEMMA InitIInv == Init => IInv
<1> SUFFICES ASSUME Init PROVE IInv
  OBVIOUS
<1> USE DEF Init, InitSlot, InitPid, None, Slot
<1>1. TypeOK
  <2>1. /\ pid \in [Slot -> 0 .. MaxPid] /\ ppid \in [Slot -> 0 .. MaxPid]
        /\ tracer_pid \in [Slot -> 0 .. MaxPid] /\ next_pid \in 1 .. MaxPid + 1
        /\ image \in [Slot -> 0 .. Freed] /\ vfork_parent \in [Slot -> Slot \cup {None}]
    BY BoundsAssumption DEF Freed
  <2>2. state \in [Slot -> States] /\ pc \in [Slot -> Points] /\ loc \in [Slot -> Locals]
    BY LocalsType DEF States, Points
  <2>3. /\ trace_requested \in [Slot -> BOOLEAN] /\ trace_wait_pending \in [Slot -> BOOLEAN]
        /\ sig_pending \in [Slot -> BOOLEAN] /\ undead \in BOOLEAN
    OBVIOUS
  <2> QED BY <2>1, <2>2, <2>3 DEF TypeOK
<1>2. Running
  BY DEF Running
<1>3. Numbered /\ InitLives
  BY BoundsAssumption DEF Numbered, InitLives
<1>4. InHand /\ ReapedByParent /\ VforkParentNotStranded
  BY DEF InHand, ReapedByParent, VforkParentNotStranded
<1>5. OrphansAdopted
  BY BoundsAssumption DEF OrphansAdopted, Live, ByPid
<1>6. PagesFreedByOwner /\ ExecOwnsPages
  BY DEF PagesFreedByOwner, ExecOwnsPages, Live
<1>7. NoLostExit
  BY DEF NoLostExit, Waits
<1> QED BY <1>1, <1>2, <1>3, <1>4, <1>5, <1>6, <1>7 DEF IInv

----------------------------------------------------------------------------
(* Every step keeps the invariant                                          *)

\* Nobody is born, ends, is reaped or falls asleep.
NoneEnds ==
    \A s \in Slot : /\ \A y \in {"FREE", "ZOMBIE", "REAPING"} :
                          state'[s] = y <=> state[s] = y
                    /\ state'[s] = "BLOCKED" => state[s] = "BLOCKED"

\* Steps in which a process moves from one point of its system call to another
\* and may stop, resume or wake others: what waitpid promises is left to show.
LEMMA MoveKept ==
  ASSUME IInv, NEW p \in core, NEW l \in Locals,
         NEW x \in {"user", "wait", "report_stop", "report_exit", "ptrace", "stop",
                    "detach", "resume"},
         pc[p] \notin {"none", "exec", "exit"},
         x \in {"report_stop", "report_exit", "ptrace", "detach", "resume"}
            => l.slot \in Slot,
         Goto(p, x, l),
         state' \in [Slot -> States], NoneEnds,
         core' \subseteq core, \A s \in core' : state'[s] \in {"RUNNABLE", "TRACED_STOP"},
         tracer_pid' \in [Slot -> 0 .. MaxPid],
         trace_requested' \in [Slot -> BOOLEAN],
         trace_wait_pending' \in [Slot -> BOOLEAN],
         NoLostExit',
         UNCHANGED <<links, sig_pending, image, leaving, undead>>
  PROVE  IInv'
<1> USE DEF IInv, Goto, links
<1>1. TypeOK'
  BY DEF TypeOK, Points
<1>2. Running'
  BY DEF TypeOK, Running, NoneEnds, States
<1>3. Numbered' /\ InitLives'
  BY DEF TypeOK, Numbered, InitLives, NoneEnds
<1>4. InHand'
  BY DEF TypeOK, InHand, NoneEnds
<1>5. OrphansAdopted'
  BY DEF OrphansAdopted, Live, ByPid, NoneEnds
<1>6. ReapedByParent'
  BY DEF TypeOK, ReapedByParent, InHand, NoneEnds
<1>7. VforkParentNotStranded'
  BY DEF TypeOK, VforkParentNotStranded, InHand, Live, NoneEnds
<1>8. PagesFreedByOwner' /\ ExecOwnsPages'
  BY DEF TypeOK, PagesFreedByOwner, ExecOwnsPages, Live, NoneEnds
<1> QED BY <1>1, <1>2, <1>3, <1>4, <1>5, <1>6, <1>7, <1>8

\* A step that makes nobody a zombie, a child or a tracee of anyone and shows
\* no new stop cannot be missed by a process asleep in waitpid.
LEMMA NothingNew ==
  ASSUME IInv, NoneEnds, NEW p \in core, NEW x, NEW l, Goto(p, x, l),
         state'[p] # "BLOCKED",
         UNCHANGED <<pid, ppid>>,
         \A s \in Slot : /\ tracer_pid'[s] \in {tracer_pid[s], 0}
                         /\ trace_wait_pending'[s] => trace_wait_pending[s]
                         /\ state'[s] = "TRACED_STOP" => state[s] = "TRACED_STOP"
  PROVE  NoLostExit'
<1> USE DEF IInv, Goto
<1> SUFFICES ASSUME NEW q \in Slot, NEW s \in Slot, Waits(q)', Matches(q, s)'
             PROVE  state'[s] # "ZOMBIE" /\ ~(StopShows(q, s)' /\ tracer_pid'[s] = pid[q])
  BY DEF NoLostExit
<1>1. q # p /\ Waits(q) /\ loc'[q] = loc[q]
  BY DEF TypeOK, Waits, NoneEnds
<1>2. pid[q] # 0
  BY <1>1 DEF Numbered, Waits
<1>3. Matches(q, s) /\ (tracer_pid'[s] = pid[q] => tracer_pid[s] = pid[q])
  BY <1>1, <1>2 DEF Matches, Live, NoneEnds
<1>4. StopShows(q, s)' => StopShows(q, s)
  BY <1>1 DEF StopShows
<1> QED BY <1>1, <1>3, <1>4 DEF NoLostExit, NoneEnds

\* Steps that only move a process, or let go of a tracee.
LEMMA MoveKeepsIInv ==
  ASSUME IInv, NEW p \in core, NEW l \in Locals,
         NEW x \in {"user", "wait", "report_stop", "report_exit", "ptrace",
                    "detach", "resume"},
         pc[p] \notin {"none", "exec", "exit"},
         x \in {"report_stop", "report_exit", "ptrace", "detach", "resume"}
            => l.slot \in Slot,
         Goto(p, x, l),
         tracer_pid' \in [Slot -> 0 .. MaxPid],
         trace_requested' \in [Slot -> BOOLEAN],
         trace_wait_pending' \in [Slot -> BOOLEAN],
         \A s \in Slot : /\ tracer_pid'[s] \in {tracer_pid[s], 0}
                         /\ trace_wait_pending'[s] => trace_wait_pending[s],
         UNCHANGED <<state, links, sig_pending, image, cpu>>
  PROVE  IInv'
<1>1. state' \in [Slot -> States] /\ NoneEnds
  BY DEF IInv, TypeOK, NoneEnds
<1>2. core' \subseteq core /\ \A s \in core' : state'[s] \in {"RUNNABLE", "TRACED_STOP"}
  BY DEF IInv, Running, cpu
<1>3. state'[p] # "BLOCKED"
  BY DEF IInv, Running
<1>4. NoLostExit'
  BY <1>1, <1>3, NothingNew DEF links
<1> QED BY <1>1, <1>2, <1>4, MoveKept DEF cpu

LEMMA AloneKeepsIInv ==
  ASSUME IInv, NEW p \in Slot, Dispatch(p) \/ Preempt(p) \/ ExitSwitch(p)
  PROVE  IInv'
<1> USE DEF IInv, Dispatch, Preempt, ExitSwitch, SwitchOut, links, trace
<1>1. TypeOK'
  BY DEF TypeOK
<1>2. Running'
  BY DEF TypeOK, Running, InHand
<1>3. Numbered' /\ InitLives'
  BY DEF TypeOK, Running, Numbered, InitLives, InHand
<1>4. InHand'
  BY DEF TypeOK, Running, InHand
<1>5. OrphansAdopted'
  BY DEF TypeOK, Running, InHand, OrphansAdopted, Live, ByPid
<1>6. ReapedByParent'
  BY DEF TypeOK, Running, InHand, ReapedByParent
<1>7. VforkParentNotStranded'
  BY DEF TypeOK, Running, InHand, VforkParentNotStranded, Live
<1>8. PagesFreedByOwner' /\ ExecOwnsPages'
  BY DEF TypeOK, Running, InHand, PagesFreedByOwner, ExecOwnsPages, Live
<1>9. NoLostExit'
  BY DEF TypeOK, Running, InHand, NoLostExit, Waits, Matches, StopShows, Live
<1> QED BY <1>1, <1>2, <1>3, <1>4, <1>5, <1>6, <1>7, <1>8, <1>9

LEMMA SignalCaughtKeepsIInv ==
  ASSUME IInv, NEW p \in Slot, SignalCaught(p)
  PROVE  IInv'
<1> USE DEF IInv, SignalCaught, At, links, trace, cpu
<1>1. TypeOK'
  BY DEF TypeOK
<1>2. Running'
  BY DEF TypeOK, Running, InHand
<1>3. Numbered' /\ InitLives'
  BY DEF TypeOK, Running, Numbered, InitLives, InHand
<1>4. InHand'
  BY DEF TypeOK, Running, InHand
<1>5. OrphansAdopted'
  BY DEF TypeOK, Running, InHand, OrphansAdopted, Live, ByPid
<1>6. ReapedByParent'
  BY DEF TypeOK, Running, InHand, ReapedByParent
<1>7. VforkParentNotStranded'
  BY DEF TypeOK, Running, InHand, VforkParentNotStranded, Live
<1>8. PagesFreedByOwner' /\ ExecOwnsPages'
  BY DEF TypeOK, Running, InHand, PagesFreedByOwner, ExecOwnsPages, Live
<1>9. NoLostExit'
  BY DEF TypeOK, Running, InHand, NoLostExit, Waits, Matches, StopShows, Live
<1> QED BY <1>1, <1>2, <1>3, <1>4, <1>5, <1>6, <1>7, <1>8, <1>9

LEMMA WaitSleepKeepsIInv ==
  ASSUME IInv, NEW p \in Slot, WaitSleep(p)
  PROVE  IInv'
<1> USE DEF IInv, WaitSleep, SwitchOut, At, links, trace
<1>1. TypeOK'
  BY DEF TypeOK, States
<1>2. Running'
  BY DEF TypeOK, Running, InHand, Found
<1>3. Numbered' /\ InitLives'
  BY DEF TypeOK, Running, Numbered, InitLives, InHand, Found
<1>4. InHand'
  BY DEF TypeOK, Running, InHand, Found
<1>5. OrphansAdopted'
  BY DEF TypeOK, Running, InHand, OrphansAdopted, Live, ByPid, Found
<1>6. ReapedByParent'
  BY DEF TypeOK, Running, InHand, ReapedByParent, Found
<1>7. VforkParentNotStranded'
  BY DEF TypeOK, Running, InHand, VforkParentNotStranded, Live, Found
<1>8. PagesFreedByOwner' /\ ExecOwnsPages'
  BY DEF TypeOK, Running, InHand, PagesFreedByOwner, ExecOwnsPages, Live, Found
<1>9. NoLostExit'
  BY DEF TypeOK, Running, InHand, NoLostExit, Waits, Matches, StopShows, Live, Found
<1> QED BY <1>1, <1>2, <1>3, <1>4, <1>5, <1>6, <1>7, <1>8, <1>9

LEMMA ExecLoadKeepsIInv ==
  ASSUME IInv, NEW p \in Slot, ExecLoad(p)
  PROVE  IInv'
<1> USE DEF IInv, ExecLoad, At, Goto, links, trace, cpu, Released
<1>1. TypeOK'
  <2>1. Released(p) \in [Slot -> 0 .. Freed]
    BY BoundsAssumption DEF TypeOK, Freed, None
  <2>2. image' \in [Slot -> 0 .. Freed]
    <3>1. p \in 0 .. Freed
      BY BoundsAssumption DEF Freed, Slot
    <3> QED BY <2>1, <3>1 DEF TypeOK
  <2> QED BY <2>2, LocalsType DEF TypeOK, Points
<1>2. Running'
  BY DEF TypeOK, Running, InHand, None, Freed, Slot
<1>3. Numbered' /\ InitLives'
  BY DEF TypeOK, Running, Numbered, InitLives, InHand, None, Freed, Slot
<1>4. InHand'
  BY DEF TypeOK, Running, InHand, None, Freed, Slot
<1>5. OrphansAdopted'
  BY DEF TypeOK, Running, InHand, OrphansAdopted, Live, ByPid, None, Freed, Slot
<1>6. ReapedByParent'
  BY DEF TypeOK, Running, InHand, ReapedByParent, None, Freed, Slot
<1>7. VforkParentNotStranded'
  BY DEF TypeOK, Running, InHand, VforkParentNotStranded, Live, None, Freed, Slot
<1>8. PagesFreedByOwner' /\ ExecOwnsPages'
  BY SMTT(30) DEF TypeOK, Running, InHand, PagesFreedByOwner, ExecOwnsPages, Live, None, Freed,
     Slot
<1>9. NoLostExit'
  BY DEF TypeOK, Running, InHand, NoLostExit, Waits, Matches, StopShows, Live, None,
     Freed, Slot
<1> QED BY <1>1, <1>2, <1>3, <1>4, <1>5, <1>6, <1>7, <1>8, <1>9

LEMMA ExecWakeKeepsIInv ==
  ASSUME IInv, NEW p \in Slot, ExecWake(p)
  PROVE  IInv'
<1> USE DEF IInv, ExecWake, At, Goto, links, trace, cpu, Woken
<1>1. TypeOK'
  BY LocalsType DEF TypeOK, Points, States, None
<1>2. Running'
  BY DEF TypeOK, Running, InHand, None
<1>3. Numbered' /\ InitLives'
  BY DEF TypeOK, Running, Numbered, InitLives, InHand, None
<1>4. InHand'
  BY DEF TypeOK, Running, InHand, None
<1>5. OrphansAdopted'
  BY DEF TypeOK, Running, InHand, OrphansAdopted, Live, ByPid, None
<1>6. ReapedByParent'
  BY DEF TypeOK, Running, InHand, ReapedByParent, None
<1>7. VforkParentNotStranded'
  BY DEF TypeOK, Running, InHand, VforkParentNotStranded, Live, None
<1>8. PagesFreedByOwner' /\ ExecOwnsPages'
  <2>1. \A s \in Slot : Live(s)' <=> Live(s)
    BY DEF TypeOK, Live
  <2>2. image[p] = p
    BY DEF ExecOwnsPages
  <2>3. None \notin Slot
    BY DEF None, Slot
  <2>4. ExecOwnsPages'
    BY DEF TypeOK, ExecOwnsPages
  <2>5. PagesFreedByOwner'
    BY <2>1, <2>2, <2>3 DEF TypeOK, PagesFreedByOwner, InHand
  <2> QED BY <2>4, <2>5
<1>9. NoLostExit'
  BY DEF TypeOK, Running, InHand, NoLostExit, Waits, Matches, StopShows, Live, None
<1> QED BY <1>1, <1>2, <1>3, <1>4, <1>5, <1>6, <1>7, <1>8, <1>9

LEMMA VforkFailKeepsIInv ==
  ASSUME IInv, NEW p \in Slot, VforkFail(p)
  PROVE  IInv'
<1> USE DEF IInv, VforkFail, Return, At, Goto, links, trace, cpu
<1>1. TypeOK'
  BY LocalsType DEF TypeOK, Points, States
<1>2. Running'
  BY DEF TypeOK, Running, InHand
<1>3. Numbered' /\ InitLives'
  BY DEF TypeOK, Running, Numbered, InitLives, InHand
<1>4. InHand'
  BY DEF TypeOK, Running, InHand
<1>5. OrphansAdopted'
  BY DEF TypeOK, Running, InHand, OrphansAdopted, Live, ByPid
<1>6. ReapedByParent'
  BY DEF TypeOK, Running, InHand, ReapedByParent
<1>7. VforkParentNotStranded'
  BY DEF TypeOK, Running, InHand, VforkParentNotStranded, Live
<1>8. PagesFreedByOwner' /\ ExecOwnsPages'
  BY DEF TypeOK, Running, InHand, PagesFreedByOwner, ExecOwnsPages, Live
<1>9. NoLostExit'
  BY DEF TypeOK, Running, InHand, NoLostExit, Waits, Matches, StopShows, Live
<1> QED BY <1>1, <1>2, <1>3, <1>4, <1>5, <1>6, <1>7, <1>8, <1>9

LEMMA ProcFreeKeepsIInv ==
  ASSUME IInv, NEW p \in Slot, ProcFree(p)
  PROVE  IInv'
<1> USE DEF IInv, ProcFree, Return, At, Goto, links, trace, cpu
<1>1. TypeOK'
  BY LocalsType DEF TypeOK, Points, States
<1>2. Running'
  BY DEF TypeOK, Running, InHand, ReapedByParent
<1>3. Numbered' /\ InitLives'
  BY DEF TypeOK, Running, Numbered, InitLives, InHand, ReapedByParent
<1>4. InHand'
  BY DEF TypeOK, Running, InHand, ReapedByParent
<1>5. OrphansAdopted'
  BY DEF TypeOK, Running, InHand, OrphansAdopted, Live, ByPid, ReapedByParent
<1>6. ReapedByParent'
  BY DEF TypeOK, Running, InHand, ReapedByParent, ReapedByParent
<1>7. VforkParentNotStranded'
  BY DEF TypeOK, Running, InHand, VforkParentNotStranded, Live, ReapedByParent
<1>8. PagesFreedByOwner' /\ ExecOwnsPages'
  BY DEF TypeOK, Running, InHand, PagesFreedByOwner, ExecOwnsPages, Live, ReapedByParent
<1>9. NoLostExit'
  BY DEF TypeOK, Running, InHand, NoLostExit, Waits, Matches, StopShows, Live,
     ReapedByParent
<1> QED BY <1>1, <1>2, <1>3, <1>4, <1>5, <1>6, <1>7, <1>8, <1>9

LEMMA KillKeepsIInv ==
  ASSUME IInv, NEW p \in Slot, NEW t \in Slot, Kill(p, t)
  PROVE  IInv'
<1> USE DEF IInv, Kill, At, links, trace, cpu, Woken
<1>1. TypeOK'
  BY DEF TypeOK, States
<1>2. Running'
  BY DEF TypeOK, Running, InHand
<1>3. Numbered' /\ InitLives'
  BY DEF TypeOK, Running, Numbered, InitLives, InHand
<1>4. InHand'
  BY DEF TypeOK, Running, InHand
<1>5. OrphansAdopted'
  BY DEF TypeOK, Running, InHand, OrphansAdopted, Live, ByPid
<1>6. ReapedByParent'
  BY DEF TypeOK, Running, InHand, ReapedByParent
<1>7. VforkParentNotStranded'
  BY DEF TypeOK, Running, InHand, VforkParentNotStranded, Live
<1>8. PagesFreedByOwner' /\ ExecOwnsPages'
  BY DEF TypeOK, Running, InHand, PagesFreedByOwner, ExecOwnsPages, Live
<1>9. NoLostExit'
  BY DEF TypeOK, Running, InHand, NoLostExit, Waits, Matches, StopShows, Live
<1> QED BY <1>1, <1>2, <1>3, <1>4, <1>5, <1>6, <1>7, <1>8, <1>9

LEMMA WaitReapKeepsIInv ==
  ASSUME IInv, NEW p \in Slot, WaitReap(p)
  PROVE  IInv'
<1> USE DEF IInv, WaitReap, At, Goto, links, trace, cpu
<1>1. TypeOK'
  BY DEF TypeOK, Points, States
<1>2. Running'
  BY DEF TypeOK, Running, InHand
<1>3. Numbered' /\ InitLives'
  BY DEF TypeOK, Running, Numbered, InitLives, InHand
<1>4. InHand'
  BY DEF TypeOK, Running, InHand
<1>5. OrphansAdopted'
  BY DEF TypeOK, Running, InHand, OrphansAdopted, Live, ByPid
<1>6. ReapedByParent'
  BY DEF TypeOK, Running, InHand, ReapedByParent
<1>7. VforkParentNotStranded'
  BY DEF TypeOK, Running, InHand, VforkParentNotStranded, Live
<1>8. PagesFreedByOwner' /\ ExecOwnsPages'
  BY DEF TypeOK, Running, InHand, PagesFreedByOwner, ExecOwnsPages, Live
<1>9. NoLostExit'
  BY DEF TypeOK, Running, InHand, NoLostExit, Waits, Matches, StopShows, Live
<1> QED BY <1>1, <1>2, <1>3, <1>4, <1>5, <1>6, <1>7, <1>8, <1>9

LEMMA PtraceTracemeKeepsIInv ==
  ASSUME IInv, NEW p \in Slot, PtraceTraceme(p)
  PROVE  IInv'
<1> USE DEF IInv, PtraceTraceme, At, links, cpu
<1>1. TypeOK'
  BY DEF TypeOK
<1>2. Running'
  BY DEF TypeOK, Running, InHand
<1>3. Numbered' /\ InitLives'
  BY DEF TypeOK, Running, Numbered, InitLives, InHand
<1>4. InHand'
  BY DEF TypeOK, Running, InHand
<1>5. OrphansAdopted'
  BY DEF TypeOK, Running, InHand, OrphansAdopted, Live, ByPid
<1>6. ReapedByParent'
  BY DEF TypeOK, Running, InHand, ReapedByParent
<1>7. VforkParentNotStranded'
  BY DEF TypeOK, Running, InHand, VforkParentNotStranded, Live
<1>8. PagesFreedByOwner' /\ ExecOwnsPages'
  BY DEF TypeOK, Running, InHand, PagesFreedByOwner, ExecOwnsPages, Live
<1>9. NoLostExit'
  BY DEF TypeOK, Running, InHand, NoLostExit, Waits, Matches, StopShows, Live
<1> QED BY <1>1, <1>2, <1>3, <1>4, <1>5, <1>6, <1>7, <1>8, <1>9

LEMMA WaitStopKeepsIInv ==
  ASSUME IInv, NEW p \in Slot, WaitStop(p) \/ WaitTracee(p)
  PROVE  IInv'
<1> USE DEF Return, At, links, cpu
<1>1. p \in core /\ loc[p] \in Locals /\ NoLocals \in Locals
  BY LocalsType DEF IInv, TypeOK, WaitStop, WaitTracee
<1>2. [loc[p] EXCEPT !.slot = None, !.pid = 0, !.child = FALSE] \in Locals
  <2>1. None \in Slot \cup {None} /\ 0 \in 0 .. MaxPid /\ FALSE \in BOOLEAN
    BY BoundsAssumption
  <2> QED BY <1>1, <2>1, LocalsType
<1>3. /\ pc[p] \in {"report_stop", "report_exit"}
      /\ UNCHANGED <<state, links, sig_pending, image, cpu>>
  BY DEF WaitStop, WaitTracee
<1>4. /\ tracer_pid' \in [Slot -> 0 .. MaxPid]
      /\ trace_requested' \in [Slot -> BOOLEAN]
      /\ trace_wait_pending' \in [Slot -> BOOLEAN]
  <2>1. CASE WaitStop(p)
    BY <2>1 DEF WaitStop, IInv, TypeOK
  <2>2. CASE WaitTracee(p)
    <3>1. 0 \in 0 .. MaxPid
      BY BoundsAssumption
    <3> QED BY <2>2, <3>1 DEF WaitTracee, IInv, TypeOK
  <2> QED BY <2>1, <2>2
<1>5. \A s \in Slot : /\ tracer_pid'[s] \in {tracer_pid[s], 0}
                      /\ trace_wait_pending'[s] => trace_wait_pending[s]
  BY DEF WaitStop, WaitTracee, IInv, TypeOK
<1>6. CASE Goto(p, "user", NoLocals)
  BY <1>1, <1>3, <1>4, <1>5, <1>6, MoveKeepsIInv
<1>7. CASE Goto(p, "wait", [loc[p] EXCEPT !.slot = None, !.pid = 0, !.child = FALSE])
  BY <1>1, <1>2, <1>3, <1>4, <1>5, <1>7, MoveKeepsIInv
<1> QED BY <1>6, <1>7 DEF WaitStop, WaitTracee

\* sys_exit up to the lock; the pages given back are the process's own.
LEMMA ExitReleaseKeepsIInv ==
  ASSUME IInv, NEW p \in Slot, ExitCall(p) \/ SignalExit(p)
  PROVE  IInv'
<1> USE DEF IInv, links, trace, cpu
<1>1. /\ p \in core /\ pc[p] = "user" /\ p # InitSlot
      /\ ExitRelease(p) /\ sig_pending' \in [Slot -> BOOLEAN]
      /\ sig_pending'[InitSlot] = sig_pending[InitSlot]
  <2>1. CASE ExitCall(p)
    BY <2>1 DEF ExitCall, At, TypeOK
  <2>2. CASE SignalExit(p)
    <3>1. InitSlot \in Slot /\ ~sig_pending[InitSlot] /\ sig_pending \in [Slot -> BOOLEAN]
      BY BoundsAssumption DEF InitSlot, Slot, InitLives, TypeOK
    <3>2. p \in core /\ pc[p] = "user" /\ ExitRelease(p) /\ sig_pending[p]
      BY <2>2 DEF SignalExit, At
    <3>3. sig_pending' = [sig_pending EXCEPT ![p] = FALSE] /\ p # InitSlot
      BY <2>2, <3>1, <3>2 DEF SignalExit
    <3>4. /\ sig_pending' \in [Slot -> BOOLEAN]
          /\ sig_pending'[InitSlot] = sig_pending[InitSlot]
      BY <3>1, <3>3
    <3> QED BY <3>2, <3>3, <3>4
  <2> QED BY <2>1, <2>2
<1>2. /\ pc' = [pc EXCEPT ![p] = "exit"] /\ loc' = [loc EXCEPT ![p] = NoLocals]
      /\ UNCHANGED <<state, links, trace, cpu>>
      /\ image' = IF vfork_parent[p] = None THEN Released(p) ELSE [image EXCEPT ![p] = None]
  BY <1>1 DEF ExitRelease, Goto
<1>3. image' \in [Slot -> 0 .. Freed]
  BY <1>2, BoundsAssumption DEF TypeOK, Freed, None, Released
<1>4. TypeOK'
  BY <1>1, <1>2, <1>3, LocalsType DEF TypeOK, Points
<1>5. Running' /\ Numbered' /\ InitLives'
  BY <1>1, <1>2 DEF TypeOK, Running, Numbered, InitLives
<1>6. InHand'
  BY <1>1, <1>2 DEF TypeOK, InHand
<1>7. OrphansAdopted' /\ ReapedByParent'
  BY <1>1, <1>2 DEF TypeOK, OrphansAdopted, Live, ByPid, ReapedByParent
<1>8. VforkParentNotStranded'
  BY <1>1, <1>2 DEF TypeOK, VforkParentNotStranded, Live
<1>9. PagesFreedByOwner' /\ ExecOwnsPages'
  <2>1. CASE vfork_parent[p] = None
    <3>1. image[p] = p /\ p # None
      BY <1>1, <2>1 DEF PagesFreedByOwner, Running, Live, None, Slot
    <3>2. \A s \in Slot \ {p} : image'[s] = IF image[s] = p THEN Freed ELSE image[s]
      BY <1>2, <2>1, <3>1 DEF Released
    <3>3. ExecOwnsPages'
      BY <1>1, <1>2, <3>2 DEF ExecOwnsPages, TypeOK
    <3>4. PagesFreedByOwner'
      BY <1>1, <1>2, <2>1, <3>1, <3>2 DEF PagesFreedByOwner, TypeOK, Live, None, InHand
    <3> QED BY <3>3, <3>4
  <2>2. CASE vfork_parent[p] # None
    BY <1>1, <1>2, <2>2 DEF PagesFreedByOwner, ExecOwnsPages, TypeOK, Live, InHand
  <2> QED BY <2>1, <2>2
<1>10. NoLostExit'
  BY <1>1, <1>2 DEF TypeOK, Running, NoLostExit, Waits, Matches, StopShows, Live
<1> QED BY <1>4, <1>5, <1>6, <1>7, <1>8, <1>9, <1>10

LEMMA PtraceAttachKeepsIInv ==
  ASSUME IInv, NEW p \in Slot, NEW t \in Slot, PtraceAttach(p, t)
  PROVE  IInv'
<1> USE DEF IInv
<1>1. /\ p \in core /\ pc[p] = "user" /\ t # p /\ pc[t] # "none"
      /\ tracer_pid' = [tracer_pid EXCEPT ![t] = pid[p]]
      /\ trace_wait_pending' = [trace_wait_pending EXCEPT ![t] = TRUE]
      /\ state' = [state EXCEPT ![t] = "TRACED_STOP"]
      /\ UNCHANGED <<trace_requested, links, sig_pending, image, pc, loc, cpu>>
  BY DEF PtraceAttach, At, Live, Running, TypeOK, States
<1>2. state' \in [Slot -> States] /\ NoneEnds
  BY <1>1 DEF TypeOK, States, NoneEnds, Running
<1>3. core' \subseteq core /\ \A s \in core' : state'[s] \in {"RUNNABLE", "TRACED_STOP"}
  BY <1>1 DEF Running, TypeOK, cpu
<1>4. Goto(p, "user", loc[p]) /\ loc[p] \in Locals
  BY <1>1 DEF Goto, TypeOK
<1>5. /\ tracer_pid' \in [Slot -> 0 .. MaxPid]
      /\ trace_requested' \in [Slot -> BOOLEAN]
      /\ trace_wait_pending' \in [Slot -> BOOLEAN]
  BY <1>1 DEF TypeOK
<1>6. NoLostExit'
  <2> SUFFICES ASSUME NEW q \in Slot, NEW s \in Slot, Waits(q)', Matches(q, s)'
               PROVE  state'[s] # "ZOMBIE" /\ ~(StopShows(q, s)' /\ tracer_pid'[s] = pid[q])
    BY <1>1 DEF NoLostExit, links
  <2>1. Waits(q) /\ q # p /\ pid[q] # pid[p]
    BY <1>1, <1>2 DEF Waits, Running, Numbered, NoneEnds
  <2>2. CASE s = t
    BY <1>1, <2>1, <2>2 DEF TypeOK
  <2>3. CASE s # t
    <3>1. Matches(q, s) /\ (StopShows(q, s)' => StopShows(q, s))
      BY <1>1, <1>2, <2>3 DEF Matches, StopShows, TypeOK, Live, links
    <3> QED BY <1>1, <1>2, <2>1, <2>3, <3>1 DEF NoLostExit, TypeOK, NoneEnds
  <2> QED BY <2>2, <2>3
<1> HIDE DEF IInv
<1> QED BY <1>1, <1>2, <1>3, <1>4, <1>5, <1>6, MoveKept DEF cpu

\* trace_resume_target makes a stopped process runnable, and no other.
LEMMA PtraceResumeKeepsIInv ==
  ASSUME IInv, NEW p \in Slot, PtraceCont(p)
  PROVE  IInv'
<1> USE DEF IInv
<1> DEFINE t == loc[p].slot
<1>1. /\ p \in core /\ pc[p] \in {"ptrace", "resume"} /\ Resume(t) /\ Goto(p, "user", NoLocals)
      /\ UNCHANGED <<links, sig_pending, image, cpu>>
  BY DEF PtraceCont, At, Return
<1>2. t \in Slot
  BY <1>1 DEF InHand
<1>3. /\ tracer_pid' \in [Slot -> 0 .. MaxPid]
      /\ trace_requested' \in [Slot -> BOOLEAN]
      /\ \A s \in Slot : tracer_pid'[s] \in {tracer_pid[s], 0}
  BY DEF PtraceCont, TypeOK
<1> HIDE DEF t
<1>4. trace_wait_pending' \in [Slot -> BOOLEAN]
  BY <1>1, <1>2 DEF TypeOK, Resume
<1>5. state' \in [Slot -> States] /\ NoneEnds
  BY <1>1, <1>2 DEF TypeOK, Resume, States, NoneEnds
<1>6. /\ core' \subseteq core /\ \A s \in core' : state'[s] \in {"RUNNABLE", "TRACED_STOP"}
      /\ state'[p] # "BLOCKED"
  BY <1>1, <1>2 DEF Running, TypeOK, cpu, Resume
<1>7. \A s \in Slot : /\ trace_wait_pending'[s] => trace_wait_pending[s]
                      /\ state'[s] = "TRACED_STOP" => state[s] = "TRACED_STOP"
  BY <1>1, <1>2 DEF Resume, TypeOK
<1> HIDE DEF IInv
<1>8. NoLostExit'
  BY <1>1, <1>3, <1>5, <1>6, <1>7, NothingNew DEF links
<1> QED BY <1>1, <1>3, <1>4, <1>5, <1>6, <1>8, LocalsType, MoveKept DEF cpu

\* The stores of PTRACE_DETACH take a tracer away and a stop with it.
LEMMA PtraceDetachKeepsIInv ==
  ASSUME IInv, NEW p \in Slot, PtraceDetach(p) \/ DetachClear(p)
  PROVE  IInv'
<1> DEFINE t == loc[p].slot
<1>1. /\ p \in core /\ pc[p] \in {"ptrace", "detach"}
      /\ Goto(p, "detach", loc[p]) \/ Goto(p, "resume", loc[p])
      /\ UNCHANGED <<state, links, sig_pending, image, cpu>>
  BY DEF PtraceDetach, DetachClear, At
<1>2. t \in Slot /\ loc[p] \in Locals
  BY <1>1 DEF IInv, TypeOK, InHand
<1>3. 0 \in 0 .. MaxPid
  BY BoundsAssumption
<1>4. /\ tracer_pid' \in [Slot -> 0 .. MaxPid]
      /\ trace_requested' \in [Slot -> BOOLEAN]
      /\ trace_wait_pending' \in [Slot -> BOOLEAN]
      /\ \A s \in Slot : /\ tracer_pid'[s] \in {tracer_pid[s], 0}
                         /\ trace_wait_pending'[s] => trace_wait_pending[s]
  BY <1>2, <1>3 DEF IInv, TypeOK, PtraceDetach, DetachClear
<1> QED BY <1>1, <1>2, <1>4, MoveKeepsIInv

\* trace_stop_current: the tracer is woken in the step that shows the stop.
LEMMA TraceStopKeepsIInv ==
  ASSUME IInv, NEW p \in Slot, ExecStop(p) \/ TraceStop(p)
  PROVE  IInv'
<1> USE DEF IInv
<1>1. /\ p \in core /\ pc[p] \in {"user", "exec_stop"} /\ StopCurrent(p)
  BY DEF ExecStop, TraceStop, At
<1>2. /\ trace_wait_pending' = [trace_wait_pending EXCEPT ![p] = TRUE]
      /\ state' = [Woken(ByPid(tracer_pid[p])) EXCEPT ![p] = "TRACED_STOP"]
      /\ Goto(p, "stop", NoLocals) /\ core' = core \ {p}
      /\ UNCHANGED <<links, tracer_pid, sig_pending, image, leaving, undead>>
  BY <1>1 DEF StopCurrent, SwitchOut
<1>3. trace_requested' \in [Slot -> BOOLEAN]
  BY DEF ExecStop, TraceStop, TypeOK
<1>4. trace_wait_pending' \in [Slot -> BOOLEAN] /\ tracer_pid' \in [Slot -> 0 .. MaxPid]
  BY <1>2 DEF TypeOK
<1>5. state' \in [Slot -> States] /\ NoneEnds
  BY <1>1, <1>2 DEF TypeOK, States, NoneEnds, Running, Woken
<1>6. core' \subseteq core /\ \A s \in core' : state'[s] \in {"RUNNABLE", "TRACED_STOP"}
  BY <1>1, <1>2 DEF Running, TypeOK, Woken
<1>7. NoLostExit'
  <2> SUFFICES ASSUME NEW q \in Slot, NEW s \in Slot, Waits(q)', Matches(q, s)'
               PROVE  state'[s] # "ZOMBIE" /\ ~(StopShows(q, s)' /\ tracer_pid'[s] = pid[q])
    BY <1>2 DEF NoLostExit, links
  <2>1. q # p /\ state[q] = "BLOCKED" /\ pc[q] = "wait" /\ loc'[q] = loc[q]
    BY <1>2, <1>5 DEF Waits, NoneEnds, Goto, TypeOK
  <2>2. q \notin ByPid(tracer_pid[p])
    BY <1>2, <2>1 DEF Woken, Waits
  <2>3. tracer_pid[p] # pid[q]
    BY <2>1, <2>2 DEF ByPid, Live
  <2>4. CASE s = p
    BY <1>2, <2>3, <2>4 DEF TypeOK, Woken
  <2>5. CASE s # p
    <3>1. Matches(q, s) /\ (StopShows(q, s)' => StopShows(q, s))
      BY <1>2, <1>5, <2>1, <2>5 DEF Matches, StopShows, TypeOK, Live, links, NoneEnds,
         Woken
    <3> QED BY <1>2, <1>5, <2>1, <2>5, <3>1 DEF NoLostExit, Waits, NoneEnds
  <2> QED BY <2>4, <2>5
<1> HIDE DEF IInv
<1> QED BY <1>1, <1>2, <1>3, <1>4, <1>5, <1>6, <1>7, LocalsType, MoveKept

\* proc_alloc numbers a slot nobody uses; with vforks one after the other it is
\* in nobody else's hands either.
LEMMA VforkAllocKeepsIInv ==
  ASSUME IInv, SerialVfork, NEW p \in Slot, VforkAlloc(p)
  PROVE  IInv'
<1> USE DEF IInv
<1>1. /\ p \in core /\ pc[p] = "user" /\ next_pid <= MaxPid /\ next_pid' = next_pid + 1
      /\ \A q \in Slot : pc[q] # "vfork"
      /\ UNCHANGED <<state, cpu>>
  BY DEF VforkAlloc, At
<1>2. PICK c \in Slot :
         /\ state[c] = "FREE"
         /\ pid' = [pid EXCEPT ![c] = next_pid]
         /\ ppid' = [ppid EXCEPT ![c] = 0]
         /\ vfork_parent' = [vfork_parent EXCEPT ![c] = None]
         /\ tracer_pid' = [tracer_pid EXCEPT ![c] = 0]
         /\ trace_requested' = [trace_requested EXCEPT ![c] = FALSE]
         /\ trace_wait_pending' = [trace_wait_pending EXCEPT ![c] = FALSE]
         /\ sig_pending' = [sig_pending EXCEPT ![c] = FALSE]
         /\ image' = [image EXCEPT ![c] = None]
         /\ Goto(p, "vfork", [NoLocals EXCEPT !.slot = c])
  BY DEF VforkAlloc
<1> DEFINE l == [NoLocals EXCEPT !.slot = c]
<1>3. l \in Locals /\ l.slot = c
  BY LocalsType DEF NoLocals
<1>4. pc' = [pc EXCEPT ![p] = "vfork"] /\ loc' = [loc EXCEPT ![p] = l]
  BY <1>2 DEF Goto
<1> HIDE DEF l
<1>5. p # c /\ pc[c] = "none"
  BY <1>1, <1>2 DEF Running
<1>6. TypeOK'
  <2>1. /\ 0 \in 0 .. MaxPid /\ next_pid \in 0 .. MaxPid /\ next_pid' \in 1 .. MaxPid + 1
        /\ None \in 0 .. Freed
    BY <1>1, BoundsAssumption DEF TypeOK, None, Freed
  <2> QED BY <1>1, <1>2, <1>3, <1>4, <2>1 DEF TypeOK, Points, cpu
<1>7. Running'
  BY <1>1, <1>4, <1>5 DEF Running, TypeOK, cpu
<1>8. Numbered'
  <2>1. next_pid \in Nat \ {0} /\ \A s \in Slot : pid[s] \in Nat
    BY BoundsAssumption DEF TypeOK
  <2> QED BY <1>1, <1>2, <2>1 DEF Numbered, TypeOK
<1>9. InitLives'
  <2>1. InitSlot # c
    BY <1>5 DEF InitLives
  <2> QED BY <1>1, <1>2, <1>4, <2>1 DEF InitLives, TypeOK
<1>10. InHand'
  <2>1. next_pid # 0
    BY DEF TypeOK
  <2>2. pid'[c] # 0
    BY <1>2, <2>1 DEF TypeOK
  <2> QED BY <1>1, <1>2, <1>3, <1>4, <2>2 DEF InHand, TypeOK
<1>11. OrphansAdopted'
  BY <1>1, <1>2 DEF OrphansAdopted, Live, ByPid, TypeOK
<1>12. ReapedByParent'
  <2> SUFFICES ASSUME NEW q \in Slot, pc'[q] = "free"
               PROVE  /\ state'[loc'[q].slot] = "REAPING"
                      /\ pid'[loc'[q].slot] = loc'[q].pid /\ ppid'[loc'[q].slot] = pid'[q]
                      /\ \A r \in Slot \ {q} : pc'[r] \in {"free", "vfork"} =>
                                                   loc'[r].slot # loc'[q].slot
    BY DEF ReapedByParent
  <2>1. q # p /\ q # c /\ pc[q] = "free" /\ loc'[q] = loc[q]
    BY <1>4, <1>5 DEF TypeOK
  <2>2. loc[q].slot # c /\ loc[q].slot \in Slot
    BY <1>2, <2>1 DEF ReapedByParent, InHand
  <2>3. \A r \in Slot \ {q} : pc'[r] \in {"free", "vfork"} => loc'[r].slot # loc'[q].slot
    BY <1>1, <1>3, <1>4, <2>1, <2>2 DEF ReapedByParent, TypeOK
  <2> QED BY <1>1, <1>2, <2>1, <2>2, <2>3 DEF ReapedByParent, TypeOK
<1>13. VforkParentNotStranded'
  BY <1>1, <1>2, <1>3, <1>4, <1>5 DEF VforkParentNotStranded, InHand, Live, TypeOK
<1>14. PagesFreedByOwner' /\ ExecOwnsPages'
  <2>1. None \notin Slot
    BY DEF None, Slot
  <2>2. ExecOwnsPages'
    BY <1>2, <1>4, <1>5 DEF ExecOwnsPages, TypeOK
  <2>3. PagesFreedByOwner'
    BY <1>1, <1>2, <1>3, <1>4, <1>5, <2>1 DEF PagesFreedByOwner, InHand, Live, TypeOK
  <2> QED BY <2>2, <2>3
<1>15. NoLostExit'
  BY <1>1, <1>2, <1>4, <1>5 DEF NoLostExit, Waits, Matches, StopShows, Live, TypeOK,
     Running
<1> QED BY <1>6, <1>7, <1>8, <1>9, <1>10, <1>11, <1>12, <1>13, <1>14, <1>15

\* The child is published and its parent put to sleep in one critical section.
LEMMA VforkStartKeepsIInv ==
  ASSUME IInv, NEW p \in Slot, VforkStart(p)
  PROVE  IInv'
<1> USE DEF IInv
<1> DEFINE c == loc[p].slot
<1>1. /\ p \in core /\ pc[p] = "vfork"
      /\ ppid' = [ppid EXCEPT ![c] = pid[p]]
      /\ vfork_parent' = [vfork_parent EXCEPT ![c] = p]
      /\ image' = [image EXCEPT ![c] = image[p]]
      /\ state' = [state EXCEPT ![p] = "BLOCKED", ![c] = "RUNNABLE"]
      /\ pc' = [pc EXCEPT ![p] = "vforked", ![c] = "user"]
      /\ loc' = [loc EXCEPT ![c] = NoLocals]
      /\ core' = core \ {p}
      /\ UNCHANGED <<pid, next_pid, trace, sig_pending, leaving, undead>>
  BY DEF VforkStart, At, SwitchOut
<1>2. /\ c \in Slot /\ state[c] = "FREE" /\ pid[c] # 0 /\ c # p /\ pc[c] = "none"
      /\ state[p] \in {"RUNNABLE", "TRACED_STOP"} /\ c \notin core
  BY <1>1 DEF InHand, Running
<1>3. loc'[p] = loc[p] /\ loc'[p].slot = c
  BY <1>1, <1>2 DEF TypeOK
<1>4. \A q \in Slot \ {p} : pc[q] # "vfork"
  BY <1>1 DEF InHand
<1> HIDE DEF c
<1>5. TypeOK'
  BY <1>1, <1>2, LocalsType DEF TypeOK, States, Points, trace
<1>6. Running'
  BY <1>1, <1>2 DEF Running, TypeOK
<1>7. Numbered'
  BY <1>1, <1>2 DEF Numbered, TypeOK
<1>8. InitLives'
  <2>1. InitSlot \in Slot /\ InitSlot # c
    BY <1>2, BoundsAssumption DEF InitLives, InitSlot, Slot
  <2> QED BY <1>1, <1>2, <2>1 DEF InitLives, TypeOK
<1>9. InHand'
  BY <1>1, <1>2, <1>3, <1>4 DEF InHand, TypeOK
<1>10. OrphansAdopted'
  <2>1. \A s \in Slot \ {c} : /\ Live(s)' <=> Live(s)
                              /\ state'[s] = "ZOMBIE" <=> state[s] = "ZOMBIE"
    BY <1>1, <1>2 DEF TypeOK, Live
  <2>2. Live(p)' /\ state'[p] # "ZOMBIE"
    BY <1>1, <1>2 DEF TypeOK, Live
  <2> QED BY <1>1, <1>2, <2>1, <2>2 DEF OrphansAdopted, ByPid, TypeOK, Live
<1>11. ReapedByParent'
  <2> SUFFICES ASSUME NEW q \in Slot, pc'[q] = "free"
               PROVE  /\ state'[loc'[q].slot] = "REAPING"
                      /\ pid'[loc'[q].slot] = loc'[q].pid /\ ppid'[loc'[q].slot] = pid'[q]
                      /\ \A r \in Slot \ {q} : pc'[r] \in {"free", "vfork"} =>
                                                   loc'[r].slot # loc'[q].slot
    BY DEF ReapedByParent
  <2>1. q # p /\ q # c /\ pc[q] = "free" /\ loc'[q] = loc[q]
    BY <1>1, <1>2 DEF TypeOK
  <2>2. loc[q].slot \in Slot \ {c, p}
    BY <1>2, <2>1 DEF ReapedByParent, InHand
  <2>3. \A r \in Slot \ {q} : pc'[r] \in {"free", "vfork"} => loc'[r].slot # loc'[q].slot
    BY <1>1, <1>2, <2>1, <2>2 DEF ReapedByParent, TypeOK
  <2> QED BY <1>1, <2>1, <2>2, <2>3 DEF ReapedByParent, TypeOK
<1>12. VforkParentNotStranded'
  <2> SUFFICES ASSUME NEW q \in Slot, state'[q] = "BLOCKED", pc'[q] = "vforked"
               PROVE  /\ state'[loc'[q].slot] \notin {"FREE", "REAPING", "ZOMBIE"}
                      /\ vfork_parent'[loc'[q].slot] = q
    BY DEF VforkParentNotStranded, Live
  <2>1. CASE q = p
    BY <1>1, <1>2, <1>3, <2>1 DEF TypeOK, Live
  <2>2. CASE q # p
    <3>1. q # c /\ state[q] = "BLOCKED" /\ pc[q] = "vforked" /\ loc'[q] = loc[q]
      BY <1>1, <1>2, <2>2 DEF TypeOK
    <3>2. loc[q].slot \in Slot \ {c}
      BY <1>2, <3>1 DEF VforkParentNotStranded, Live, InHand
    <3> QED BY <1>1, <1>2, <3>1, <3>2 DEF VforkParentNotStranded, Live, TypeOK
  <2> QED BY <2>1, <2>2
<1>13. PagesFreedByOwner' /\ ExecOwnsPages'
  <2>1. p # None
    BY DEF None, Slot
  <2>2. ExecOwnsPages'
    BY <1>1, <1>2 DEF ExecOwnsPages, TypeOK
  <2>3. ASSUME NEW q \in Slot, Live(q)', pc'[q] \notin {"exit", "none"}, vfork_parent'[q] = None
        PROVE  image'[q] = q
    BY <1>1, <1>2, <2>1, <2>3 DEF PagesFreedByOwner, Live, TypeOK
  <2>4. ASSUME NEW q \in Slot, pc'[q] = "vforked", vfork_parent'[loc'[q].slot] = q,
               pc'[loc'[q].slot] \notin {"exec", "exit"}
        PROVE  image'[loc'[q].slot] = image'[q]
    <3>1. CASE q = p
      BY <1>1, <1>2, <1>3, <3>1 DEF TypeOK
    <3>2. CASE q # p
      <4>1. q # c /\ pc[q] = "vforked" /\ loc'[q] = loc[q] /\ loc[q].slot \in Slot \ {c}
        BY <1>1, <1>2, <2>4, <3>2 DEF TypeOK, InHand
      <4> QED BY <1>1, <1>2, <2>4, <4>1 DEF PagesFreedByOwner, TypeOK
    <3> QED BY <3>1, <3>2
  <2> QED BY <2>2, <2>3, <2>4 DEF PagesFreedByOwner, Live
<1>14. NoLostExit'
  <2> SUFFICES ASSUME NEW q \in Slot, NEW s \in Slot, Waits(q)', Matches(q, s)'
               PROVE  state'[s] # "ZOMBIE" /\ ~(StopShows(q, s)' /\ tracer_pid'[s] = pid'[q])
    BY DEF NoLostExit
  <2>1. q # p /\ q # c /\ Waits(q) /\ loc'[q] = loc[q]
    BY <1>1, <1>2 DEF Waits, TypeOK
  <2>2. CASE s \in {c, p}
    BY <1>1, <1>2, <2>2 DEF StopShows, TypeOK
  <2>3. CASE s \notin {c, p}
    BY <1>1, <1>2, <2>1, <2>3 DEF NoLostExit, Matches, StopShows, Live, TypeOK, trace
  <2> QED BY <2>2, <2>3
<1> QED BY <1>5, <1>6, <1>7, <1>8, <1>9, <1>10, <1>11, <1>12, <1>13, <1>14

\* The critical section of sys_exit: every process that waits for this exit, or
\* for one of the zombies init inherits, is woken in it.
LEMMA ExitPublishKeepsIInv ==
  ASSUME IInv, NEW p \in Slot, ExitPublish(p)
  PROVE  IInv'
<1> USE DEF IInv
<1>1. /\ p \in core /\ pc[p] = "exit"
      /\ state' = [Woken(ExitWakes(p)) EXCEPT ![p] = "ZOMBIE"]
      /\ vfork_parent' = [vfork_parent EXCEPT ![p] = None]
      /\ ppid' = [s \in Slot |-> IF s \in Children(p) THEN InitPid ELSE ppid[s]]
      /\ pc' = [pc EXCEPT ![p] = "none"]
      /\ core' = core \ {p} /\ leaving' = leaving \cup {p}
      /\ UNCHANGED <<pid, next_pid, trace, sig_pending, image, loc, undead>>
  BY DEF ExitPublish, At
<1>2. InitSlot \in Slot /\ InitPid \in 1 .. MaxPid
  BY BoundsAssumption DEF InitSlot, Slot, InitPid
<1>3. p # InitSlot /\ state[p] \in {"RUNNABLE", "TRACED_STOP"} /\ None \notin Slot
  BY <1>1 DEF InitLives, Running, None, Slot
<1>4. state' \in [Slot -> States] /\ state'[p] = "ZOMBIE"
  BY <1>1 DEF TypeOK, Woken, States
<1>5. \A s \in Slot \ {p} :
         state'[s] = IF s \in ExitWakes(p) /\ state[s] = "BLOCKED" THEN "RUNNABLE" ELSE state[s]
  BY <1>1 DEF Woken, TypeOK
<1>6. \A s \in Slot \ {p} : pc'[s] = pc[s] /\ vfork_parent'[s] = vfork_parent[s]
  BY <1>1 DEF TypeOK
<1>7. pc'[p] = "none" /\ vfork_parent'[p] = None
  BY <1>1 DEF TypeOK
<1>8. TypeOK'
  <2>1. ppid' \in [Slot -> 0 .. MaxPid]
    BY <1>1, <1>2 DEF TypeOK
  <2> QED BY <1>1, <1>4, <2>1 DEF TypeOK, Points, trace
<1>9. Running'
  BY <1>1, <1>3, <1>4, <1>5, <1>6, <1>7 DEF Running, TypeOK
<1>10. \A s \in Slot : state'[s] = "FREE" <=> state[s] = "FREE"
  BY <1>3, <1>4, <1>5
<1>11. \A s \in Slot : Live(s) /\ s # InitSlot => ppid[s] # pid[s]
  BY DEF Numbered, Live
<1>12. InitLives'
  BY <1>1, <1>2, <1>3, <1>6 DEF InitLives, Children, Numbered
<1>13. Numbered'
  <2>1. \A s \in Slot : pid[s] = InitPid => s = InitSlot
    BY <1>2 DEF Numbered, InitLives, InitPid
  <2>2. pid[p] # 0
    BY <1>3 DEF Numbered
  <2>3. InitSlot \notin Children(p)
    BY <2>2 DEF Children, InitLives
  <2> QED BY <1>1, <1>10, <2>1, <2>3 DEF Numbered
<1>14. InHand'
  BY <1>1, <1>6, <1>7, <1>10 DEF InHand
<1>15. OrphansAdopted'
  <2> SUFFICES ASSUME NEW s \in Slot \ {InitSlot}, Live(s)'
               PROVE  \E t \in Slot : pid[t] = ppid'[s] /\ pc'[t] # "none"
    BY <1>1, <1>9 DEF OrphansAdopted, ByPid, Live, Running
  <2>1. Live(s)
    BY <1>3, <1>4, <1>5 DEF Live
  <2>2. CASE s \in Children(p)
    BY <1>1, <1>2, <1>3, <1>12, <2>2 DEF InitLives
  <2>3. CASE s \notin Children(p)
    <3>1. PICK t \in Slot : pid[t] = ppid[s] /\ Live(t) /\ state[t] # "ZOMBIE"
      BY <2>1 DEF OrphansAdopted, ByPid
    <3>2. t # p
      BY <2>1, <2>3, <3>1 DEF Children
    <3>3. pc'[t] # "none"
      BY <1>6, <3>1, <3>2 DEF Running, Live, TypeOK, States
    <3> QED BY <1>1, <2>3, <3>1, <3>3
  <2> QED BY <2>2, <2>3
<1>16. ReapedByParent'
  <2> SUFFICES ASSUME NEW q \in Slot, pc'[q] = "free"
               PROVE  /\ state'[loc[q].slot] = "REAPING"
                      /\ pid[loc[q].slot] = loc[q].pid /\ ppid'[loc[q].slot] = pid[q]
                      /\ \A r \in Slot \ {q} : pc'[r] \in {"free", "vfork"} =>
                                                   loc[r].slot # loc[q].slot
    BY <1>1 DEF ReapedByParent
  <2>1. q # p /\ pc[q] = "free" /\ loc[q].slot \in Slot /\ state[loc[q].slot] = "REAPING"
    BY <1>6, <1>7 DEF InHand, ReapedByParent
  <2>2. state'[loc[q].slot] = "REAPING" /\ ppid'[loc[q].slot] = ppid[loc[q].slot]
    BY <1>1, <1>3, <1>5, <2>1 DEF Children, Live
  <2> QED BY <1>6, <1>7, <2>1, <2>2 DEF ReapedByParent
<1>17. VforkParentNotStranded'
  <2> SUFFICES ASSUME NEW q \in Slot, state'[q] = "BLOCKED", pc'[q] = "vforked"
               PROVE  /\ state'[loc[q].slot] \notin {"FREE", "REAPING", "ZOMBIE"}
                      /\ vfork_parent'[loc[q].slot] = q
    BY <1>1 DEF VforkParentNotStranded, Live
  <2>1. /\ q # p /\ state[q] = "BLOCKED" /\ pc[q] = "vforked" /\ q # vfork_parent[p]
    BY <1>4, <1>5, <1>6, <1>7 DEF ExitWakes
  <2>2. /\ loc[q].slot \in Slot \ {p} /\ vfork_parent[loc[q].slot] = q
        /\ state[loc[q].slot] \notin {"FREE", "REAPING", "ZOMBIE"}
    BY <2>1 DEF VforkParentNotStranded, InHand, Live
  <2> QED BY <1>5, <1>6, <2>2
<1>18. PagesFreedByOwner' /\ ExecOwnsPages'
  <2>1. ExecOwnsPages'
    BY <1>1, <1>6, <1>7 DEF ExecOwnsPages
  <2>2. \A s \in Slot \ {p} : Live(s)' => Live(s)
    BY <1>5 DEF Live
  <2>3. PagesFreedByOwner'
    BY <1>1, <1>3, <1>6, <1>7, <2>2 DEF PagesFreedByOwner, InHand
  <2> QED BY <2>1, <2>3
<1>19. NoLostExit'
  <2> SUFFICES ASSUME NEW q \in Slot, NEW s \in Slot, Waits(q)', Matches(q, s)'
               PROVE  state'[s] # "ZOMBIE" /\ ~(StopShows(q, s)' /\ tracer_pid[s] = pid[q])
    BY <1>1 DEF NoLostExit, trace
  <2>1. q # p /\ state[q] = "BLOCKED" /\ pc[q] = "wait" /\ q \notin ExitWakes(p)
    BY <1>4, <1>5, <1>6, <1>7 DEF Waits
  <2>2. \A n : pid[q] = n => q \in ByPid(n)
    BY <2>1 DEF ByPid, Live
  <2>3. /\ pid[q] # ppid[p] /\ pid[q] # tracer_pid[p]
        /\ pid[q] = InitPid => \A t \in Children(p) : state[t] # "ZOMBIE"
    BY <2>1, <2>2 DEF ExitWakes
  <2>4. Live(s) /\ (state'[s] = "TRACED_STOP" => state[s] = "TRACED_STOP")
    BY <1>3, <1>4, <1>5 DEF Matches, Live
  <2>5. ppid'[s] = pid[q] \/ tracer_pid[s] = pid[q]
    BY <1>1 DEF Matches, trace
  <2>6. CASE s = p
    <3>1. ppid'[p] = ppid[p]
      BY <1>1, <1>3, <1>11 DEF Children
    <3> QED BY <2>3, <2>5, <2>6, <3>1
  <2>7. CASE s # p /\ ppid'[s] # ppid[s] /\ tracer_pid[s] # pid[q]
    <3>1. s \in Children(p) /\ pid[q] = InitPid
      BY <1>1, <2>5, <2>7
    <3> QED BY <1>5, <2>3, <2>7, <3>1
  <2>8. CASE s # p /\ (ppid'[s] = ppid[s] \/ tracer_pid[s] = pid[q])
    <3>1. Waits(q) /\ Matches(q, s)
      BY <1>1, <2>1, <2>4, <2>5, <2>8 DEF Waits, Matches
    <3>2. StopShows(q, s)' => StopShows(q, s)
      BY <1>1, <2>4 DEF StopShows, trace
    <3> QED BY <1>5, <2>8, <3>1, <3>2 DEF NoLostExit
  <2> QED BY <2>6, <2>7, <2>8
<1> QED BY <1>8, <1>9, <1>12, <1>13, <1>14, <1>15, <1>16, <1>17, <1>18, <1>19

\* Moves with nothing else: waitpid's scan and its returns, ptrace's lookup.
LEMMA PlainMoveKeepsIInv ==
  ASSUME IInv, NEW p \in Slot,
         \/ VforkReturn(p) \/ WaitFound(p) \/ WaitReturn(p) \/ WaitFault(p)
         \/ WaitStale(p) \/ PtraceInspect(p) \/ StopReturn(p)
         \/ \E want \in WaitFor, opts \in WaitOptions : WaitCall(p, want, opts)
         \/ \E t \in Slot : PtraceFind(p, t)
  PROVE  IInv'
<1> USE DEF At, Return
<1>1. /\ p \in core /\ pc[p] \notin {"none", "exec", "exit"}
      /\ UNCHANGED <<state, links, trace, sig_pending, image, cpu>>
  BY DEF VforkReturn, WaitFound, WaitReturn, WaitFault, WaitStale, PtraceInspect,
         StopReturn, WaitCall, PtraceFind
<1>2. /\ tracer_pid' \in [Slot -> 0 .. MaxPid]
      /\ trace_requested' \in [Slot -> BOOLEAN]
      /\ trace_wait_pending' \in [Slot -> BOOLEAN]
      /\ \A s \in Slot : /\ tracer_pid'[s] \in {tracer_pid[s], 0}
                         /\ trace_wait_pending'[s] => trace_wait_pending[s]
  BY <1>1 DEF IInv, TypeOK, trace
<1>3. loc[p] \in Locals /\ pid \in [Slot -> 0 .. MaxPid]
  BY DEF IInv, TypeOK
<1>4. \E l \in Locals, x \in {"user", "wait", "report_stop", "report_exit", "ptrace"} :
         /\ Goto(p, x, l)
         /\ x \in {"report_stop", "report_exit", "ptrace"} => l.slot \in Slot
  <2>1. CASE \/ VforkReturn(p) \/ WaitReturn(p) \/ WaitFault(p)
             \/ PtraceInspect(p) \/ StopReturn(p)
    BY <2>1, LocalsType DEF VforkReturn, WaitReturn, WaitFault, PtraceInspect,
       StopReturn
  <2>2. CASE WaitFound(p)
    <3>1. PICK s \in Slot :
             Goto(p, IF state[s] = "ZOMBIE" THEN "report_exit" ELSE "report_stop",
                  [loc[p] EXCEPT !.slot = s, !.pid = pid[s], !.child = (ppid[s] = pid[p])])
      BY <2>2 DEF WaitFound, Found
    <3> DEFINE l == [loc[p] EXCEPT !.slot = s, !.pid = pid[s], !.child = (ppid[s] = pid[p])]
    <3>2. s \in Slot \cup {None} /\ pid[s] \in 0 .. MaxPid /\ (ppid[s] = pid[p]) \in BOOLEAN
      BY <1>3
    <3>3. l \in Locals
      BY <1>3, <3>2, LocalsType
    <3>4. l.slot = s
      BY <1>3 DEF Locals
    <3> QED BY <3>1, <3>3, <3>4
  <2>3. CASE WaitStale(p)
    <3>1. None \in Slot \cup {None} /\ 0 \in 0 .. MaxPid /\ FALSE \in BOOLEAN
      BY BoundsAssumption
    <3>2. [loc[p] EXCEPT !.slot = None, !.pid = 0, !.child = FALSE] \in Locals
      BY <1>3, <3>1, LocalsType
    <3> QED BY <2>3, <3>2 DEF WaitStale
  <2>4. CASE \E want \in WaitFor, opts \in WaitOptions : WaitCall(p, want, opts)
    BY <2>4, LocalsType DEF WaitCall
  <2>5. CASE \E t \in Slot : PtraceFind(p, t)
    <3>1. PICK t \in Slot : PtraceFind(p, t)
      BY <2>5
    <3> DEFINE l == [NoLocals EXCEPT !.slot = t, !.pid = pid[t]]
    <3>2. l \in Locals /\ l.slot = t
      BY <1>3, LocalsType DEF NoLocals
    <3> QED BY <3>1, <3>2 DEF PtraceFind
  <2> QED BY <2>1, <2>2, <2>3, <2>4, <2>5
<1> QED BY <1>1, <1>2, <1>4, MoveKeepsIInv

LEMMA NextKeepsIInv ==
  ASSUME SerialVfork
  PROVE  IInv /\ [Next]_vars => IInv'
<1>1. ASSUME IInv, UNCHANGED vars PROVE IInv'
  BY <1>1 DEF vars, links, trace, cpu, IInv, TypeOK, Running, Numbered, InitLives,
     InHand,
     OrphansAdopted, ReapedByParent, VforkParentNotStranded, PagesFreedByOwner,
     ExecOwnsPages, NoLostExit, Waits, Matches, StopShows, Live, ByPid
<1>2. ASSUME IInv, Next PROVE IInv'
  <2>1. PICK p \in Slot :
          \/ Vfork(p) \/ Exec(p) \/ Exit(p) \/ WaitStep(p) \/ PtraceStep(p)
          \/ SignalCaught(p) \/ Dispatch(p) \/ Preempt(p)
          \/ \E want \in WaitFor, opts \in WaitOptions : WaitCall(p, want, opts)
          \/ \E t \in Slot : Kill(p, t) \/ PtraceAttach(p, t) \/ PtraceFind(p, t)
    BY <1>2 DEF Next
  <2>2. CASE Vfork(p)
    BY <1>2, <2>2, VforkAllocKeepsIInv, VforkFailKeepsIInv, VforkStartKeepsIInv,
       PlainMoveKeepsIInv DEF Vfork
  <2>3. CASE Exec(p)
    BY <1>2, <2>3, ExecLoadKeepsIInv, ExecWakeKeepsIInv, TraceStopKeepsIInv DEF Exec
  <2>4. CASE Exit(p)
    BY <1>2, <2>4, ExitReleaseKeepsIInv, ExitPublishKeepsIInv, AloneKeepsIInv DEF Exit
  <2>5. CASE WaitStep(p)
    BY <1>2, <2>5, PlainMoveKeepsIInv, WaitSleepKeepsIInv, WaitStopKeepsIInv,
       WaitReapKeepsIInv, ProcFreeKeepsIInv DEF WaitStep
  <2>6. CASE PtraceStep(p)
    BY <1>2, <2>6, PtraceTracemeKeepsIInv, PlainMoveKeepsIInv, PtraceResumeKeepsIInv,
       PtraceDetachKeepsIInv, TraceStopKeepsIInv DEF PtraceStep
  <2>7. CASE SignalCaught(p) \/ Dispatch(p) \/ Preempt(p)
    BY <1>2, <2>7, SignalCaughtKeepsIInv, AloneKeepsIInv
  <2>8. CASE \/ \E want \in WaitFor, opts \in WaitOptions : WaitCall(p, want, opts)
             \/ \E t \in Slot : PtraceFind(p, t)
    BY <1>2, <2>8, PlainMoveKeepsIInv
  <2>9. CASE \E t \in Slot : Kill(p, t) \/ PtraceAttach(p, t)
    BY <1>2, <2>9, KillKeepsIInv, PtraceAttachKeepsIInv
  <2> QED BY <2>1, <2>2, <2>3, <2>4, <2>5, <2>6, <2>7, <2>8, <2>9
<1> QED BY <1>1, <1>2

LEMMA Invariance ==
  ASSUME SerialVfork
  PROVE  Spec => []IInv
  BY InitIInv, NextKeepsIInv, PTL DEF Spec

----------------------------------------------------------------------------
(* What holds on any number of cores, as long as vforks do not overlap     *)

\* Type correctness of the process table and the system calls on it.
THEOREM TypeCorrect ==
  ASSUME SerialVfork
  PROVE  Spec => []TypeOK
<1>1. IInv => TypeOK
  BY DEF IInv
<1> QED BY <1>1, Invariance, PTL

\* sys_waitpid never sleeps through the exit of a child or the stop of a tracee.
THEOREM ExitNotLost ==
  ASSUME SerialVfork
  PROVE  Spec => []NoLostExit
<1>1. IInv => NoLostExit
  BY DEF IInv
<1> QED BY <1>1, Invariance, PTL

\* The reparenting of sys_exit leaves nobody without a parent that can reap it.
THEOREM NoOrphans ==
  ASSUME SerialVfork
  PROVE  Spec => []OrphansAdopted
<1>1. IInv => OrphansAdopted
  BY DEF IInv
<1> QED BY <1>1, Invariance, PTL

\* sys_waitpid frees a slot once, and only its own child's.
THEOREM ReapedOnce ==
  ASSUME SerialVfork
  PROVE  Spec => []ReapedByParent
<1>1. IInv => ReapedByParent
  BY DEF IInv
<1> QED BY <1>1, Invariance, PTL

\* A parent asleep in sys_vfork has a child that will wake it.
THEOREM VforkParentWoken ==
  ASSUME SerialVfork
  PROVE  Spec => []VforkParentNotStranded
<1>1. IInv => VforkParentNotStranded
  BY DEF IInv
<1> QED BY <1>1, Invariance, PTL

\* sys_execve and sys_exit free the pages of their own process only.
THEOREM PagesSafe ==
  ASSUME SerialVfork
  PROVE  Spec => []PagesFreedByOwner
<1>1. IInv => PagesFreedByOwner
  BY DEF IInv
<1> QED BY <1>1, Invariance, PTL

============================================================================
