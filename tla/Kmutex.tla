------------------------------- MODULE Kmutex -------------------------------
(***************************************************************************)
(* The sleepable kernel mutex (kernel/core/sync/kmutex.c) on top of the    *)
(* scheduler's sleep and wakeup (kernel/core/proc/sched.c), together with  *)
(* what else touches a sleeper or an owner: the wakeup of an interrupted   *)
(* sleeper, the death of a process and the release of its mutexes when its *)
(* slot is reaped.                                                         *)
(*                                                                         *)
(* One SPIN_PROC critical section of the code is one step here; two        *)
(* sections of one function are two steps, with every other process free   *)
(* to run in between (another core, or preemption by the timer).           *)
(*                                                                         *)
(* The intrusive list kmutex_held/next_held is the set of its members: the *)
(* order in which an owner's mutexes are released is not fixed here.       *)
(***************************************************************************)
EXTENDS FiniteSets, Naturals

CONSTANTS Proc,    \* process slots
          Mutex,   \* the kmutex_t objects
          Nests,   \* <<m, n>>: a caller may hold m when it asks for n
          Mortal,  \* processes a fault handler may kill inside the kernel
          Misuse,  \* TRUE: callers may unlock what they do not own (ktest)
          NULL

ASSUME NullAssumption == NULL \notin Proc /\ NULL \notin Mutex
ASSUME NestsAssumption == Nests \subseteq Mutex \X Mutex
ASSUME MortalAssumption == Mortal \subseteq Proc /\ Misuse \in BOOLEAN

VARIABLES state,         \* pcb.state
          wait_channel,  \* pcb.wait_channel
          kmutex_held,   \* pcb.kmutex_held: the mutexes on the list
          owner,         \* kmutex.owner
          pc,            \* where in kmutex.c the process is
          arg,           \* the mutex the function it is in works on
          victim,        \* the slot whose mutexes it is releasing
          inside,        \* the mutexes whose critical section it is executing
          panicked       \* the kernel has halted

vars == <<state, wait_channel, kmutex_held, owner, pc, arg, victim, inside,
          panicked>>

States == {"FREE", "RUNNABLE", "BLOCKED", "ZOMBIE", "REAPING"}
Points == {"run", "lock", "wakeup", "release", "release_wakeup"}

Init == /\ state = [p \in Proc |-> "RUNNABLE"]
        /\ wait_channel = [p \in Proc |-> NULL]
        /\ kmutex_held = [p \in Proc |-> {}]
        /\ owner = [m \in Mutex |-> NULL]
        /\ pc = [p \in Proc |-> "run"]
        /\ arg = [p \in Proc |-> NULL]
        /\ victim = [p \in Proc |-> NULL]
        /\ inside = [p \in Proc |-> {}]
        /\ panicked = FALSE

\* p executes: the scheduler dispatches RUNNABLE processes only.
At(p, point) == ~panicked /\ state[p] = "RUNNABLE" /\ pc[p] = point

\* The callers in kernel/vfs nest their mutexes in a fixed order: the lock of
\* an open file outside the mutex of the file system below it.
MayLock(p, m) == \A h \in inside[p] : <<h, m>> \in Nests

\* m->owner = current; kmutex_link_held(m)
Take(p, m) == /\ owner' = [owner EXCEPT ![m] = p]
              /\ kmutex_held' = [kmutex_held EXCEPT ![p] = @ \cup {m}]
              /\ inside' = [inside EXCEPT ![p] = @ \cup {m}]

Panic == /\ panicked' = TRUE
         /\ UNCHANGED <<state, wait_channel, kmutex_held, owner, pc, arg,
                        victim, inside>>

\* kmutex_lock(m) is called: control reaches the top of its loop.
LockCall(p, m) == /\ At(p, "run")
                  /\ MayLock(p, m)
                  /\ pc' = [pc EXCEPT ![p] = "lock"]
                  /\ arg' = [arg EXCEPT ![p] = m]
                  /\ UNCHANGED <<state, wait_channel, kmutex_held, owner,
                                 victim, inside, panicked>>

LockAcquire(p) == /\ At(p, "lock")
                  /\ owner[arg[p]] = NULL
                  /\ Take(p, arg[p])
                  /\ pc' = [pc EXCEPT ![p] = "run"]
                  /\ arg' = [arg EXCEPT ![p] = NULL]
                  /\ UNCHANGED <<state, wait_channel, victim, panicked>>

LockRecursive(p) == At(p, "lock") /\ owner[arg[p]] = p /\ Panic

\* Variant: the channel slept on is the process itself, not the mutex.
LockBlock_WrongChannel(p) ==
    /\ At(p, "lock")
    /\ owner[arg[p]] \notin {NULL, p}
    /\ wait_channel' = [wait_channel EXCEPT ![p] = p]
    /\ state' = [state EXCEPT ![p] = "BLOCKED"]
    /\ UNCHANGED <<kmutex_held, owner, pc, arg, victim, inside, panicked>>

\* Variant: no loop around the sleep, a woken process takes the mutex as its own.
LockBlock_NoLoop(p) ==
    /\ At(p, "lock")
    /\ owner[arg[p]] \notin {NULL, p}
    /\ wait_channel' = [wait_channel EXCEPT ![p] = arg[p]]
    /\ state' = [state EXCEPT ![p] = "BLOCKED"]
    /\ inside' = [inside EXCEPT ![p] = @ \cup {arg[p]}]
    /\ pc' = [pc EXCEPT ![p] = "run"]
    /\ UNCHANGED <<kmutex_held, owner, arg, victim, panicked>>

\* sched_sleep_current_unlock(m, SPIN_PROC): channel and state change in the
\* critical section that saw the owner; when it wakes, the loop starts again.
LockBlock(p) == /\ At(p, "lock")
                /\ owner[arg[p]] \notin {NULL, p}
                /\ wait_channel' = [wait_channel EXCEPT ![p] = arg[p]]
                /\ state' = [state EXCEPT ![p] = "BLOCKED"]
                /\ UNCHANGED <<kmutex_held, owner, pc, arg, victim, inside,
                               panicked>>

\* kmutex_try_lock(m); a mutex owned by another process returns 0 and changes
\* nothing.
TryLockAcquire(p, m) == /\ At(p, "run")
                        /\ MayLock(p, m)
                        /\ owner[m] = NULL
                        /\ Take(p, m)
                        /\ UNCHANGED <<state, wait_channel, pc, arg, victim,
                                       panicked>>

TryLockRecursive(p, m) == At(p, "run") /\ MayLock(p, m) /\ owner[m] = p /\ Panic

\* Variant: the owner field is not cleared.
Unlock_KeepsOwner(p, m) ==
    /\ At(p, "run")
    /\ m \in inside[p]
    /\ owner[m] = p
    /\ kmutex_held' = [kmutex_held EXCEPT ![p] = @ \ {m}]
    /\ inside' = [inside EXCEPT ![p] = @ \ {m}]
    /\ pc' = [pc EXCEPT ![p] = "wakeup"]
    /\ arg' = [arg EXCEPT ![p] = m]
    /\ UNCHANGED <<state, wait_channel, owner, victim, panicked>>

\* Variant: no sched_wakeup after the critical section.
Unlock_NoWakeup(p, m) ==
    /\ At(p, "run")
    /\ m \in inside[p]
    /\ owner[m] = p
    /\ kmutex_held' = [kmutex_held EXCEPT ![p] = @ \ {m}]
    /\ owner' = [owner EXCEPT ![m] = NULL]
    /\ inside' = [inside EXCEPT ![p] = @ \ {m}]
    /\ UNCHANGED <<state, wait_channel, pc, arg, victim, panicked>>

\* kmutex_unlock(m): its critical section; the wakeup follows the release of
\* SPIN_PROC.
Unlock(p, m) == /\ At(p, "run")
                /\ m \in inside[p]
                /\ owner[m] = p
                /\ kmutex_held' = [kmutex_held EXCEPT ![p] = @ \ {m}]
                /\ owner' = [owner EXCEPT ![m] = NULL]
                /\ inside' = [inside EXCEPT ![p] = @ \ {m}]
                /\ pc' = [pc EXCEPT ![p] = "wakeup"]
                /\ arg' = [arg EXCEPT ![p] = m]
                /\ UNCHANGED <<state, wait_channel, victim, panicked>>

UnlockNonOwner(p, m) == /\ At(p, "run")
                        /\ Misuse \/ m \in inside[p]
                        /\ owner[m] # p
                        /\ Panic

\* sched_wakeup(channel): every process blocked on it becomes runnable.
Woken(q, channel) == state[q] = "BLOCKED" /\ wait_channel[q] = channel

\* Variant: the scan stops at the first sleeper it finds.
WakeAll_First(channel) ==
    \/ /\ \A q \in Proc : ~Woken(q, channel)
       /\ UNCHANGED <<state, wait_channel>>
    \/ \E q \in Proc : /\ Woken(q, channel)
                      /\ state' = [state EXCEPT ![q] = "RUNNABLE"]
                      /\ wait_channel' = [wait_channel EXCEPT ![q] = NULL]

WakeAll(channel) ==
    /\ state' = [q \in Proc |->
                    IF Woken(q, channel) THEN "RUNNABLE" ELSE state[q]]
    /\ wait_channel' = [q \in Proc |->
                    IF Woken(q, channel) THEN NULL ELSE wait_channel[q]]

\* The sched_wakeup(m) that ends kmutex_unlock and each round of
\* kmutex_release_owned.
Wakeup(p) == /\ At(p, "wakeup") \/ At(p, "release_wakeup")
             /\ WakeAll(arg[p])
             /\ pc' = [pc EXCEPT ![p] =
                          IF @ = "wakeup" THEN "run" ELSE "release"]
             /\ arg' = [arg EXCEPT ![p] = NULL]
             /\ UNCHANGED <<kmutex_held, owner, victim, inside, panicked>>

\* sys_kill and the poll timeout of sched_tick make a sleeper runnable whatever
\* it waits for.
Interrupt(p) == /\ ~panicked
                /\ state[p] = "BLOCKED"
                /\ state' = [state EXCEPT ![p] = "RUNNABLE"]
                /\ wait_channel' = [wait_channel EXCEPT ![p] = NULL]
                /\ UNCHANGED <<kmutex_held, owner, pc, arg, victim, inside,
                               panicked>>

\* A process leaves through sys_exit: at a point where it holds nothing, or
\* from a fault handler, wherever the fault hit it.
Exit(p) == /\ At(p, "run")
           /\ inside[p] = {} \/ p \in Mortal
           /\ state' = [state EXCEPT ![p] = "ZOMBIE"]
           /\ inside' = [inside EXCEPT ![p] = {}]
           /\ UNCHANGED <<wait_channel, kmutex_held, owner, pc, arg, victim,
                          panicked>>

\* sys_waitpid claims a zombie for reaping and calls proc_free.
Reap(r, p) == /\ At(r, "run")
              /\ inside[r] = {}
              /\ state[p] = "ZOMBIE"
              /\ state' = [state EXCEPT ![p] = "REAPING"]
              /\ victim' = [victim EXCEPT ![r] = p]
              /\ pc' = [pc EXCEPT ![r] = "release"]
              /\ UNCHANGED <<wait_channel, kmutex_held, owner, arg, inside,
                             panicked>>

\* kmutex_release_owned(victim): one round of its loop, up to the wakeup.
ReleaseOne(r) ==
    /\ At(r, "release")
    /\ \E m \in kmutex_held[victim[r]] :
          /\ kmutex_held' = [kmutex_held EXCEPT ![victim[r]] = @ \ {m}]
          /\ owner' = [owner EXCEPT ![m] = IF @ = victim[r] THEN NULL ELSE @]
          /\ arg' = [arg EXCEPT ![r] = m]
    /\ pc' = [pc EXCEPT ![r] = "release_wakeup"]
    /\ UNCHANGED <<state, wait_channel, victim, inside, panicked>>

\* Variant: proc_free without the loop of kmutex_release_owned.
ReleaseDone_Early(r) ==
    /\ At(r, "release")
    /\ state' = [state EXCEPT ![victim[r]] = "FREE"]
    /\ pc' = [pc EXCEPT ![r] = "run"]
    /\ victim' = [victim EXCEPT ![r] = NULL]
    /\ UNCHANGED <<wait_channel, kmutex_held, owner, arg, inside, panicked>>

\* The list is empty: proc_free marks the slot FREE.
ReleaseDone(r) == /\ At(r, "release")
                  /\ kmutex_held[victim[r]] = {}
                  /\ state' = [state EXCEPT ![victim[r]] = "FREE"]
                  /\ pc' = [pc EXCEPT ![r] = "run"]
                  /\ victim' = [victim EXCEPT ![r] = NULL]
                  /\ UNCHANGED <<wait_channel, kmutex_held, owner, arg, inside,
                                 panicked>>

\* proc_alloc clears the slot; its caller makes the new process runnable.
Spawn(r, p) == /\ At(r, "run")
               /\ state[p] = "FREE"
               /\ state' = [state EXCEPT ![p] = "RUNNABLE"]
               /\ wait_channel' = [wait_channel EXCEPT ![p] = NULL]
               /\ kmutex_held' = [kmutex_held EXCEPT ![p] = {}]
               /\ pc' = [pc EXCEPT ![p] = "run"]
               /\ UNCHANGED <<owner, arg, victim, inside, panicked>>

Call(p) == \/ \E m \in Mutex : \/ LockCall(p, m)
                               \/ TryLockAcquire(p, m)
                               \/ TryLockRecursive(p, m)
                               \/ UnlockNonOwner(p, m)
           \/ Exit(p)
           \/ \E q \in Proc : Reap(p, q) \/ Spawn(p, q)

\* What a process does once it is inside kmutex.c.
Inner(p) == \/ LockAcquire(p) \/ LockRecursive(p) \/ LockBlock(p)
            \/ Wakeup(p) \/ ReleaseOne(p) \/ ReleaseDone(p)

Next == \E p \in Proc : \/ Call(p)
                        \/ \E m \in Mutex : Unlock(p, m)
                        \/ Inner(p)
                        \/ Interrupt(p)

Spec == Init /\ [][Next]_vars

\* A runnable process is scheduled again (round robin); a critical section is
\* finite, so its holder keeps coming back to the unlock until it does it.
Fairness == \A p \in Proc : /\ WF_vars(Inner(p))
                            /\ \A m \in Mutex : SF_vars(Unlock(p, m))

FairSpec == Spec /\ Fairness

-----------------------------------------------------------------------------
(* Properties *)

TypeOK == /\ state \in [Proc -> States]
          /\ wait_channel \in [Proc -> Mutex \cup {NULL}]
          /\ kmutex_held \in [Proc -> SUBSET Mutex]
          /\ owner \in [Mutex -> Proc \cup {NULL}]
          /\ pc \in [Proc -> Points]
          /\ arg \in [Proc -> Mutex \cup {NULL}]
          /\ victim \in [Proc -> Proc \cup {NULL}]
          /\ inside \in [Proc -> SUBSET Mutex]
          /\ panicked \in BOOLEAN

\* Two processes never execute the critical section of the same mutex, also
\* when an owner died holding it and its mutexes are being released
\* (kmutex_lock, kmutex_try_lock, kmutex_release_owned).
MutualExclusion ==
    \A p, q \in Proc : p # q => inside[p] \cap inside[q] = {}

\* No lost wakeup: a process sleeping on a mutex sleeps on one that is owned,
\* or whose release is about to call sched_wakeup (the window between
\* spin_unlock_irqrestore and sched_wakeup in kmutex_unlock).
WakeupPending(m) == \E q \in Proc : /\ pc[q] \in {"wakeup", "release_wakeup"}
                                    /\ arg[q] = m
NoLostWakeup ==
    \A p \in Proc : state[p] = "BLOCKED" =>
        owner[wait_channel[p]] # NULL \/ WakeupPending(wait_channel[p])

\* A slot that proc_free gave back owns no mutex: no mutex stays locked for
\* ever by a process that is gone, and a new process in the slot starts clean.
NoOrphanedMutex ==
    \A m \in Mutex : owner[m] # NULL => state[owner[m]] # "FREE"

-----------------------------------------------------------------------------
(* The inductive strengthening the proofs rest on; checked by TLC as well. *)

\* The owner field and the held lists are two views of one relation.
OwnerIsHolder ==
    \A m \in Mutex, p \in Proc : owner[m] = p <=> m \in kmutex_held[p]

\* Code inside a critical section runs in the process that holds the mutex.
InsideIsHeld == \A p \in Proc : inside[p] \subseteq kmutex_held[p]

\* A sleeper sleeps in kmutex_lock, on the mutex it asked for.
SleeperInLock ==
    \A p \in Proc : state[p] = "BLOCKED" =>
        pc[p] = "lock" /\ wait_channel[p] = arg[p]

ArgIsMutex ==
    \A p \in Proc : pc[p] \in {"lock", "wakeup", "release_wakeup"} =>
        arg[p] \in Mutex

\* A slot in REAPING has one reaper, and a reaper works on a slot in REAPING.
OneReaper ==
    /\ \A r \in Proc : pc[r] \in {"release", "release_wakeup"} =>
          victim[r] \in Proc /\ state[victim[r]] = "REAPING"
    /\ \A r, s \in Proc :
          pc[r] \in {"release", "release_wakeup"} /\
          pc[s] \in {"release", "release_wakeup"} /\ victim[r] = victim[s] => r = s

\* A dead process executes nothing; a freed one holds nothing.
DeadIsIdle ==
    \A p \in Proc :
        /\ state[p] \in {"ZOMBIE", "REAPING", "FREE"} =>
              pc[p] = "run" /\ inside[p] = {}
        /\ state[p] = "FREE" => kmutex_held[p] = {}

IInv == /\ TypeOK
        /\ OwnerIsHolder
        /\ InsideIsHeld
        /\ SleeperInLock
        /\ ArgIsMutex
        /\ OneReaper
        /\ DeadIsIdle
        /\ NoLostWakeup

-----------------------------------------------------------------------------
\* Callers that respect an irreflexive nesting order never meet a panic of
\* kmutex.c: neither "recursive" nor "by non-owner" can happen to them.
NoPanic == ~panicked

Disciplined == ~Misuse /\ \A m \in Mutex : <<m, m>> \notin Nests

\* The strengthening for NoPanic: a live process holds exactly what its code is
\* inside of, and what it is asking for may nest in that.
AsksInOrder ==
    \A p \in Proc : state[p] \in {"RUNNABLE", "BLOCKED"} =>
        /\ inside[p] = kmutex_held[p]
        /\ pc[p] = "lock" => MayLock(p, arg[p])

\* A process asleep on an innermost mutex, one under which no other is taken, is
\* woken again. (Of an outer one this cannot be said: kmutex_unlock hands the
\* mutex to nobody, so its holder can lose the race for the inner mutex for ever.)
Innermost(m) == \A n \in Mutex : <<m, n>> \notin Nests
WaiterWakes ==
    \A p \in Proc : (state[p] = "BLOCKED" /\ Innermost(wait_channel[p]))
                         ~> (state[p] # "BLOCKED")
=============================================================================
