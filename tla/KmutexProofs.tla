---------------------------- MODULE KmutexProofs ----------------------------
(***************************************************************************)
(* Safety of the sleepable mutex for any number of processes and mutexes,  *)
(* any nesting of them by the callers and any set of mortal processes.     *)
(*                                                                         *)
(* IInv is inductive: one lemma per kind of step, then the theorems.       *)
(***************************************************************************)
EXTENDS Kmutex, TLAPS

USE NullAssumption

\* No owner, empty lists, nobody asleep: what kmutex_init establishes.
LEMMA InitIInv == Init => IInv
<1> SUFFICES ASSUME Init PROVE IInv
  OBVIOUS
<1>1. state \in [Proc -> States] /\ pc \in [Proc -> Points]
  BY DEF Init, States, Points
<1>2. owner \in [Mutex -> Proc \cup {NULL}] /\ panicked \in BOOLEAN
  BY DEF Init
<1>3. /\ inside \in [Proc -> SUBSET Mutex]
      /\ kmutex_held \in [Proc -> SUBSET Mutex]
  BY DEF Init
<1>4. /\ arg \in [Proc -> Mutex \cup {NULL}]
      /\ wait_channel \in [Proc -> Mutex \cup {NULL}]
      /\ victim \in [Proc -> Proc \cup {NULL}]
  BY DEF Init
<1>5. TypeOK
  BY <1>1, <1>2, <1>3, <1>4 DEF TypeOK
<1>6. /\ OwnerIsHolder /\ InsideIsHeld /\ SleeperInLock /\ ArgIsMutex
      /\ OneReaper /\ DeadIsIdle /\ NoLostWakeup
  BY DEF Init, OwnerIsHolder, InsideIsHeld, SleeperInLock, ArgIsMutex,
         OneReaper, DeadIsIdle, NoLostWakeup
<1> QED BY <1>5, <1>6 DEF IInv

USE DEF IInv, TypeOK, OwnerIsHolder, InsideIsHeld, SleeperInLock, ArgIsMutex,
        OneReaper, DeadIsIdle, NoLostWakeup, WakeupPending, States, Points, At

\* A mutex is taken only when its owner field is NULL, by kmutex_lock or
\* kmutex_try_lock.
LEMMA TakeKeepsIInv ==
  ASSUME IInv, NEW p \in Proc, NEW m \in Mutex,
         LockAcquire(p) \/ TryLockAcquire(p, m)
  PROVE  IInv'
<1>1. CASE LockAcquire(p)
  BY <1>1 DEF LockAcquire, Take
<1>2. CASE TryLockAcquire(p, m)
  BY <1>2 DEF TryLockAcquire, Take
<1> QED BY <1>1, <1>2

\* The sleep happens in the critical section that saw an owner.
LEMMA SleepKeepsIInv ==
  ASSUME IInv, NEW p \in Proc, NEW m \in Mutex, LockCall(p, m) \/ LockBlock(p)
  PROVE  IInv'
<1>1. CASE LockCall(p, m)
  BY <1>1 DEF LockCall
<1>2. CASE LockBlock(p)
  BY <1>2 DEF LockBlock
<1> QED BY <1>1, <1>2

\* The releaser has the wakeup pending from the moment the owner is cleared.
LEMMA UnlockKeepsIInv ==
  ASSUME IInv, NEW p \in Proc, NEW m \in Mutex, Unlock(p, m)
  PROVE  IInv'
  BY DEF Unlock

\* sched_wakeup leaves no sleeper on the channel, so the wakeup it was is no
\* longer needed.
LEMMA WakeupKeepsIInv ==
  ASSUME IInv, NEW p \in Proc, Wakeup(p)
  PROVE  IInv'
  BY DEF Wakeup, WakeAll, Woken

LEMMA InterruptKeepsIInv ==
  ASSUME IInv, NEW p \in Proc, Interrupt(p)
  PROVE  IInv'
  BY DEF Interrupt

LEMMA PanicKeepsIInv ==
  ASSUME IInv, Panic
  PROVE  IInv'
  BY DEF Panic

LEMMA ExitKeepsIInv ==
  ASSUME IInv, NEW p \in Proc, Exit(p)
  PROVE  IInv'
  BY DEF Exit

LEMMA ReapKeepsIInv ==
  ASSUME IInv, NEW r \in Proc, NEW p \in Proc, Reap(r, p)
  PROVE  IInv'
  BY DEF Reap

LEMMA ReleaseOneKeepsIInv ==
  ASSUME IInv, NEW r \in Proc, ReleaseOne(r)
  PROVE  IInv'
  BY DEF ReleaseOne

LEMMA ReleaseDoneKeepsIInv ==
  ASSUME IInv, NEW r \in Proc, ReleaseDone(r)
  PROVE  IInv'
  BY DEF ReleaseDone

LEMMA SpawnKeepsIInv ==
  ASSUME IInv, NEW r \in Proc, NEW p \in Proc, Spawn(r, p)
  PROVE  IInv'
  BY DEF Spawn

\* Every step of the system keeps the invariant.
LEMMA NextKeepsIInv == IInv /\ [Next]_vars => IInv'
<1> SUFFICES ASSUME IInv, [Next]_vars PROVE IInv'
  OBVIOUS
<1>1. CASE UNCHANGED vars
  BY <1>1 DEF vars
<1>2. ASSUME NEW p \in Proc, Call(p) PROVE IInv'
  <2>1. ASSUME NEW m \in Mutex,
               TryLockRecursive(p, m) \/ UnlockNonOwner(p, m)
        PROVE  IInv'
    BY <2>1, PanicKeepsIInv DEF TryLockRecursive, UnlockNonOwner
  <2>2. ASSUME NEW m \in Mutex, LockCall(p, m) \/ TryLockAcquire(p, m)
        PROVE  IInv'
    BY <2>2, SleepKeepsIInv, TakeKeepsIInv
  <2>3. ASSUME NEW q \in Proc, Reap(p, q) \/ Spawn(p, q) PROVE IInv'
    BY <2>3, ReapKeepsIInv, SpawnKeepsIInv
  <2> QED BY <1>2, <2>1, <2>2, <2>3, ExitKeepsIInv DEF Call
<1>3. ASSUME NEW p \in Proc, Inner(p) PROVE IInv'
  <2>1. CASE LockRecursive(p)
    BY <2>1, PanicKeepsIInv DEF LockRecursive
  <2>2. CASE LockAcquire(p)
    <3>1. arg[p] \in Mutex
      BY <2>2 DEF LockAcquire
    <3> QED BY <2>2, <3>1, TakeKeepsIInv
  <2>3. CASE LockBlock(p)
    <3>1. arg[p] \in Mutex
      BY <2>3 DEF LockBlock
    <3> QED BY <2>3, <3>1, SleepKeepsIInv
  <2> QED BY <1>3, <2>1, <2>2, <2>3, WakeupKeepsIInv, ReleaseOneKeepsIInv,
             ReleaseDoneKeepsIInv DEF Inner
<1> QED BY <1>1, <1>2, <1>3, UnlockKeepsIInv, InterruptKeepsIInv DEF Next

-----------------------------------------------------------------------------
\* The strengthened invariant of kmutex.c holds in every reachable state.
THEOREM Invariance == Spec => []IInv
  BY InitIInv, NextKeepsIInv, PTL DEF Spec

\* The types of the fields kmutex.c and sched.c work on.
THEOREM TypeCorrect == Spec => []TypeOK
<1>1. IInv => TypeOK
  BY DEF IInv
<1> QED BY Invariance, <1>1, PTL

\* A mutex has at most one process in its critical section, deaths of owners
\* and misuse included: kmutex_lock and kmutex_try_lock.
THEOREM Exclusion == Spec => []MutualExclusion
<1>1. IInv => MutualExclusion
  BY DEF MutualExclusion
<1> QED BY Invariance, <1>1, PTL

\* No sleeper of kmutex_lock is forgotten by kmutex_unlock or
\* kmutex_release_owned, whatever runs between their unlock and their wakeup.
THEOREM WakeupNotLost == Spec => []NoLostWakeup
<1>1. IInv => NoLostWakeup
  BY DEF IInv
<1> QED BY Invariance, <1>1, PTL

\* proc_free leaves no mutex owned by the slot it frees.
THEOREM NothingOrphaned == Spec => []NoOrphanedMutex
<1>1. IInv => NoOrphanedMutex
  BY DEF NoOrphanedMutex
<1> QED BY Invariance, <1>1, PTL

\* One step of disciplined callers.
LEMMA OrderKept ==
  ASSUME Disciplined, IInv, IInv', NoPanic, AsksInOrder, [Next]_vars
  PROVE  NoPanic' /\ AsksInOrder'
<1> USE DEF NoPanic, AsksInOrder, MayLock, Disciplined
<1>1. CASE UNCHANGED vars
  BY <1>1 DEF vars
<1>2. ASSUME NEW p \in Proc, NEW m \in Mutex,
             LockCall(p, m) \/ TryLockAcquire(p, m) \/ Unlock(p, m)
      PROVE  NoPanic' /\ AsksInOrder'
  <2>1. CASE LockCall(p, m)
    <3>1. /\ \A q \in Proc : q # p => pc'[q] = pc[q] /\ arg'[q] = arg[q]
          /\ arg'[p] = m /\ pc'[p] = "lock"
          /\ \A h \in inside[p] : <<h, m>> \in Nests
          /\ UNCHANGED <<state, inside, kmutex_held, panicked>>
      BY <2>1 DEF LockCall
    <3> QED BY <3>1
  <2>2. CASE TryLockAcquire(p, m)
    <3>1. /\ \A q \in Proc : q # p => /\ inside'[q] = inside[q]
                                     /\ kmutex_held'[q] = kmutex_held[q]
          /\ inside'[p] = kmutex_held'[p]
          /\ pc[p] = "run"
          /\ UNCHANGED <<state, pc, arg, panicked>>
      BY <2>2 DEF TryLockAcquire, Take
    <3> QED BY <3>1
  <2>3. CASE Unlock(p, m)
    <3>1. /\ \A q \in Proc : q # p => /\ inside'[q] = inside[q]
                                     /\ kmutex_held'[q] = kmutex_held[q]
                                     /\ pc'[q] = pc[q] /\ arg'[q] = arg[q]
          /\ inside'[p] = kmutex_held'[p]
          /\ pc'[p] = "wakeup"
          /\ UNCHANGED <<state, panicked>>
      BY <2>3 DEF Unlock
    <3> QED BY <3>1
  <2> QED BY <1>2, <2>1, <2>2, <2>3
<1>3. ASSUME NEW p \in Proc, NEW m \in Mutex PROVE ~TryLockRecursive(p, m)
  BY DEF TryLockRecursive
<1>4. ASSUME NEW p \in Proc, NEW m \in Mutex PROVE ~UnlockNonOwner(p, m)
  BY DEF UnlockNonOwner
<1>5. ASSUME NEW p \in Proc PROVE ~LockRecursive(p)
  BY DEF LockRecursive
<1>6. ASSUME NEW p \in Proc, LockAcquire(p) \/ LockBlock(p)
      PROVE  NoPanic' /\ AsksInOrder'
  <2>1. CASE LockAcquire(p)
    <3>1. /\ \A q \in Proc : q # p => /\ inside'[q] = inside[q]
                                     /\ kmutex_held'[q] = kmutex_held[q]
                                     /\ pc'[q] = pc[q] /\ arg'[q] = arg[q]
          /\ inside'[p] = kmutex_held'[p]
          /\ pc'[p] = "run"
          /\ UNCHANGED <<state, panicked>>
      BY <2>1 DEF LockAcquire, Take
    <3> QED BY <3>1
  <2>2. CASE LockBlock(p)
    BY <2>2 DEF LockBlock
  <2> QED BY <1>6, <2>1, <2>2
<1>7. ASSUME NEW p \in Proc, Wakeup(p) PROVE NoPanic' /\ AsksInOrder'
  BY <1>7 DEF Wakeup, WakeAll, Woken
<1>8. ASSUME NEW p \in Proc, Interrupt(p) PROVE NoPanic' /\ AsksInOrder'
  BY <1>8 DEF Interrupt
<1>9. ASSUME NEW p \in Proc, Exit(p) PROVE NoPanic' /\ AsksInOrder'
  BY <1>9 DEF Exit
<1>10. ASSUME NEW p \in Proc, NEW q \in Proc, Reap(p, q)
       PROVE  NoPanic' /\ AsksInOrder'
  BY <1>10 DEF Reap
<1>11. ASSUME NEW p \in Proc, NEW q \in Proc, Spawn(p, q)
       PROVE  NoPanic' /\ AsksInOrder'
  BY <1>11 DEF Spawn
<1>12. ASSUME NEW p \in Proc, ReleaseOne(p) PROVE NoPanic' /\ AsksInOrder'
  BY <1>12 DEF ReleaseOne
<1>13. ASSUME NEW p \in Proc, ReleaseDone(p) PROVE NoPanic' /\ AsksInOrder'
  BY <1>13 DEF ReleaseDone
<1> HIDE DEF NoPanic, AsksInOrder, IInv
<1> QED BY <1>1, <1>2, <1>3, <1>4, <1>5, <1>6, <1>7, <1>8, <1>9, <1>10, <1>11,
           <1>12, <1>13 DEF Next, Call, Inner

\* Callers that never ask for a mutex they are inside of, and unlock only what
\* they locked, never reach a panic of kmutex.c.
THEOREM DisciplineAvoidsPanic == Disciplined => (Spec => []NoPanic)
<1> SUFFICES ASSUME Disciplined PROVE Spec => []NoPanic
  OBVIOUS
<1>1. Init => NoPanic /\ AsksInOrder
  BY DEF Init, NoPanic, AsksInOrder
<1>2. NoPanic /\ AsksInOrder /\ IInv /\ IInv' /\ [Next]_vars
        => NoPanic' /\ AsksInOrder'
  BY OrderKept
<1> QED BY <1>1, <1>2, Invariance, PTL DEF Spec
=============================================================================
