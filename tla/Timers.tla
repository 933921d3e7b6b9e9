------------------------------- MODULE Timers -------------------------------
(***************************************************************************)
(* Deadlines: the 32-bit tick counter and the wakeups of sched_tick        *)
(* (kernel/core/proc/sched.c), nanosleep (kernel/core/syscall/sys_time.c)  *)
(* and poll (kernel/core/syscall/sys_poll.c) over terminals, with signals, *)
(* input and readers that hold the lock of the polled file.                *)
(*                                                                         *)
(* Time advances in Sub units per tick, so that a call can start anywhere  *)
(* between two ticks. The counter has Width bits and wraps. Pipes and      *)
(* plain files have no poll callback and always count as ready; terminals  *)
(* are the files a poll can sleep on.                                      *)
(***************************************************************************)
EXTENDS Integers, Sequences

CONSTANTS Proc,       \* processes
          Tty,        \* terminals; each is one struct file and one channel
          Width,      \* bits of tick_count and sleep_until (32 in the code)
          Sub,        \* units of time in a tick: 10, a unit is a millisecond
          Hz,         \* PPAP_TICK_HZ, ticks in a second
          Durations,  \* durations asked for, in units
          PollSets,   \* sequences of terminals a process polls
          Sleepers,   \* bound: processes that sleep and poll
          Readers,    \* bound: processes that read terminals
          Lag,        \* bound: ticks a runnable process waits for a core
          NULL

Range32 == 2 ^ Width

ASSUME CounterAssumption == /\ Width \in Nat /\ Width > 1
                            /\ Sub \in Nat /\ Sub > 0 /\ Hz \in Nat /\ Hz > 0
\* What the proofs use of the power of two.
ASSUME RangeAssumption == Range32 \in Nat /\ Range32 > 3
\* Any duration: the code has no limit.
ASSUME DurationAssumption == Durations \subseteq Nat
ASSUME LagAssumption == Lag \in Nat /\ Lag + 1 < Range32 \div 2
ASSUME PollAssumption == /\ PollSets \subseteq Seq(Tty) /\ << >> \notin PollSets
                         /\ Sleepers \subseteq Proc /\ Readers \subseteq Proc
                         /\ NULL \notin Proc \cup Tty /\ NULL \notin Nat

VARIABLES tick_count, phase,    \* the counter; units since the last tick
          state, wait_channel,  \* pcb fields
          sleep_until, sig,     \* pcb fields; sig: an unblocked signal pends
          pc,                   \* where the process is in its call
          ticks,                \* the timeout in ticks, NULL without one
          asked,                \* whole ticks of the duration asked for
          fds, at, found,       \* the polled files, the next one, any ready
          result,               \* what the last call returned
          input,                \* per terminal: input is available
          lock,                 \* per terminal: holder of its file.lock
          age, waited           \* units the call has lasted; it met a held lock

clock == <<tick_count, phase, age, waited>>
pcb == <<state, wait_channel, sleep_until, sig>>
request == <<ticks, asked, fds, at, found>>
vars == <<tick_count, phase, state, wait_channel, sleep_until, sig, pc, ticks,
          asked, fds, at, found, result, input, lock, age, waited>>

Points == {"user", "nap", "doze", "scan", "check", "channel", "block", "read"}

Init == /\ tick_count = 0 /\ phase = 0
        /\ state = [p \in Proc |-> "RUNNABLE"]
        /\ wait_channel = [p \in Proc |-> NULL]
        /\ sleep_until = [p \in Proc |-> 0]
        /\ sig = [p \in Proc |-> FALSE]
        /\ pc = [p \in Proc |-> "user"]
        /\ ticks = [p \in Proc |-> NULL]
        /\ asked = [p \in Proc |-> NULL]
        /\ fds = [p \in Proc |-> << >>]
        /\ at = [p \in Proc |-> 1]
        /\ found = [p \in Proc |-> FALSE]
        /\ result = [p \in Proc |-> "none"]
        /\ input = [t \in Tty |-> FALSE]
        /\ lock = [t \in Tty |-> NULL]
        /\ age = [p \in Proc |-> 0]
        /\ waited = [p \in Proc |-> FALSE]

At(p, point) == state[p] = "RUNNABLE" /\ pc[p] = point
Goto(p, point) == pc' = [pc EXCEPT ![p] = point]

\* Variant: the values are compared, not their difference.
Elapsed_Compare(now, until) == now >= until

\* (int32_t)(now - until) >= 0
Elapsed(now, until) == (now - until) % Range32 < Range32 \div 2

Expired(p) == Elapsed(tick_count, sleep_until[p])

\* The call of p returns r; every return of these calls clears sleep_until.
Return(p, r) == /\ Goto(p, "user")
                /\ sleep_until' = [sleep_until EXCEPT ![p] = 0]
                /\ result' = [result EXCEPT ![p] = r]

\* Variant: the deadline is kept wider than the counter.
Begin_Wide(p, n, point) ==
  /\ Goto(p, point)
  /\ ticks' = [ticks EXCEPT ![p] = n]
  /\ sleep_until' = IF n \in {NULL, 0} THEN sleep_until ELSE
                      [sleep_until EXCEPT ![p] = tick_count + n]
  /\ result' = [result EXCEPT ![p] = "none"]
  /\ age' = [age EXCEPT ![p] = 0]
  /\ waited' = [waited EXCEPT ![p] = FALSE]
  /\ found' = [found EXCEPT ![p] = FALSE]

\* A call of p starts, with n ticks to wait (NULL: for ever). Only a positive
\* number of ticks sets the deadline.
Begin(p, n, point) ==
  /\ Goto(p, point)
  /\ ticks' = [ticks EXCEPT ![p] = n]
  /\ sleep_until' = IF n \in {NULL, 0} THEN sleep_until ELSE
                      [sleep_until EXCEPT ![p] = (tick_count + n) % Range32]
  /\ result' = [result EXCEPT ![p] = "none"]
  /\ age' = [age EXCEPT ![p] = 0]
  /\ waited' = [waited EXCEPT ![p] = FALSE]
  /\ found' = [found EXCEPT ![p] = FALSE]

-----------------------------------------------------------------------------
(* nanosleep and clock_nanosleep *)

\* Whole ticks of the duration, as a uint32_t; 0 is rounded up to one tick.
NapTicks(d) == LET n == (d \div Sub) % Range32
               IN  IF n = 0 THEN 1 ELSE n

NapCall(p, d) == /\ At(p, "user") /\ ~sig[p]
                 /\ Begin(p, NapTicks(d), "nap")
                 /\ asked' = [asked EXCEPT ![p] = d \div Sub]
                 /\ UNCHANGED <<tick_count, phase, state, wait_channel, sig, fds,
                                at, input, lock>>

NapEnd(p) == /\ At(p, "nap")
             /\ \/ sig[p] /\ Return(p, "eintr")
                \/ ~sig[p] /\ Expired(p) /\ Return(p, "elapsed")
             /\ UNCHANGED <<clock, state, wait_channel, sig, request, input, lock>>

\* Neither a signal nor the deadline: it will sleep.
NapLoop(p) == /\ At(p, "nap")
              /\ ~sig[p] /\ ~Expired(p)
              /\ Goto(p, "doze")
              /\ UNCHANGED <<clock, pcb, request, result, input, lock>>

\* current->state = PROC_SLEEPING, a plain store, then sched_switch.
NapDoze(p) == /\ At(p, "doze")
              /\ state' = [state EXCEPT ![p] = "SLEEPING"]
              /\ Goto(p, "nap")
              /\ UNCHANGED <<clock, wait_channel, sleep_until, sig, request,
                             result, input, lock>>

-----------------------------------------------------------------------------
(* poll and ppoll *)

\* ppoll, as in nanosleep; poll multiplies by PPAP_TICK_HZ before it divides.
PollTicks(d) == {(d \div Sub) % Range32, ((d * Hz) % Range32) \div (Hz * Sub)}

\* d is NULL for a call without a timeout.
PollCall(p, s, d) == /\ At(p, "user") /\ ~sig[p]
                     /\ \E n \in IF d = NULL THEN {NULL} ELSE PollTicks(d) :
                          Begin(p, n, "scan")
                     /\ asked' = [asked EXCEPT ![p] =
                                    IF d = NULL THEN NULL ELSE d \div Sub]
                     /\ fds' = [fds EXCEPT ![p] = s]
                     /\ at' = [at EXCEPT ![p] = 1]
                     /\ UNCHANGED <<tick_count, phase, state, wait_channel, sig,
                                    input, lock>>

\* vfs_fd_poll of the next file, under its file.lock.
PollScan(p) == /\ At(p, "scan")
               /\ at[p] <= Len(fds[p])
               /\ lock[fds[p][at[p]]] = NULL
               /\ found' = [found EXCEPT ![p] = @ \/ input[fds[p][at[p]]]]
               /\ at' = [at EXCEPT ![p] = @ + 1]
               /\ UNCHANGED <<clock, pcb, pc, ticks, asked, fds, result, input,
                              lock>>

\* All files were asked: what they said, then timeout 0, deadline, signals.
PollScanned(p) == At(p, "scan") /\ at[p] > Len(fds[p])

PollReady(p) == /\ PollScanned(p) /\ found[p]
                /\ Return(p, "ready")
                /\ UNCHANGED <<clock, state, wait_channel, sig, request, input,
                               lock>>

PollCheck(p) == /\ PollScanned(p) /\ ~found[p]
                /\ Goto(p, "check")
                /\ UNCHANGED <<clock, pcb, request, result, input, lock>>

\* The deadline is looked at without asking the files again.
PollTimeout(p) == /\ At(p, "check")
                  /\ ticks[p] # NULL
                  /\ ticks[p] = 0 \/ Expired(p)
                  /\ Return(p, "elapsed")
                  /\ UNCHANGED <<clock, state, wait_channel, sig, request, input,
                                 lock>>

PollGoOn(p) == /\ At(p, "check")
               /\ ticks[p] = NULL \/ (ticks[p] # 0 /\ ~Expired(p))
               /\ \/ sig[p] /\ Return(p, "eintr")
                  \/ ~sig[p] /\ Goto(p, "channel")
                     /\ UNCHANGED <<sleep_until, result>>
               /\ UNCHANGED <<clock, state, wait_channel, sig, request, input,
                              lock>>

\* vfs_fd_get_priv of the first file, under its file.lock.
PollChannel(p) == /\ At(p, "channel")
                  /\ lock[fds[p][1]] = NULL
                  /\ Goto(p, "block")
                  /\ UNCHANGED <<clock, pcb, request, result, input, lock>>

\* sched_sleep_current(channel); once woken it asks every file again.
PollBlock(p) == /\ At(p, "block")
                /\ state' = [state EXCEPT ![p] = "BLOCKED"]
                /\ wait_channel' = [wait_channel EXCEPT ![p] = fds[p][1]]
                /\ at' = [at EXCEPT ![p] = 1]
                /\ found' = [found EXCEPT ![p] = FALSE]
                /\ Goto(p, "scan")
                /\ UNCHANGED <<clock, sleep_until, sig, ticks, asked, fds, result,
                               input, lock>>

-----------------------------------------------------------------------------
(* Terminals *)

\* Input arrives at the device.
Arrive(t) == /\ ~input[t]
             /\ input' = [input EXCEPT ![t] = TRUE]
             /\ UNCHANGED <<clock, pcb, pc, request, result, lock>>

\* tty_rx_notify, from the receive interrupt or from the idle loop.
RxNotify(t) ==
  /\ input[t]
  /\ LET woken == {p \in Proc : state[p] = "BLOCKED" /\ wait_channel[p] = t}
     IN  /\ woken # {}
         /\ state' = [p \in Proc |-> IF p \in woken THEN "RUNNABLE" ELSE state[p]]
         /\ wait_channel' = [p \in Proc |-> IF p \in woken THEN NULL
                                                           ELSE wait_channel[p]]
  /\ UNCHANGED <<clock, sleep_until, sig, pc, request, result, input, lock>>

\* p is in a call with a deadline.
Timed(p) == pc[p] \notin {"user", "read"} /\ ticks[p] \notin {NULL, 0}

\* p is about to take the file.lock of t, in vfs_fd_poll or vfs_fd_get_priv.
Wants(p, t) == \/ At(p, "scan") /\ at[p] <= Len(fds[p]) /\ fds[p][at[p]] = t
               \/ At(p, "channel") /\ fds[p][1] = t

\* p waits for a file.lock that a reader holds.
LockWait(p) == \E t \in Tty : lock[t] # NULL /\ Wants(p, t)

\* vfs_fd_read holds file.lock for the whole read, its sleep included.
ReadCall(p, t) == /\ At(p, "user") /\ ~sig[p]
                  /\ lock[t] = NULL
                  /\ lock' = [lock EXCEPT ![t] = p]
                  /\ waited' = [q \in Proc |->
                                  waited[q] \/ (Timed(q) /\ Wants(q, t))]
                  /\ Goto(p, "read")
                  /\ UNCHANGED <<tick_count, phase, age, pcb, request, result,
                                 input>>

\* The read ends with some of the input, or with a signal.
ReadEnd(p, t) == /\ At(p, "read")
                 /\ lock[t] = p
                 /\ input[t] \/ sig[p]
                 /\ lock' = [lock EXCEPT ![t] = NULL]
                 /\ \E left \in {FALSE, input[t]} :
                      input' = [input EXCEPT ![t] = left]
                 /\ Goto(p, "user")
                 /\ UNCHANGED <<clock, pcb, request, result>>

-----------------------------------------------------------------------------
(* Signals *)

Kill(p) == /\ ~sig[p]
           /\ sig' = [sig EXCEPT ![p] = TRUE]
           /\ state' = [state EXCEPT ![p] = "RUNNABLE"]
           /\ wait_channel' = [wait_channel EXCEPT ![p] = NULL]
           /\ UNCHANGED <<clock, sleep_until, pc, request, result, input, lock>>

\* The signal is taken on the way back to user mode.
SignalTaken(p) == /\ At(p, "user")
                  /\ sig[p]
                  /\ sig' = [sig EXCEPT ![p] = FALSE]
                  /\ UNCHANGED <<clock, state, wait_channel, sleep_until, pc,
                                 request, result, input, lock>>

-----------------------------------------------------------------------------
(* Time *)

\* The latest moment at which a runnable process has not yet been given a core.
Latest(p) == (ticks[p] + Lag) * Sub

\* A unit of time passes. It is counted for calls that never met a held lock.
Pass == /\ waited' = [p \in Proc |-> waited[p] \/ (Timed(p) /\ LockWait(p))]
        /\ age' = [p \in Proc |->
                     IF Timed(p) /\ ~waited'[p] /\ age[p] <= Latest(p) + Sub
                     THEN age[p] + 1 ELSE age[p]]

\* Round robin gives every runnable process a core within Lag ticks.
InTime == \A p \in Proc : /\ Timed(p) /\ state[p] = "RUNNABLE"
                            /\ ~waited[p] /\ ~LockWait(p)
                            => age[p] < Latest(p)

Unit == /\ phase < Sub - 1 /\ InTime
        /\ phase' = phase + 1
        /\ Pass
        /\ UNCHANGED <<tick_count, pcb, pc, request, result, input, lock>>

\* Variant: the deadline is met only on the tick itself.
WakeAt_Exact(p, now) == /\ state[p] \in {"SLEEPING", "BLOCKED"}
                        /\ sleep_until[p] # 0
                        /\ now = sleep_until[p]

\* Variant: only nanosleep's deadlines are looked at.
WakeAt_SleepingOnly(p, now) == /\ state[p] = "SLEEPING"
                               /\ Elapsed(now, sleep_until[p])

\* sched_tick: a deadline of 0 means none for a BLOCKED process.
WakeAt(p, now) == \/ state[p] = "SLEEPING" /\ Elapsed(now, sleep_until[p])
                  \/ state[p] = "BLOCKED" /\ sleep_until[p] # 0
                     /\ Elapsed(now, sleep_until[p])

\* The timer interrupt of core 0: the counter, then the deadlines.
TimerTick ==
  /\ phase = Sub - 1 /\ InTime
  /\ phase' = 0
  /\ Pass
  /\ LET now == (tick_count + 1) % Range32
     IN  /\ tick_count' = now
         /\ state' = [p \in Proc |-> IF WakeAt(p, now) THEN "RUNNABLE"
                                                       ELSE state[p]]
         /\ wait_channel' = [p \in Proc |-> IF WakeAt(p, now) THEN NULL
                                                              ELSE wait_channel[p]]
  /\ UNCHANGED <<sleep_until, sig, pc, request, result, input, lock>>

-----------------------------------------------------------------------------

\* The steps p takes inside a call.
Inside(p) == \/ NapEnd(p) \/ NapLoop(p) \/ NapDoze(p)
             \/ PollScan(p) \/ PollReady(p) \/ PollCheck(p) \/ PollTimeout(p)
             \/ PollGoOn(p) \/ PollChannel(p) \/ PollBlock(p)

Next == \/ \E p \in Proc :
             \/ Inside(p) \/ Kill(p) \/ SignalTaken(p)
             \/ \E t \in Tty : ReadEnd(p, t)
        \/ \E p \in Sleepers :
             \/ \E d \in Durations : NapCall(p, d)
             \/ \E s \in PollSets, d \in Durations \cup {NULL} : PollCall(p, s, d)
        \/ \E p \in Readers, t \in Tty : ReadCall(p, t)
        \/ \E t \in Tty : Arrive(t) \/ RxNotify(t)
        \/ Unit \/ TimerTick

Spec == Init /\ [][Next]_vars

\* Time passes, and the scheduler keeps running what is runnable.
FairSpec == /\ Spec
            /\ WF_vars(Unit \/ TimerTick)
            /\ \A p \in Proc : WF_vars(Inside(p))

-----------------------------------------------------------------------------
(* Properties *)

TypeOK == /\ tick_count \in 0..(Range32 - 1) /\ phase \in 0..(Sub - 1)
          /\ state \in [Proc -> {"RUNNABLE", "BLOCKED", "SLEEPING"}]
          /\ wait_channel \in [Proc -> Tty \cup {NULL}]
          /\ sleep_until \in [Proc -> 0..(Range32 - 1)]
          /\ sig \in [Proc -> BOOLEAN]
          /\ pc \in [Proc -> Points]
          /\ ticks \in [Proc -> 0..(Range32 - 1) \cup {NULL}]
          /\ asked \in [Proc -> Nat \cup {NULL}]
          /\ fds \in [Proc -> PollSets \cup {<< >>}]
          /\ at \in [Proc -> Nat]
          /\ \A p \in Proc : at[p] \in 1..(Len(fds[p]) + 1)
          /\ found \in [Proc -> BOOLEAN]
          /\ result \in [Proc -> {"none", "elapsed", "ready", "eintr"}]
          /\ input \in [Tty -> BOOLEAN]
          /\ lock \in [Tty -> Readers \cup {NULL}]
          /\ age \in [Proc -> Nat]
          /\ waited \in [Proc -> BOOLEAN]

\* The call of p reports the end of its time and has lasted all the whole ticks
\* it asked for but one, the one it started in.
LastedAsked(p) == result[p] = "elapsed" /\ asked[p] # NULL /\ ~waited[p]
                    => age[p] > (asked[p] - 1) * Sub

\* A nanosleep or poll that reports that its time is over has really lasted all
\* of its ticks but the one it started in, also when the counter wraps (the
\* signed difference of sched.c, sys_time.c and sys_poll.c), when its duration
\* was not cut down by the conversion to 32-bit ticks and is less than half the
\* range of the counter.
NoEarlyReturn == \A p \in Proc :
                   /\ ticks[p] # NULL /\ asked[p] # NULL
                   /\ asked[p] <= ticks[p] /\ ticks[p] < Range32 \div 2
                   => LastedAsked(p)

\* The same for any duration: tv_sec is said to be capped so that the deadline
\* cannot wrap around (sys_time.c:104).  The code has no such cap, and TLC violates
\* it with a duration of more than half the range (README, section 5).
LongSleepsLast == \A p \in Proc : LastedAsked(p)

\* No process sleeps past its deadline: sched_tick finds it on the next tick even
\* when it fell asleep after the tick of its deadline. A poll whose deadline is
\* tick 0 is left out: 0 stands for "no deadline" there.
OversleepBounded == \A p \in Proc :
                      /\ Timed(p) /\ ~waited[p]
                      /\ \/ state[p] = "SLEEPING"
                         \/ state[p] = "BLOCKED" /\ sleep_until[p] # 0
                      => age[p] <= Latest(p) + Sub

\* A nanosleep, and a poll with a timeout, comes to an end, unless it meets a file
\* lock that a sleeping reader holds (or, for a poll, its deadline is tick 0).
DeadlineServed == \A p \in Proc :
                    (Timed(p) /\ (pc[p] \in {"nap", "doze"} \/ sleep_until[p] # 0))
                      ~> (pc[p] = "user" \/ waited[p])
=============================================================================
