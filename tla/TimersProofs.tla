---------------------------- MODULE TimersProofs ----------------------------
(***************************************************************************)
(* No early return and no oversleep, for any width of the counter, any     *)
(* number of processes and terminals and any durations.                    *)
(***************************************************************************)
EXTENDS Timers, TLAPS

-----------------------------------------------------------------------------
(* The inductive invariant *)

\* Where a process can be asleep, and what a call in progress has set up.
InCall(p) == /\ state[p] = "SLEEPING" => pc[p] = "nap"
             /\ state[p] = "BLOCKED" => pc[p] = "scan"
             /\ pc[p] \in {"nap", "doze"} => ticks[p] \notin {NULL, 0}
             /\ pc[p] \in {"scan", "check", "channel", "block"} => fds[p] # << >>
             /\ pc[p] \notin {"user", "read"} => result[p] = "none"

\* The call of p has seen k ticks: its deadline is still ticks[p] - k away from
\* the counter, modulo the range, and the units it lasted are k ticks, give or
\* take the one it started in.
Seen(p, k) == /\ \E q \in Int : tick_count + ticks[p] - k = sleep_until[p] + (q * Range32)
              /\ (k * Sub) + phase <= age[p] + (Sub - 1)
              /\ age[p] <= (k * Sub) + phase

\* A call whose time is counted: one with a deadline that met no held lock.
Counted(p) == Timed(p) /\ ~waited[p]

Elapsing(p) == Counted(p) /\ age[p] <= Latest(p) + Sub => \E k \in Nat : Seen(p, k)

\* The deadline is one that sched_tick looks at.
Served(p) == pc[p] \in {"nap", "doze"} \/ sleep_until[p] # 0

\* The longest such a call has lasted: awake, on the way to sleep, and asleep.
OnTime(p) == Counted(p) /\ Served(p) =>
               /\ age[p] <= Latest(p) + Sub
               /\ pc[p] \in {"doze", "channel", "block"} => age[p] <= Latest(p)
               /\ state[p] # "RUNNABLE" => age[p] <= Latest(p) + phase

\* The signed difference tells before from after below half the range.
InRange(p) == ticks[p] # 0 /\ ticks[p] < Range32 \div 2

Returned(p) == result[p] = "elapsed" =>
                 /\ ticks[p] # NULL
                 /\ InRange(p) /\ ~waited[p] => age[p] > (ticks[p] - 1) * Sub

CallInv(p) == InCall(p) /\ Elapsing(p) /\ OnTime(p) /\ Returned(p)

IInv == TypeOK /\ \A p \in Proc : CallInv(p)

-----------------------------------------------------------------------------
(* Arithmetic of the counter *)

\* Facts about multiples that the leaves below need.
LEMMA MulMono ==
    ASSUME NEW s \in Nat, NEW a \in Int, NEW b \in Int, a <= b
    PROVE  a * s <= b * s
OBVIOUS

LEMMA MulNext ==
    ASSUME NEW s \in Int, NEW a \in Int
    PROVE  a * s \in Int /\ (a + 1) * s = (a * s) + s /\ (a - 1) * s = (a * s) - s
OBVIOUS

LEMMA MulLess ==
    ASSUME NEW s \in Nat, NEW a \in Int, NEW b \in Int, a * s < (b + 1) * s
    PROVE  a <= b
<1> SUFFICES ASSUME b + 1 <= a PROVE FALSE
  OBVIOUS
<1>1. (b + 1) * s <= a * s
  BY MulMono
<1>2. a * s \in Int /\ (b + 1) * s \in Int
  BY MulNext
<1> QED
  BY <1>1, <1>2

LEMMA ModOf ==
    ASSUME NEW R \in Nat, R > 0, NEW q \in Int, NEW r \in Int, 0 <= r, r < R
    PROVE  ((q * R) + r) % R = r
OBVIOUS

LEMMA ModSplit ==
    ASSUME NEW R \in Nat, R > 0, NEW a \in Int
    PROVE  /\ a % R \in 0..(R - 1)
           /\ \E q \in Int : a = (a % R) + (q * R)
<1>1. a % R \in 0..(R - 1)
  OBVIOUS
<1>2. a = ((a \div R) * R) + (a % R) /\ a \div R \in Int
  OBVIOUS
<1> QED
  BY <1>1, <1>2, MulNext

\* The signed difference says "not yet" before the deadline, whatever the
\* counter has wrapped to, for a duration of at most half the range.
LEMMA NotElapsed ==
    ASSUME NEW t \in Int, NEW u \in Int, NEW n \in Nat, NEW k \in Int, NEW q \in Int,
           t + n - k = u + (q * Range32), k < n, n < Range32 \div 2, 0 <= k
    PROVE  ~Elapsed(t, u)
<1>1. Range32 \in Nat /\ Range32 > 0 /\ Range32 \div 2 \in Nat
      /\ 2 * (Range32 \div 2) <= Range32
  BY RangeAssumption
<1> DEFINE r == Range32 + k - n
<1>2. r \in Int /\ 0 <= r /\ r < Range32 /\ r >= Range32 \div 2
  BY <1>1
<1>3. (q - 1) * Range32 = (q * Range32) - Range32 /\ q * Range32 \in Int /\ q - 1 \in Int
  BY <1>1, MulNext
<1>4. t - u = ((q - 1) * Range32) + r
  BY <1>1, <1>3
<1> HIDE DEF r
<1>5. (t - u) % Range32 = r
  BY <1>1, <1>2, <1>3, <1>4, ModOf
<1> QED
  BY <1>1, <1>2, <1>5 DEF Elapsed

\* And "over" from the deadline on, for half the range.
LEMMA IsElapsed ==
    ASSUME NEW t \in Int, NEW u \in Int, NEW n \in Nat, NEW k \in Int, NEW q \in Int,
           t + n - k = u + (q * Range32), n <= k, k - n < Range32 \div 2
    PROVE  Elapsed(t, u)
<1>1. Range32 \in Nat /\ Range32 > 0 /\ Range32 \div 2 \in Nat
      /\ 2 * (Range32 \div 2) <= Range32
  BY RangeAssumption
<1>2. k - n \in Int /\ 0 <= k - n /\ k - n < Range32
  BY <1>1
<1>3. q * Range32 \in Int /\ t - u = (q * Range32) + (k - n)
  BY <1>1, MulNext
<1>5. (t - u) % Range32 = k - n
  BY <1>1, <1>2, <1>3, ModOf
<1> QED
  BY <1>1, <1>2, <1>5 DEF Elapsed
-----------------------------------------------------------------------------
(* What a call knows when it looks at the counter *)

LEMMA Bounds ==
    ASSUME TypeOK, NEW p \in Proc, InCall(p), Timed(p)
    PROVE  /\ ticks[p] \in Nat /\ 0 < ticks[p]
           /\ age[p] \in Nat /\ Sub \in Nat /\ Sub > 0 /\ Lag \in Nat
           /\ phase \in 0..(Sub - 1)
           /\ tick_count \in Nat /\ sleep_until[p] \in Nat
           /\ ticks[p] * Sub \in Int /\ Latest(p) \in Int
           /\ ticks[p] * Sub <= Latest(p)
<1>1. /\ ticks[p] \in Nat /\ 0 < ticks[p]
      /\ age[p] \in Nat /\ Sub \in Nat /\ Sub > 0 /\ Lag \in Nat
      /\ phase \in 0..(Sub - 1)
      /\ tick_count \in Nat /\ sleep_until[p] \in Nat
  BY CounterAssumption, RangeAssumption, LagAssumption DEF TypeOK, InCall, Timed
<1>2. ticks[p] * Sub \in Int /\ (ticks[p] + Lag) * Sub \in Int
  BY <1>1, MulNext
<1>3. ticks[p] * Sub <= (ticks[p] + Lag) * Sub
  BY <1>1, MulMono
<1> QED
  BY <1>1, <1>2, <1>3 DEF Latest

\* A deadline that is over was reached by counting.
LEMMA NotEarly ==
    ASSUME TypeOK, NEW p \in Proc, CallInv(p), Counted(p), Expired(p), InRange(p)
    PROVE  age[p] > (ticks[p] - 1) * Sub
<1>1. InCall(p) /\ Timed(p) /\ ~waited[p] /\ Elapsing(p)
  BY DEF CallInv, Counted
<1>2. /\ ticks[p] \in Nat /\ 0 < ticks[p]
      /\ age[p] \in Nat /\ Sub \in Nat /\ Sub > 0
      /\ phase \in 0..(Sub - 1)
      /\ tick_count \in Nat /\ sleep_until[p] \in Nat
      /\ ticks[p] * Sub \in Int /\ Latest(p) \in Int
      /\ ticks[p] * Sub <= Latest(p)
  BY <1>1, Bounds
<1>3. (ticks[p] - 1) * Sub = (ticks[p] * Sub) - Sub
  BY <1>2, MulNext
<1>4. CASE age[p] > Latest(p) + Sub
  BY <1>2, <1>3, <1>4
<1>5. CASE age[p] <= Latest(p) + Sub
  <2>1. PICK k \in Nat : Seen(p, k)
    BY <1>1, <1>5 DEF Elapsing, Counted
  <2>2. PICK q \in Int : tick_count + ticks[p] - k = sleep_until[p] + (q * Range32)
    BY <2>1 DEF Seen
  <2>3. ticks[p] <= k
    <3> SUFFICES ASSUME k < ticks[p] PROVE FALSE
      BY <1>2
    <3>1. ~Elapsed(tick_count, sleep_until[p])
      BY <1>2, <2>2, NotElapsed DEF InRange
    <3> QED
      BY <3>1 DEF Expired
  <2>4. ticks[p] * Sub <= k * Sub /\ k * Sub \in Int
    BY <1>2, <2>3, MulMono, MulNext
  <2> QED
    BY <1>2, <1>3, <2>1, <2>4 DEF Seen
<1> QED
  BY <1>2, <1>4, <1>5

\* A deadline that sched_tick looks at and that is not over lies ahead.
LEMMA NotLate ==
    ASSUME TypeOK, NEW p \in Proc, CallInv(p), Counted(p), Served(p), ~Expired(p)
    PROVE  age[p] <= Latest(p)
<1>1. InCall(p) /\ Timed(p) /\ ~waited[p] /\ Elapsing(p) /\ age[p] <= Latest(p) + Sub
  BY DEF CallInv, Counted, OnTime
<1>2. /\ ticks[p] \in Nat /\ 0 < ticks[p]
      /\ age[p] \in Nat /\ Sub \in Nat /\ Sub > 0 /\ Lag \in Nat
      /\ phase \in 0..(Sub - 1)
      /\ tick_count \in Nat /\ sleep_until[p] \in Nat
      /\ ticks[p] * Sub \in Int /\ Latest(p) \in Int
      /\ ticks[p] * Sub <= Latest(p)
  BY <1>1, Bounds
<1>3. PICK k \in Nat : Seen(p, k)
  BY <1>1 DEF Elapsing, Counted
<1>4. PICK q \in Int : tick_count + ticks[p] - k = sleep_until[p] + (q * Range32)
  BY <1>3 DEF Seen
<1>5. k <= ticks[p] + Lag + 1
  <2>1. k * Sub \in Int /\ k * Sub <= age[p] + (Sub - 1)
    BY <1>2, <1>3, MulNext DEF Seen
  <2>2. (ticks[p] + Lag + 1) * Sub = Latest(p) + Sub
    BY <1>2, MulNext DEF Latest
  <2>3. (ticks[p] + Lag + 1 + 1) * Sub = (ticks[p] + Lag + 1) * Sub + Sub
    BY <1>2, MulNext
  <2>4. k * Sub < (ticks[p] + Lag + 1 + 1) * Sub
    BY <1>1, <1>2, <2>1, <2>2, <2>3
  <2> QED
    BY <1>2, <2>4, MulLess
<1>6. k < ticks[p]
  <2> SUFFICES ASSUME ticks[p] <= k PROVE FALSE
    BY <1>2
  <2>1. k - ticks[p] < Range32 \div 2
    BY <1>2, <1>5, LagAssumption, RangeAssumption
  <2>2. /\ tick_count \in Int /\ sleep_until[p] \in Int /\ ticks[p] \in Nat
        /\ k \in Int /\ q \in Int /\ ticks[p] <= k
    BY <1>2
  <2>3. Elapsed(tick_count, sleep_until[p])
    BY <1>4, <2>1, <2>2, IsElapsed
  <2> QED
    BY <2>3 DEF Expired
<1>7. (k + 1) * Sub <= ticks[p] * Sub /\ (k + 1) * Sub = (k * Sub) + Sub /\ k * Sub \in Int
  BY <1>2, <1>6, MulMono, MulNext
<1> QED
  BY <1>2, <1>3, <1>7 DEF Seen
-----------------------------------------------------------------------------
(* Steps that take no time *)

\* p goes on within its call, wakes up or falls asleep, or leaves the call.
SameCall(p) == /\ ticks'[p] = ticks[p] /\ sleep_until'[p] = sleep_until[p]
               /\ age'[p] = age[p] /\ (waited[p] => waited'[p])
               /\ tick_count' = tick_count /\ phase' = phase

LEMMA Moved ==
    ASSUME NEW p \in Proc, CallInv(p), InCall(p)', SameCall(p), result'[p] = result[p],
           Timed(p)' => Timed(p), Served(p)' => Served(p),
           Counted(p) /\ Served(p) /\ pc'[p] \in {"doze", "channel", "block"}
             => age[p] <= Latest(p),
           Counted(p) /\ Served(p) /\ state'[p] # "RUNNABLE" => age[p] <= Latest(p) + phase
    PROVE  CallInv(p)'
<1>1. Counted(p)' => Counted(p)
  BY DEF SameCall, Counted
<1>2. Latest(p)' = Latest(p)
  BY DEF SameCall, Latest
<1>3. ASSUME NEW k \in Nat, Seen(p, k) PROVE Seen(p, k)'
  BY <1>3 DEF Seen, SameCall
<1>4. Elapsing(p)'
  BY <1>1, <1>2, <1>3 DEF CallInv, Elapsing, SameCall
<1>5. OnTime(p)'
  BY <1>1, <1>2 DEF CallInv, OnTime, SameCall
<1>6. Returned(p)'
  BY DEF CallInv, Returned, InRange, SameCall
<1> QED
  BY <1>4, <1>5, <1>6 DEF CallInv

\* Nothing of the call of p changes but, maybe, that it met a held lock.
LEMMA Unmoved ==
    ASSUME NEW p \in Proc, CallInv(p), SameCall(p), result'[p] = result[p],
           pc'[p] = pc[p], state'[p] = state[p], fds'[p] = fds[p]
    PROVE  CallInv(p)'
<1>1. InCall(p)'
  BY DEF CallInv, InCall, SameCall
<1>2. Timed(p)' = Timed(p) /\ Served(p)' = Served(p)
  BY DEF Timed, Served, SameCall
<1>3. Counted(p) /\ Served(p) =>
        /\ pc'[p] \in {"doze", "channel", "block"} => age[p] <= Latest(p)
        /\ state'[p] # "RUNNABLE" => age[p] <= Latest(p) + phase
  BY DEF CallInv, OnTime
<1> QED
  BY <1>1, <1>2, <1>3, Moved

\* A call starts.
LEMMA Begun ==
    ASSUME TypeOK, TypeOK', NEW p \in Proc, InCall(p)', NEW n, NEW point,
           point \in {"nap", "scan"}, Begin(p, n, point), state'[p] = "RUNNABLE",
           tick_count' = tick_count, phase' = phase
    PROVE  CallInv(p)'
<1>1. /\ ticks'[p] = n /\ age'[p] = 0 /\ result'[p] = "none" /\ pc'[p] = point
      /\ n \notin {NULL, 0} => sleep_until'[p] = (tick_count + n) % Range32
  BY DEF Begin, Goto, TypeOK
<1>2. Returned(p)'
  BY <1>1 DEF Returned
<1>3. ASSUME Timed(p)'
      PROVE  /\ \E k \in Nat : Seen(p, k)'
             /\ age'[p] <= Latest(p)' /\ age'[p] <= Latest(p)' + Sub
  <2>1. /\ n \in Nat /\ n \notin {NULL, 0} /\ tick_count \in Nat /\ phase \in 0..(Sub - 1)
        /\ Sub \in Nat /\ Sub > 0 /\ Lag \in Nat /\ Range32 \in Nat /\ Range32 > 0
    BY <1>1, <1>3, CounterAssumption, RangeAssumption, LagAssumption DEF TypeOK, Timed
  <2>2. PICK q \in Int : tick_count + n = ((tick_count + n) % Range32) + (q * Range32)
    BY <2>1, ModSplit
  <2>3. (tick_count + n) % Range32 \in Int /\ q * Range32 \in Int
    BY <2>1, ModSplit, MulNext
  <2>4. tick_count' + ticks'[p] - 0 = sleep_until'[p] + (q * Range32)
    BY <1>1, <2>1, <2>2, <2>3
  <2>5. 0 * Sub = 0 /\ 0 * Sub <= (n + Lag) * Sub /\ (n + Lag) * Sub \in Int
    BY <2>1, MulMono, MulNext
  <2>6. (0 * Sub) + phase' <= age'[p] + (Sub - 1) /\ age'[p] <= (0 * Sub) + phase'
    BY <1>1, <2>1, <2>5
  <2>7. Seen(p, 0)'
    BY <2>4, <2>6 DEF Seen
  <2> QED
    BY <1>1, <2>1, <2>5, <2>7 DEF Latest
<1>4. Elapsing(p)'
  BY <1>3 DEF Elapsing, Counted
<1>5. OnTime(p)'
  BY <1>1, <1>3 DEF OnTime, Counted
<1> QED
  BY <1>2, <1>4, <1>5 DEF CallInv

\* A call returns; "elapsed" only with a deadline that is over.
LEMMA Finished ==
    ASSUME TypeOK, NEW p \in Proc, CallInv(p), NEW r, Return(p, r), r # "none",
           state'[p] = "RUNNABLE", ticks' = ticks, age' = age, waited' = waited,
           pc[p] \notin {"user", "read"},
           r = "elapsed" => ticks[p] # NULL /\ (ticks[p] = 0 \/ Expired(p))
    PROVE  CallInv(p)'
<1>1. pc'[p] = "user" /\ result'[p] = r
  BY DEF Return, Goto, TypeOK
<1>2. InCall(p)'
  BY <1>1 DEF CallInv, InCall
<1>3. ~Timed(p)'
  BY <1>1 DEF Timed
<1>4. Elapsing(p)' /\ OnTime(p)'
  BY <1>3 DEF Elapsing, OnTime, Counted
<1>5. ASSUME r = "elapsed", InRange(p), ~waited[p]
      PROVE  age[p] > (ticks[p] - 1) * Sub
  <2>1. Counted(p) /\ Expired(p)
    BY <1>5 DEF Counted, Timed, InRange
  <2> QED
    BY <1>5, <2>1, NotEarly
<1>6. Returned(p)'
  BY <1>1, <1>5 DEF Returned, InRange
<1> QED
  BY <1>2, <1>4, <1>6 DEF CallInv
-----------------------------------------------------------------------------
(* A unit of time *)

\* What Unit and TimerTick have in common for a call whose time is counted.
LEMMA Passed ==
    ASSUME TypeOK, NEW p \in Proc, CallInv(p), Pass, InTime, Counted(p)',
           UNCHANGED <<pc, ticks, sleep_until, result, fds>>
    PROVE  /\ Counted(p) /\ InCall(p) /\ Elapsing(p) /\ OnTime(p) /\ Timed(p)
           /\ age'[p] = IF age[p] <= Latest(p) + Sub THEN age[p] + 1 ELSE age[p]
           /\ state[p] = "RUNNABLE" => age[p] < Latest(p)
           /\ Latest(p)' = Latest(p) /\ Served(p)' = Served(p)
<1>1. Timed(p) /\ ~waited'[p]
  BY DEF Counted, Timed
<1>2. ~waited[p] /\ ~LockWait(p)
  BY <1>1, Zenon DEF Pass
<1>3. age'[p] = IF age[p] <= Latest(p) + Sub THEN age[p] + 1 ELSE age[p]
  BY <1>1 DEF Pass
<1>4. state[p] = "RUNNABLE" => age[p] < Latest(p)
  BY <1>1, <1>2, Zenon DEF InTime
<1>5. Latest(p)' = Latest(p) /\ Served(p)' = Served(p)
  BY DEF Latest, Served
<1> QED
  BY <1>1, <1>2, <1>3, <1>4, <1>5 DEF Counted, CallInv

\* A call that is not counted, or over, keeps what was recorded of it.
LEMMA PassedOver ==
    ASSUME TypeOK, NEW p \in Proc, CallInv(p), Pass, UNCHANGED <<pc, ticks, result>>
    PROVE  Returned(p)'
<1> SUFFICES ASSUME result[p] = "elapsed" PROVE Returned(p)'
  BY DEF Returned
<1>1. ~Timed(p)
  BY DEF CallInv, InCall, Timed
<1>2. waited'[p] = waited[p]
  <2>1. waited'[p] = (waited[p] \/ (Timed(p) /\ LockWait(p)))
    BY Zenon DEF Pass
  <2>2. waited[p] \in BOOLEAN
    BY DEF TypeOK
  <2> QED
    BY <1>1, <2>1, <2>2
<1>3. age'[p] = age[p]
  BY <1>1 DEF Pass
<1> QED
  BY <1>2, <1>3 DEF CallInv, Returned, InRange

LEMMA UnitStep ==
    ASSUME TypeOK, Unit, NEW p \in Proc, CallInv(p)
    PROVE  CallInv(p)'
<1>1. InCall(p)'
  BY DEF CallInv, InCall, Unit, pcb, request
<1>2. Returned(p)'
  BY PassedOver DEF Unit, pcb, request
<1>3. CASE ~Counted(p)'
  BY <1>1, <1>2, <1>3 DEF CallInv, Elapsing, OnTime
<1>4. CASE Counted(p)'
  <2>1. /\ Counted(p) /\ InCall(p) /\ Elapsing(p) /\ OnTime(p) /\ Timed(p)
        /\ age'[p] = IF age[p] <= Latest(p) + Sub THEN age[p] + 1 ELSE age[p]
        /\ state[p] = "RUNNABLE" => age[p] < Latest(p)
        /\ Latest(p)' = Latest(p) /\ Served(p)' = Served(p)
    BY <1>4, Passed DEF Unit, pcb, request
  <2>2. /\ age[p] \in Nat /\ Sub \in Nat /\ Sub > 0 /\ phase \in 0..(Sub - 1)
        /\ Latest(p) \in Int
    BY <2>1, Bounds
  <2>3. /\ phase' = phase + 1 /\ phase < Sub - 1 /\ tick_count' = tick_count
        /\ ticks' = ticks /\ sleep_until' = sleep_until /\ pc' = pc /\ state' = state
    BY DEF Unit, pcb, request
  <2>4. ASSUME age'[p] <= Latest(p) + Sub PROVE \E k \in Nat : Seen(p, k)'
    <3>1. age[p] <= Latest(p) + Sub /\ age'[p] = age[p] + 1
      BY <2>1, <2>2, <2>4
    <3>2. PICK k \in Nat : Seen(p, k)
      BY <2>1, <3>1 DEF Elapsing
    <3>3. k * Sub \in Int
      BY <2>2, MulNext
    <3>4. Seen(p, k)'
      BY <2>2, <2>3, <3>1, <3>2, <3>3 DEF Seen
    <3> QED
      BY <3>4
  <2>5. Elapsing(p)'
    BY <2>1, <2>4 DEF Elapsing
  <2>6. ASSUME Served(p)
        PROVE  /\ age'[p] <= Latest(p) + Sub
               /\ pc[p] \in {"doze", "channel", "block"} => age'[p] <= Latest(p)
               /\ state[p] # "RUNNABLE" => age'[p] <= Latest(p) + (phase + 1)
    <3>1. age[p] <= Latest(p) + Sub /\ (state[p] # "RUNNABLE" => age[p] <= Latest(p) + phase)
      BY <2>1, <2>6 DEF OnTime
    <3>2. state[p] # "RUNNABLE" => pc[p] \notin {"doze", "channel", "block"}
      BY <2>1 DEF InCall, TypeOK
    <3> QED
      BY <2>1, <2>2, <2>3, <3>1, <3>2
  <2>7. OnTime(p)'
    BY <2>1, <2>3, <2>6 DEF OnTime
  <2> QED
    BY <1>1, <1>2, <2>5, <2>7 DEF CallInv
<1> QED
  BY <1>3, <1>4

\* A tick that does not wake p leaves its deadline ahead.
LEMMA StillAhead ==
    ASSUME TypeOK, NEW p \in Proc, InCall(p), Timed(p), NEW k \in Nat, NEW q \in Int,
           NEW now \in Nat, now + ticks[p] - (k + 1) = sleep_until[p] + (q * Range32),
           k * Sub <= age[p], age[p] <= (k * Sub) + (Sub - 1),
           age[p] <= Latest(p) + (Sub - 1), ~Elapsed(now, sleep_until[p])
    PROVE  age[p] + 1 <= Latest(p)
<1>1. /\ ticks[p] \in Nat /\ 0 < ticks[p]
      /\ age[p] \in Nat /\ Sub \in Nat /\ Sub > 0 /\ Lag \in Nat
      /\ sleep_until[p] \in Nat
      /\ ticks[p] * Sub \in Int /\ Latest(p) \in Int
      /\ ticks[p] * Sub <= Latest(p)
  BY Bounds
<1>2. k * Sub \in Int /\ (k + 1) * Sub = (k * Sub) + Sub
  BY <1>1, MulNext
<1>3. k <= ticks[p] + Lag
  <2>1. (ticks[p] + Lag + 1) * Sub = Latest(p) + Sub
    BY <1>1, MulNext DEF Latest
  <2>2. k * Sub < (ticks[p] + Lag + 1) * Sub
    BY <1>1, <1>2, <2>1
  <2> QED
    BY <1>1, <2>2, MulLess
<1>4. k + 1 < ticks[p]
  <2> SUFFICES ASSUME ticks[p] <= k + 1 PROVE FALSE
    BY <1>1
  <2>1. k + 1 - ticks[p] < Range32 \div 2
    BY <1>1, <1>3, LagAssumption, RangeAssumption
  <2>2. /\ now \in Int /\ sleep_until[p] \in Int /\ ticks[p] \in Nat
        /\ k + 1 \in Int /\ q \in Int /\ ticks[p] <= k + 1
    BY <1>1
  <2>3. Elapsed(now, sleep_until[p])
    BY <2>1, <2>2, IsElapsed
  <2> QED
    BY <2>3
<1>5. (k + 1) * Sub <= ticks[p] * Sub
  BY <1>1, <1>4, MulMono
<1> QED
  BY <1>1, <1>2, <1>5

LEMMA TickStep ==
    ASSUME TypeOK, TimerTick, NEW p \in Proc, CallInv(p)
    PROVE  CallInv(p)'
<1> DEFINE now == (tick_count + 1) % Range32
<1>1. /\ phase = Sub - 1 /\ InTime /\ phase' = 0 /\ Pass /\ tick_count' = now
      /\ state'[p] = IF WakeAt(p, now) THEN "RUNNABLE" ELSE state[p]
      /\ UNCHANGED <<sleep_until, pc, ticks, fds, result>>
  BY DEF TimerTick, request
<1> HIDE DEF now
<1>2. InCall(p)'
  BY <1>1 DEF CallInv, InCall
<1>3. Returned(p)'
  BY <1>1, PassedOver
<1>4. CASE ~Counted(p)'
  BY <1>2, <1>3, <1>4 DEF CallInv, Elapsing, OnTime
<1>5. CASE Counted(p)'
  <2>1. /\ Counted(p) /\ InCall(p) /\ Elapsing(p) /\ OnTime(p) /\ Timed(p)
        /\ age'[p] = IF age[p] <= Latest(p) + Sub THEN age[p] + 1 ELSE age[p]
        /\ state[p] = "RUNNABLE" => age[p] < Latest(p)
        /\ Latest(p)' = Latest(p) /\ Served(p)' = Served(p)
    BY <1>1, <1>5, Passed
  <2>2. /\ age[p] \in Nat /\ Sub \in Nat /\ Sub > 0 /\ tick_count \in Nat
        /\ Latest(p) \in Int /\ ticks[p] \in Nat /\ sleep_until[p] \in Nat
        /\ Range32 \in Nat /\ Range32 > 0
    BY <2>1, Bounds, RangeAssumption
  <2>3. now \in Nat
    BY <2>2, ModSplit DEF now
  <2>4. PICK w \in Int : tick_count + 1 = now + (w * Range32)
    <3>1. tick_count + 1 \in Int
      BY <2>2
    <3>2. \E w \in Int : tick_count + 1 = ((tick_count + 1) % Range32) + (w * Range32)
      BY <2>2, <3>1, ModSplit
    <3> QED
      BY <3>2 DEF now
  <2>5. ASSUME NEW k \in Nat, Seen(p, k), age'[p] = age[p] + 1
        PROVE  /\ Seen(p, k + 1)'
               /\ \E q \in Int : now + ticks[p] - (k + 1) = sleep_until[p] + (q * Range32)
               /\ k * Sub <= age[p] /\ age[p] <= (k * Sub) + (Sub - 1)
    <3>1. PICK q \in Int : tick_count + ticks[p] - k = sleep_until[p] + (q * Range32)
      BY <2>5 DEF Seen
    <3>2. /\ k * Sub \in Int /\ (k + 1) * Sub = (k * Sub) + Sub
          /\ q * Range32 \in Int /\ w * Range32 \in Int
          /\ (q - w) * Range32 = (q * Range32) - (w * Range32)
      BY <2>2, MulNext
    <3>3. now + ticks[p] - (k + 1) = sleep_until[p] + ((q - w) * Range32)
      BY <2>2, <2>3, <2>4, <3>1, <3>2
    <3>4. k * Sub <= age[p] /\ age[p] <= (k * Sub) + (Sub - 1)
      BY <1>1, <2>2, <2>5, <3>2 DEF Seen
    <3>5. ((k + 1) * Sub) + phase' <= age'[p] + (Sub - 1) /\ age'[p] <= ((k + 1) * Sub) + phase'
      BY <1>1, <2>2, <2>5, <3>2, <3>4
    <3>6. Seen(p, k + 1)'
      BY <1>1, <3>3, <3>5 DEF Seen
    <3> QED
      BY <3>3, <3>4, <3>6
  <2>6. ASSUME age'[p] <= Latest(p) + Sub PROVE \E k \in Nat : Seen(p, k)'
    <3>1. age[p] <= Latest(p) + Sub /\ age'[p] = age[p] + 1
      BY <2>1, <2>2, <2>6
    <3>2. PICK k \in Nat : Seen(p, k)
      BY <2>1, <3>1 DEF Elapsing
    <3>3. Seen(p, k + 1)' /\ k + 1 \in Nat
      BY <2>5, <3>1, <3>2
    <3> QED
      BY <3>3
  <2>7. Elapsing(p)'
    BY <2>1, <2>6 DEF Elapsing
  <2>8. ASSUME Served(p), state[p] # "RUNNABLE", ~WakeAt(p, now)
        PROVE  age[p] + 1 <= Latest(p)
    <3>1. age[p] <= Latest(p) + (Sub - 1)
      BY <1>1, <2>1, <2>8 DEF OnTime
    <3>2. PICK k \in Nat : Seen(p, k)
      BY <2>1, <2>2, <3>1 DEF Elapsing
    <3>3. age'[p] = age[p] + 1
      BY <2>1, <2>2, <3>1
    <3>4. PICK q \in Int : /\ now + ticks[p] - (k + 1) = sleep_until[p] + (q * Range32)
                           /\ k * Sub <= age[p] /\ age[p] <= (k * Sub) + (Sub - 1)
      BY <2>5, <3>2, <3>3
    <3>5. ~Elapsed(now, sleep_until[p])
      BY <2>1, <2>8 DEF WakeAt, Served, InCall, TypeOK
    <3> QED
      BY <2>1, <2>3, <3>1, <3>4, <3>5, StillAhead
  <2>9. ASSUME Served(p)
        PROVE  /\ age'[p] <= Latest(p) + Sub
               /\ pc[p] \in {"doze", "channel", "block"} => age'[p] <= Latest(p)
               /\ state'[p] # "RUNNABLE" => age'[p] <= Latest(p)
    <3>1. age[p] <= Latest(p) + Sub /\ (state[p] # "RUNNABLE" => age[p] <= Latest(p) + (Sub - 1))
      BY <1>1, <2>1, <2>9 DEF OnTime
    <3>2. state[p] # "RUNNABLE" => pc[p] \notin {"doze", "channel", "block"}
      BY <2>1 DEF InCall, TypeOK
    <3>3. age'[p] = age[p] + 1
      BY <2>1, <2>2, <3>1
    <3>4. state'[p] # "RUNNABLE" => state[p] # "RUNNABLE" /\ ~WakeAt(p, now)
      BY <1>1
    <3> QED
      BY <2>1, <2>2, <2>8, <2>9, <3>1, <3>2, <3>3, <3>4
  <2>10. OnTime(p)'
    BY <1>1, <2>1, <2>2, <2>9 DEF OnTime
  <2> QED
    BY <1>2, <1>3, <2>7, <2>10 DEF CallInv
<1> QED
  BY <1>4, <1>5

-----------------------------------------------------------------------------
(* Types *)

\* A quotient is at most what was divided.
LEMMA DivLess ==
    ASSUME NEW a \in Nat, NEW b \in Nat, b > 0
    PROVE  a \div b \in 0..a
OBVIOUS

\* The length of a timeout fits its field.
LEMMA TicksFit ==
    ASSUME NEW d \in Durations
    PROVE  /\ d \in Nat /\ d \div Sub \in Nat
           /\ PollTicks(d) \subseteq 0..(Range32 - 1)
           /\ NapTicks(d) \in 1..(Range32 - 1)
<1>1. d \in Nat /\ Sub \in Nat /\ Sub > 0 /\ Hz \in Nat /\ Hz > 0
      /\ Range32 \in Nat /\ Range32 > 3
  BY DurationAssumption, CounterAssumption, RangeAssumption
<1>2. d \div Sub \in Nat
  BY <1>1, DivLess
<1>3. (d \div Sub) % Range32 \in 0..(Range32 - 1)
  BY <1>1, <1>2, ModSplit
<1>4. d * Hz \in Nat /\ Hz * Sub \in Nat /\ Hz * Sub > 0
  BY <1>1
<1>5. (d * Hz) % Range32 \in 0..(Range32 - 1)
  BY <1>1, <1>4, ModSplit
<1>6. ((d * Hz) % Range32) \div (Hz * Sub) \in 0..(Range32 - 1)
  BY <1>1, <1>4, <1>5, DivLess
<1> QED
  BY <1>1, <1>2, <1>3, <1>6 DEF PollTicks, NapTicks

\* One file after another: the scan stays within the files it was given.
LEMMA FilesOf ==
    ASSUME TypeOK, NEW p \in Proc
    PROVE  fds[p] \in Seq(Tty) /\ Len(fds[p]) \in Nat
<1>1. fds[p] \in PollSets \cup {<< >>}
  BY DEF TypeOK
<1>2. << >> \in Seq(Tty) /\ PollSets \subseteq Seq(Tty)
  BY PollAssumption
<1>3. fds[p] \in Seq(Tty)
  BY <1>1, <1>2
<1> QED
  BY <1>3

LEMMA BeginTypes ==
    ASSUME TypeOK, NEW p \in Proc, NEW n \in 0..(Range32 - 1) \cup {NULL},
           NEW point \in Points, Begin(p, n, point)
    PROVE  /\ pc' \in [Proc -> Points] /\ ticks' \in [Proc -> 0..(Range32 - 1) \cup {NULL}]
           /\ sleep_until' \in [Proc -> 0..(Range32 - 1)]
           /\ result' \in [Proc -> {"none", "elapsed", "ready", "eintr"}]
           /\ age' \in [Proc -> Nat] /\ waited' \in [Proc -> BOOLEAN]
           /\ found' \in [Proc -> BOOLEAN]
<1>1. ASSUME n \notin {NULL, 0} PROVE (tick_count + n) % Range32 \in 0..(Range32 - 1)
  <2>1. tick_count + n \in Int
    BY <1>1, RangeAssumption DEF TypeOK
  <2> QED
    BY <2>1, RangeAssumption, ModSplit
<1>2. sleep_until' \in [Proc -> 0..(Range32 - 1)]
  BY <1>1 DEF Begin, TypeOK
<1>3. age' \in [Proc -> Nat] /\ waited' \in [Proc -> BOOLEAN] /\ found' \in [Proc -> BOOLEAN]
  BY DEF Begin, TypeOK
<1>4. /\ pc' \in [Proc -> Points] /\ ticks' \in [Proc -> 0..(Range32 - 1) \cup {NULL}]
      /\ result' \in [Proc -> {"none", "elapsed", "ready", "eintr"}]
  BY DEF Begin, Goto, TypeOK
<1> QED
  BY <1>2, <1>3, <1>4

LEMMA ReturnTypes ==
    ASSUME TypeOK, NEW p \in Proc, NEW r \in {"elapsed", "ready", "eintr"}, Return(p, r)
    PROVE  /\ pc' \in [Proc -> Points] /\ sleep_until' \in [Proc -> 0..(Range32 - 1)]
           /\ result' \in [Proc -> {"none", "elapsed", "ready", "eintr"}]
<1>1. 0 \in 0..(Range32 - 1)
  BY RangeAssumption
<1> QED
  BY <1>1 DEF TypeOK, Return, Goto, Points

LEMMA PassTypes ==
    ASSUME TypeOK, Pass
    PROVE  age' \in [Proc -> Nat] /\ waited' \in [Proc -> BOOLEAN]
<1>1. waited' \in [Proc -> BOOLEAN]
  BY DEF Pass, TypeOK
<1>2. age' \in [Proc -> Nat]
  BY DEF Pass, TypeOK
<1> QED
  BY <1>1, <1>2

\* Each step keeps the types.
LEMMA TypeStep ==
    ASSUME TypeOK, \A p \in Proc : CallInv(p), Next
    PROVE  TypeOK'
<1> USE DEF clock, pcb, request
<1>1. ASSUME NEW p \in Proc, NapEnd(p) PROVE TypeOK'
  <2>1. /\ pc' \in [Proc -> Points] /\ sleep_until' \in [Proc -> 0..(Range32 - 1)]
        /\ result' \in [Proc -> {"none", "elapsed", "ready", "eintr"}]
    BY <1>1, ReturnTypes DEF NapEnd
  <2> QED
    BY <1>1, <2>1 DEF NapEnd, TypeOK
<1>2. ASSUME NEW p \in Proc, NapLoop(p) PROVE TypeOK'
  BY <1>2 DEF NapLoop, TypeOK, Goto, Points
<1>3. ASSUME NEW p \in Proc, NapDoze(p) PROVE TypeOK'
  BY <1>3 DEF NapDoze, TypeOK, Goto, Points
<1>4. ASSUME NEW p \in Proc, PollScan(p) PROVE TypeOK'
  <2>1. Len(fds[p]) \in Nat
    BY FilesOf
  <2>2. found' \in [Proc -> BOOLEAN]
    BY <1>4 DEF PollScan, TypeOK
  <2>3. at' \in [Proc -> Nat] /\ \A q \in Proc : at'[q] \in 1..(Len(fds[q]) + 1)
    BY <1>4, <2>1 DEF PollScan, TypeOK
  <2> QED
    BY <1>4, <2>2, <2>3 DEF PollScan, TypeOK
<1>5. ASSUME NEW p \in Proc, PollReady(p) PROVE TypeOK'
  <2>1. /\ pc' \in [Proc -> Points] /\ sleep_until' \in [Proc -> 0..(Range32 - 1)]
        /\ result' \in [Proc -> {"none", "elapsed", "ready", "eintr"}]
    BY <1>5, ReturnTypes DEF PollReady
  <2> QED
    BY <1>5, <2>1 DEF PollReady, TypeOK
<1>6. ASSUME NEW p \in Proc, PollCheck(p) PROVE TypeOK'
  BY <1>6 DEF PollCheck, TypeOK, Goto, Points
<1>7. ASSUME NEW p \in Proc, PollTimeout(p) PROVE TypeOK'
  <2>1. /\ pc' \in [Proc -> Points] /\ sleep_until' \in [Proc -> 0..(Range32 - 1)]
        /\ result' \in [Proc -> {"none", "elapsed", "ready", "eintr"}]
    BY <1>7, ReturnTypes DEF PollTimeout
  <2> QED
    BY <1>7, <2>1 DEF PollTimeout, TypeOK
<1>8. ASSUME NEW p \in Proc, PollGoOn(p) PROVE TypeOK'
  <2>1. /\ pc' \in [Proc -> Points] /\ sleep_until' \in [Proc -> 0..(Range32 - 1)]
        /\ result' \in [Proc -> {"none", "elapsed", "ready", "eintr"}]
    <3>1. CASE Return(p, "eintr")
      BY <3>1, ReturnTypes
    <3>2. CASE Goto(p, "channel") /\ UNCHANGED <<sleep_until, result>>
      BY <3>2 DEF TypeOK, Goto, Points
    <3> QED
      BY <1>8, <3>1, <3>2 DEF PollGoOn
  <2> QED
    BY <1>8, <2>1 DEF PollGoOn, TypeOK
<1>9. ASSUME NEW p \in Proc, PollChannel(p) PROVE TypeOK'
  BY <1>9 DEF PollChannel, TypeOK, Goto, Points
<1>10. ASSUME NEW p \in Proc, PollBlock(p) PROVE TypeOK'
  <2>1. fds[p] # << >>
    BY <1>10 DEF PollBlock, At, CallInv, InCall
  <2>2. fds[p] \in Seq(Tty) /\ Len(fds[p]) \in Nat
    BY FilesOf
  <2>3. fds[p][1] \in Tty
    BY <2>1, <2>2
  <2>4. wait_channel' \in [Proc -> Tty \cup {NULL}]
    BY <1>10, <2>3 DEF PollBlock, TypeOK
  <2>5. at' \in [Proc -> Nat] /\ \A q \in Proc : at'[q] \in 1..(Len(fds[q]) + 1)
    BY <1>10, <2>2 DEF PollBlock, TypeOK
  <2>6. state' \in [Proc -> {"RUNNABLE", "BLOCKED", "SLEEPING"}] /\ pc' \in [Proc -> Points]
        /\ found' \in [Proc -> BOOLEAN]
    BY <1>10 DEF PollBlock, TypeOK, Goto, Points
  <2> QED
    BY <1>10, <2>4, <2>5, <2>6 DEF PollBlock, TypeOK
<1>11. ASSUME NEW p \in Proc, Kill(p) PROVE TypeOK'
  BY <1>11 DEF Kill, TypeOK
<1>12. ASSUME NEW p \in Proc, SignalTaken(p) PROVE TypeOK'
  BY <1>12 DEF SignalTaken, TypeOK
<1>13. ASSUME NEW p \in Proc, NEW t \in Tty, ReadEnd(p, t) PROVE TypeOK'
  <2>1. PICK left \in {FALSE, input[t]} : input' = [input EXCEPT ![t] = left]
    BY <1>13 DEF ReadEnd
  <2>2. left \in BOOLEAN
    BY <2>1 DEF TypeOK
  <2>3. input' \in [Tty -> BOOLEAN]
    BY <2>1, <2>2 DEF TypeOK
  <2>4. lock' \in [Tty -> Readers \cup {NULL}] /\ pc' \in [Proc -> Points]
    BY <1>13 DEF ReadEnd, TypeOK, Goto, Points
  <2> QED
    BY <1>13, <2>3, <2>4 DEF ReadEnd, TypeOK
<1>14. ASSUME NEW p \in Proc, NEW d \in Durations, NapCall(p, d) PROVE TypeOK'
  <2>1. NapTicks(d) \in 0..(Range32 - 1) /\ "nap" \in Points
    BY TicksFit, RangeAssumption DEF Points
  <2>2. Begin(p, NapTicks(d), "nap")
    BY <1>14 DEF NapCall
  <2>3. /\ pc' \in [Proc -> Points] /\ ticks' \in [Proc -> 0..(Range32 - 1) \cup {NULL}]
        /\ sleep_until' \in [Proc -> 0..(Range32 - 1)]
        /\ result' \in [Proc -> {"none", "elapsed", "ready", "eintr"}]
        /\ age' \in [Proc -> Nat] /\ waited' \in [Proc -> BOOLEAN]
        /\ found' \in [Proc -> BOOLEAN]
    BY <2>1, <2>2, BeginTypes
  <2>4. asked' \in [Proc -> Nat \cup {NULL}]
    BY <1>14, TicksFit DEF NapCall, TypeOK
  <2> QED
    BY <1>14, <2>3, <2>4 DEF NapCall, TypeOK
<1>15. ASSUME NEW p \in Proc, NEW s \in PollSets, NEW d \in Durations \cup {NULL},
              PollCall(p, s, d)
       PROVE  TypeOK'
  <2>0. PICK n \in IF d = NULL THEN {NULL} ELSE PollTicks(d) : Begin(p, n, "scan")
    BY <1>15 DEF PollCall
  <2>1. n \in 0..(Range32 - 1) \cup {NULL} /\ "scan" \in Points
    BY <2>0, TicksFit DEF Points
  <2>2. Begin(p, n, "scan")
    BY <2>0
  <2>7. asked' \in [Proc -> Nat \cup {NULL}]
    BY <1>15, TicksFit DEF PollCall, TypeOK
  <2>3. /\ pc' \in [Proc -> Points] /\ ticks' \in [Proc -> 0..(Range32 - 1) \cup {NULL}]
        /\ sleep_until' \in [Proc -> 0..(Range32 - 1)]
        /\ result' \in [Proc -> {"none", "elapsed", "ready", "eintr"}]
        /\ age' \in [Proc -> Nat] /\ waited' \in [Proc -> BOOLEAN]
        /\ found' \in [Proc -> BOOLEAN]
    BY <2>1, <2>2, BeginTypes
  <2>4. fds' \in [Proc -> PollSets \cup {<< >>}] /\ at' \in [Proc -> Nat]
    BY <1>15 DEF PollCall, TypeOK
  <2>5. Len(s) \in Nat
    BY PollAssumption
  <2>6. \A q \in Proc : at'[q] \in 1..(Len(fds'[q]) + 1)
    BY <1>15, <2>5 DEF PollCall, TypeOK
  <2> QED
    BY <1>15, <2>3, <2>4, <2>6, <2>7 DEF PollCall, TypeOK
<1>16. ASSUME NEW p \in Readers, NEW t \in Tty, ReadCall(p, t) PROVE TypeOK'
  <2>1. waited' \in [Proc -> BOOLEAN]
    BY <1>16 DEF ReadCall, TypeOK
  <2>2. pc' \in [Proc -> Points] /\ lock' \in [Tty -> Readers \cup {NULL}]
    BY <1>16 DEF ReadCall, TypeOK, Goto, Points
  <2> QED
    BY <1>16, <2>1, <2>2 DEF ReadCall, TypeOK
<1>17. ASSUME NEW t \in Tty, Arrive(t) PROVE TypeOK'
  BY <1>17 DEF Arrive, TypeOK
<1>18. ASSUME NEW t \in Tty, RxNotify(t) PROVE TypeOK'
  BY <1>18 DEF RxNotify, TypeOK
<1>19. CASE Unit
  <2>1. age' \in [Proc -> Nat] /\ waited' \in [Proc -> BOOLEAN]
    BY <1>19, PassTypes DEF Unit
  <2>2. phase' \in 0..(Sub - 1)
    BY <1>19, CounterAssumption DEF Unit, TypeOK
  <2> QED
    BY <1>19, <2>1, <2>2 DEF Unit, TypeOK
<1>20. CASE TimerTick
  <2>1. age' \in [Proc -> Nat] /\ waited' \in [Proc -> BOOLEAN]
    BY <1>20, PassTypes DEF TimerTick
  <2>2. tick_count + 1 \in Int /\ Range32 \in Nat /\ Range32 > 0
    BY RangeAssumption DEF TypeOK
  <2>3. tick_count' \in 0..(Range32 - 1)
    BY <1>20, <2>2, ModSplit DEF TimerTick
  <2>4. phase' \in 0..(Sub - 1)
    BY <1>20, CounterAssumption DEF TimerTick
  <2>5. state' \in [Proc -> {"RUNNABLE", "BLOCKED", "SLEEPING"}]
        /\ wait_channel' \in [Proc -> Tty \cup {NULL}]
    BY <1>20 DEF TimerTick, TypeOK
  <2> QED
    BY <1>20, <2>1, <2>3, <2>4, <2>5 DEF TimerTick, TypeOK
<1> QED
  BY <1>1, <1>2, <1>3, <1>4, <1>5, <1>6, <1>7, <1>8, <1>9, <1>10, <1>11, <1>12, <1>13,
     <1>14, <1>15, <1>16, <1>17, <1>18, <1>19, <1>20, PollAssumption DEF Next, Inside

-----------------------------------------------------------------------------
(* Every step keeps the invariant *)

\* A step of p inside its call.
LEMMA InsideStep ==
    ASSUME TypeOK, TypeOK', NEW p \in Proc, Inside(p), NEW q \in Proc, CallInv(q)
    PROVE  CallInv(q)'
<1> USE DEF clock, pcb, request
<1>1. CASE q # p
  <2>1. /\ ticks' = ticks /\ age' = age /\ waited' = waited /\ fds' = fds
        /\ tick_count' = tick_count /\ phase' = phase
    BY DEF Inside, NapEnd, NapLoop, NapDoze, PollScan, PollReady, PollCheck,
           PollTimeout, PollGoOn, PollChannel, PollBlock
  <2>2. /\ pc \in [Proc -> Points] /\ state \in [Proc -> {"RUNNABLE", "BLOCKED", "SLEEPING"}]
        /\ result \in [Proc -> {"none", "elapsed", "ready", "eintr"}]
        /\ sleep_until \in [Proc -> 0..(Range32 - 1)]
    BY DEF TypeOK
  <2>3. pc'[q] = pc[q]
    BY <1>1, <2>2 DEF Inside, NapEnd, NapLoop, NapDoze, PollScan, PollReady,
          PollCheck, PollTimeout, PollGoOn, PollChannel, PollBlock, Return, Goto
  <2>4. state'[q] = state[q]
    BY <1>1, <2>2 DEF Inside, NapEnd, NapLoop, NapDoze, PollScan, PollReady,
          PollCheck, PollTimeout, PollGoOn, PollChannel, PollBlock, Return, Goto
  <2>5. result'[q] = result[q]
    BY <1>1, <2>2 DEF Inside, NapEnd, NapLoop, NapDoze, PollScan, PollReady,
          PollCheck, PollTimeout, PollGoOn, PollChannel, PollBlock, Return, Goto
  <2>6. sleep_until'[q] = sleep_until[q]
    BY <1>1, <2>2 DEF Inside, NapEnd, NapLoop, NapDoze, PollScan, PollReady,
          PollCheck, PollTimeout, PollGoOn, PollChannel, PollBlock, Return, Goto
  <2> QED
    BY <2>1, <2>3, <2>4, <2>5, <2>6, Unmoved DEF SameCall
<1>2. CASE q = p
  <2> USE <1>2
  <2>0. InCall(p) /\ OnTime(p)
    BY DEF CallInv
  <2>1. CASE NapEnd(p)
    <3>1. pc[p] = "nap" /\ state'[p] = "RUNNABLE" /\ ticks[p] # NULL
      BY <2>0, <2>1 DEF NapEnd, At, InCall
    <3> QED
      BY <2>1, <3>1, Finished DEF NapEnd
  <2>2. CASE NapLoop(p)
    <3>1. /\ pc[p] = "nap" /\ pc'[p] = "doze" /\ state'[p] = "RUNNABLE" /\ SameCall(p)
          /\ result' = result /\ fds' = fds /\ ~Expired(p)
      BY <2>2 DEF NapLoop, At, Goto, TypeOK, SameCall
    <3>2. InCall(p)'
      BY <2>0, <3>1 DEF InCall, SameCall
    <3>3. (Timed(p)' => Timed(p)) /\ (Served(p)' => Served(p))
      BY <3>1 DEF Timed, Served, SameCall
    <3>4. Counted(p) /\ Served(p) => age[p] <= Latest(p)
      BY <3>1, NotLate
    <3> QED
      BY <3>1, <3>2, <3>3, <3>4, Moved
  <2>3. CASE NapDoze(p)
    <3>1. /\ pc[p] = "doze" /\ pc'[p] = "nap" /\ state'[p] = "SLEEPING" /\ SameCall(p)
          /\ result' = result /\ fds' = fds
      BY <2>3 DEF NapDoze, At, Goto, TypeOK, SameCall
    <3>2. InCall(p)'
      BY <2>0, <3>1 DEF InCall, SameCall
    <3>3. (Timed(p)' => Timed(p)) /\ (Served(p)' => Served(p))
      BY <3>1 DEF Timed, Served, SameCall
    <3>4. Counted(p) /\ Served(p) => age[p] <= Latest(p) + phase
      <4> SUFFICES ASSUME Counted(p), Served(p) PROVE age[p] <= Latest(p) + phase
        OBVIOUS
      <4>1. age[p] <= Latest(p)
        BY <2>0, <3>1 DEF OnTime
      <4>2. age[p] \in Nat /\ Latest(p) \in Int /\ Sub \in Nat /\ phase \in 0..(Sub - 1)
        BY <2>0, Bounds DEF Counted
      <4> QED
        BY <4>1, <4>2
    <3> QED
      BY <3>1, <3>2, <3>3, <3>4, Moved
  <2>4. CASE PollScan(p)
    <3>1. /\ pc' = pc /\ state' = state /\ result' = result /\ fds' = fds /\ SameCall(p)
      BY <2>4 DEF PollScan, SameCall
    <3> QED
      BY <3>1, Unmoved
  <2>5. CASE PollReady(p)
    <3>1. pc[p] = "scan" /\ state'[p] = "RUNNABLE"
      BY <2>5 DEF PollReady, PollScanned, At
    <3> QED
      BY <2>5, <3>1, Finished DEF PollReady
  <2>6. CASE PollCheck(p)
    <3>1. /\ pc[p] = "scan" /\ pc'[p] = "check" /\ state'[p] = "RUNNABLE" /\ SameCall(p)
          /\ result' = result /\ fds' = fds
      BY <2>6 DEF PollCheck, PollScanned, At, Goto, TypeOK, SameCall
    <3>2. InCall(p)'
      BY <2>0, <3>1 DEF InCall, SameCall
    <3>3. (Timed(p)' => Timed(p)) /\ (Served(p)' => Served(p))
      BY <3>1 DEF Timed, Served, SameCall
    <3> QED
      BY <3>1, <3>2, <3>3, Moved
  <2>7. CASE PollTimeout(p)
    <3>1. pc[p] = "check" /\ state'[p] = "RUNNABLE"
      BY <2>7 DEF PollTimeout, At
    <3> QED
      BY <2>7, <3>1, Finished DEF PollTimeout
  <2>8. CASE PollGoOn(p)
    <3>1. pc[p] = "check" /\ state'[p] = "RUNNABLE"
      BY <2>8 DEF PollGoOn, At
    <3>2. CASE Return(p, "eintr")
      BY <2>8, <3>1, <3>2, Finished DEF PollGoOn
    <3>3. CASE Goto(p, "channel") /\ UNCHANGED <<sleep_until, result>>
      <4>1. pc'[p] = "channel" /\ SameCall(p) /\ result' = result /\ fds' = fds
        BY <2>8, <3>3 DEF PollGoOn, Goto, TypeOK, SameCall
      <4>2. InCall(p)'
        BY <2>0, <3>1, <4>1 DEF InCall, SameCall
      <4>3. (Timed(p)' => Timed(p)) /\ (Served(p)' => Served(p))
        BY <3>1, <4>1 DEF Timed, Served, SameCall
      <4>4. Counted(p) => ~Expired(p)
        BY <2>8 DEF PollGoOn, Counted, Timed
      <4>5. Counted(p) /\ Served(p) => age[p] <= Latest(p)
        BY <4>4, NotLate
      <4> QED
        BY <3>1, <4>1, <4>2, <4>3, <4>5, Moved
    <3> QED
      BY <2>8, <3>2, <3>3 DEF PollGoOn
  <2>9. CASE PollChannel(p)
    <3>1. /\ pc[p] = "channel" /\ pc'[p] = "block" /\ state'[p] = "RUNNABLE" /\ SameCall(p)
          /\ result' = result /\ fds' = fds
      BY <2>9 DEF PollChannel, At, Goto, TypeOK, SameCall
    <3>2. InCall(p)'
      BY <2>0, <3>1 DEF InCall, SameCall
    <3>3. (Timed(p)' => Timed(p)) /\ (Served(p)' => Served(p))
      BY <3>1 DEF Timed, Served, SameCall
    <3>4. Counted(p) /\ Served(p) => age[p] <= Latest(p)
      BY <2>0, <3>1 DEF OnTime
    <3> QED
      BY <3>1, <3>2, <3>3, <3>4, Moved
  <2>10. CASE PollBlock(p)
    <3>1. /\ pc[p] = "block" /\ pc'[p] = "scan" /\ state'[p] = "BLOCKED" /\ SameCall(p)
          /\ result' = result /\ fds' = fds
      BY <2>10 DEF PollBlock, At, Goto, TypeOK, SameCall
    <3>2. InCall(p)'
      BY <2>0, <3>1 DEF InCall, SameCall
    <3>3. (Timed(p)' => Timed(p)) /\ (Served(p)' => Served(p))
      BY <3>1 DEF Timed, Served, SameCall
    <3>4. Counted(p) /\ Served(p) => age[p] <= Latest(p) + phase
      <4> SUFFICES ASSUME Counted(p), Served(p) PROVE age[p] <= Latest(p) + phase
        OBVIOUS
      <4>1. age[p] <= Latest(p)
        BY <2>0, <3>1 DEF OnTime
      <4>2. age[p] \in Nat /\ Latest(p) \in Int /\ Sub \in Nat /\ phase \in 0..(Sub - 1)
        BY <2>0, Bounds DEF Counted
      <4> QED
        BY <4>1, <4>2
    <3> QED
      BY <3>1, <3>2, <3>3, <3>4, Moved
  <2> QED
    BY <2>1, <2>2, <2>3, <2>4, <2>5, <2>6, <2>7, <2>8, <2>9, <2>10 DEF Inside
<1> QED
  BY <1>1, <1>2

\* p wakes up, and nothing else of its call changes.
LEMMA Woken ==
    ASSUME NEW p \in Proc, CallInv(p), SameCall(p), result'[p] = result[p],
           pc'[p] = pc[p], fds'[p] = fds[p], state'[p] \in {state[p], "RUNNABLE"}
    PROVE  CallInv(p)'
<1>1. InCall(p)'
  BY DEF CallInv, InCall, SameCall
<1>2. Timed(p)' = Timed(p) /\ Served(p)' = Served(p)
  BY DEF Timed, Served, SameCall
<1>3. Counted(p) /\ Served(p) =>
        /\ pc'[p] \in {"doze", "channel", "block"} => age[p] <= Latest(p)
        /\ state'[p] # "RUNNABLE" => age[p] <= Latest(p) + phase
  BY DEF CallInv, OnTime
<1> QED
  BY <1>1, <1>2, <1>3, Moved

\* The calls of other processes are not touched by the start of one.
LEMMA BegunOther ==
    ASSUME TypeOK, NEW p \in Proc, NEW q \in Proc, q # p, NEW n, NEW point,
           Begin(p, n, point), UNCHANGED <<tick_count, phase>>
    PROVE  SameCall(q) /\ pc'[q] = pc[q] /\ result'[q] = result[q]
BY DEF Begin, Goto, TypeOK, SameCall

LEMMA CallStep ==
    ASSUME TypeOK, TypeOK', \A p \in Proc : CallInv(p), Next, NEW q \in Proc
    PROVE  CallInv(q)'
<1> USE DEF clock, pcb, request
<1>1. CASE \E p \in Proc : Inside(p)
  BY <1>1, InsideStep
<1>2. ASSUME NEW p \in Proc, Kill(p) PROVE CallInv(q)'
  <2>1. state'[q] \in {state[q], "RUNNABLE"}
    BY <1>2 DEF Kill, TypeOK
  <2> QED
    BY <1>2, <2>1, Woken DEF Kill, SameCall
<1>3. ASSUME NEW p \in Proc, SignalTaken(p) PROVE CallInv(q)'
  BY <1>3, Unmoved DEF SignalTaken, SameCall
<1>4. ASSUME NEW p \in Proc, NEW t \in Tty, ReadEnd(p, t) PROVE CallInv(q)'
  <2>1. SameCall(q) /\ result' = result /\ fds' = fds /\ state' = state
    BY <1>4 DEF ReadEnd, SameCall
  <2>2. CASE q # p
    <3>1. pc'[q] = pc[q]
      BY <1>4, <2>2 DEF ReadEnd, Goto, TypeOK
    <3> QED
      BY <2>1, <3>1, Unmoved
  <2>3. CASE q = p
    <3>1. pc[q] = "read" /\ pc'[q] = "user" /\ state[q] = "RUNNABLE"
      BY <1>4, <2>3 DEF ReadEnd, At, Goto, TypeOK
    <3>2. InCall(q)'
      BY <2>1, <3>1 DEF CallInv, InCall, SameCall
    <3>3. ~Timed(q)' /\ (Served(q)' => Served(q))
      BY <2>1, <3>1 DEF Timed, Served, SameCall
    <3> QED
      BY <2>1, <3>1, <3>2, <3>3, Moved
  <2> QED
    BY <2>2, <2>3
<1>5. ASSUME NEW p \in Proc, NEW d \in Durations, NapCall(p, d) PROVE CallInv(q)'
  <2>1. CASE q # p
    <3>1. SameCall(q) /\ pc'[q] = pc[q] /\ result'[q] = result[q]
      BY <1>5, <2>1, BegunOther DEF NapCall
    <3> QED
      BY <1>5, <3>1, Unmoved DEF NapCall
  <2>2. CASE q = p
    <3>1. /\ Begin(p, NapTicks(d), "nap") /\ state'[q] = "RUNNABLE"
          /\ tick_count' = tick_count /\ phase' = phase
      BY <1>5, <2>2 DEF NapCall, At
    <3>2. pc'[q] = "nap" /\ ticks'[q] = NapTicks(d) /\ result'[q] = "none"
      BY <2>2, <3>1 DEF Begin, Goto, TypeOK
    <3>3. NapTicks(d) \notin {NULL, 0}
      BY TicksFit, PollAssumption, RangeAssumption
    <3>4. InCall(q)'
      BY <3>1, <3>2, <3>3 DEF InCall
    <3> QED
      BY <2>2, <3>1, <3>4, Begun
  <2> QED
    BY <2>1, <2>2
<1>6. ASSUME NEW p \in Proc, NEW s \in PollSets, NEW d \in Durations \cup {NULL},
             PollCall(p, s, d)
      PROVE  CallInv(q)'
  <2>0. PICK n : Begin(p, n, "scan")
    BY <1>6 DEF PollCall
  <2>1. CASE q # p
    <3>1. SameCall(q) /\ pc'[q] = pc[q] /\ result'[q] = result[q]
      BY <1>6, <2>0, <2>1, BegunOther DEF PollCall
    <3>2. fds'[q] = fds[q] /\ state' = state
      BY <1>6, <2>1 DEF PollCall, TypeOK
    <3> QED
      BY <3>1, <3>2, Unmoved
  <2>2. CASE q = p
    <3>1. /\ Begin(p, n, "scan") /\ state'[q] = "RUNNABLE" /\ fds'[q] = s
          /\ tick_count' = tick_count /\ phase' = phase
      BY <1>6, <2>0, <2>2 DEF PollCall, At, TypeOK
    <3>2. pc'[q] = "scan" /\ ticks'[q] = n /\ result'[q] = "none"
      BY <2>2, <3>1 DEF Begin, Goto, TypeOK
    <3>4. s # << >>
      BY PollAssumption
    <3>5. InCall(q)'
      BY <3>1, <3>2, <3>4 DEF InCall
    <3> QED
      BY <2>2, <3>1, <3>5, Begun
  <2> QED
    BY <2>1, <2>2
<1>7. ASSUME NEW p \in Readers, NEW t \in Tty, ReadCall(p, t) PROVE CallInv(q)'
  <2>0. p \in Proc
    BY PollAssumption
  <2>1. waited[q] => waited'[q]
    BY <1>7, Zenon DEF ReadCall
  <2>2. SameCall(q) /\ result' = result /\ fds' = fds /\ state' = state
    BY <1>7, <2>1 DEF ReadCall, SameCall
  <2>3. CASE q # p
    <3>1. pc'[q] = pc[q]
      BY <1>7, <2>3 DEF ReadCall, Goto, TypeOK
    <3> QED
      BY <2>2, <3>1, Unmoved
  <2>4. CASE q = p
    <3>1. pc[q] = "user" /\ pc'[q] = "read" /\ state[q] = "RUNNABLE"
      BY <1>7, <2>4 DEF ReadCall, At, Goto, TypeOK
    <3>2. InCall(q)'
      BY <2>2, <3>1 DEF CallInv, InCall, SameCall
    <3>3. ~Timed(q)' /\ (Served(q)' => Served(q))
      BY <2>2, <3>1 DEF Timed, Served, SameCall
    <3> QED
      BY <2>2, <3>1, <3>2, <3>3, Moved
  <2> QED
    BY <2>3, <2>4
<1>8. ASSUME NEW t \in Tty, Arrive(t) PROVE CallInv(q)'
  BY <1>8, Unmoved DEF Arrive, SameCall
<1>9. ASSUME NEW t \in Tty, RxNotify(t) PROVE CallInv(q)'
  <2>1. state'[q] \in {state[q], "RUNNABLE"}
    BY <1>9 DEF RxNotify
  <2> QED
    BY <1>9, <2>1, Woken DEF RxNotify, SameCall
<1>10. CASE Unit
  BY <1>10, UnitStep
<1>11. CASE TimerTick
  BY <1>11, TickStep
<1> QED
  BY <1>1, <1>2, <1>3, <1>4, <1>5, <1>6, <1>7, <1>8, <1>9, <1>10, <1>11, PollAssumption
     DEF Next

-----------------------------------------------------------------------------
(* Theorems *)

LEMMA Initially == Init => IInv
<1> SUFFICES ASSUME Init PROVE IInv
  OBVIOUS
<1>0. 0 \in 0..(Range32 - 1) /\ 0 \in 0..(Sub - 1) /\ Len(<< >>) = 0
  BY CounterAssumption, RangeAssumption
<1>1. TypeOK
  BY <1>0 DEF Init, TypeOK, Points
<1>2. ASSUME NEW p \in Proc PROVE CallInv(p)
  BY DEF Init, CallInv, InCall, Elapsing, OnTime, Returned, Counted, Timed
<1> QED
  BY <1>1, <1>2 DEF IInv

LEMMA Inductive == IInv /\ [Next]_vars => IInv'
<1> SUFFICES ASSUME IInv, [Next]_vars PROVE IInv'
  OBVIOUS
<1>1. TypeOK /\ \A p \in Proc : CallInv(p)
  BY DEF IInv
<1>2. CASE Next
  <2>1. TypeOK'
    BY <1>1, <1>2, TypeStep
  <2>2. ASSUME NEW q \in Proc PROVE CallInv(q)'
    BY <1>1, <1>2, <2>1, CallStep
  <2> QED
    BY <2>1, <2>2 DEF IInv
<1>3. CASE UNCHANGED vars
  <2>1. TypeOK'
    BY <1>1, <1>3 DEF vars, TypeOK
  <2>2. ASSUME NEW q \in Proc PROVE CallInv(q)'
    BY <1>1, <1>3, Unmoved DEF vars, SameCall
  <2> QED
    BY <2>1, <2>2 DEF IInv
<1> QED
  BY <1>2, <1>3

\* The invariant holds throughout.
THEOREM Invariant == Spec => []IInv
BY Initially, Inductive, PTL DEF Spec

\* The counter, the deadlines and the lengths of timeouts stay within their
\* fields, and a poll stays within the files it was given (sys_poll).
THEOREM TypeCorrect == Spec => []TypeOK
<1>1. IInv => TypeOK
  BY DEF IInv
<1> QED
  BY <1>1, Invariant, PTL

\* nanosleep and poll report the end of their time only when all the ticks they
\* were asked for, but the one they started in, are over, for any width of the
\* counter and wherever it wraps during the call: the signed difference in
\* sys_nanosleep and do_ppoll is right for every duration that the conversion to
\* ticks keeps and that is below half the range.
THEOREM NeverEarly == Spec => []NoEarlyReturn
<1>1. ASSUME IInv, NEW p \in Proc, ticks[p] # NULL, asked[p] # NULL,
             asked[p] <= ticks[p], ticks[p] < Range32 \div 2, result[p] = "elapsed", ~waited[p]
      PROVE  age[p] > (asked[p] - 1) * Sub
  <2>1. /\ ticks[p] \in Nat /\ asked[p] \in Nat /\ age[p] \in Nat
        /\ Sub \in Nat /\ Sub > 0
    BY <1>1, CounterAssumption, RangeAssumption DEF IInv, TypeOK
  <2>2. CASE ticks[p] = 0
    <3>1. asked[p] = 0
      BY <1>1, <2>1, <2>2
    <3>2. (0 - 1) * Sub = (0 * Sub) - Sub /\ 0 * Sub = 0
      BY <2>1, MulNext
    <3> QED
      BY <2>1, <3>1, <3>2
  <2>3. CASE ticks[p] # 0
    <3>1. age[p] > (ticks[p] - 1) * Sub
      BY <1>1, <2>3 DEF IInv, CallInv, Returned, InRange
    <3>2. asked[p] - 1 \in Int /\ ticks[p] - 1 \in Int /\ asked[p] - 1 <= ticks[p] - 1
      BY <1>1, <2>1
    <3>3. (asked[p] - 1) * Sub <= (ticks[p] - 1) * Sub
      BY <2>1, <3>2, MulMono
    <3>4. (asked[p] - 1) * Sub \in Int /\ (ticks[p] - 1) * Sub \in Int
      BY <2>1, <3>2, MulNext
    <3> QED
      BY <2>1, <3>1, <3>3, <3>4
  <2> QED
    BY <2>2, <2>3
<1>2. IInv => NoEarlyReturn
  BY <1>1 DEF NoEarlyReturn, LastedAsked
<1> QED
  BY <1>2, Invariant, PTL

\* sched_tick lets no process sleep past its deadline by more than the lag with
\* which it fell asleep and one tick, also when the deadline passed between the
\* check in nanosleep or poll and the sleep.
THEOREM NeverOverslept == Spec => []OversleepBounded
<1>1. ASSUME IInv PROVE OversleepBounded
  <2> SUFFICES ASSUME NEW p \in Proc, Timed(p), ~waited[p],
                      state[p] = "SLEEPING" \/ (state[p] = "BLOCKED" /\ sleep_until[p] # 0)
               PROVE  age[p] <= Latest(p) + Sub
    BY DEF OversleepBounded
  <2>1. InCall(p) /\ OnTime(p)
    BY <1>1 DEF IInv, CallInv
  <2>2. Counted(p) /\ Served(p)
    BY <2>1 DEF Counted, Served, InCall
  <2> QED
    BY <2>1, <2>2 DEF OnTime
<1> QED
  BY <1>1, Invariant, PTL
=============================================================================
