----------------------------- MODULE PipeProofs -----------------------------
(***************************************************************************)
(* Safety of the pipe and its refinement of the byte channel, for any      *)
(* number of processes, any size of the ring and any requests.             *)
(***************************************************************************)
EXTENDS Pipe, SequenceTheorems, TLAPS

-----------------------------------------------------------------------------
(* The inductive invariant *)

\* file.lock is held exactly from kmutex_lock to kmutex_unlock of the call.
LockHeld == \A p \in Proc, e \in End :
              flock[e] = p <=> /\ pc[p] \in {"body", "sleep", "wake", "unlock"}
                               /\ op[p] = e

\* SPIN_PIPE is held across steps only on the way to sleep.
SpinHeld == \A p \in Proc : spin = p <=> pc[p] = "sleep"

\* The only sleep is the one in the loop of pipe_read and pipe_write.
AsleepInBody == \A p \in Proc : state[p] = "BLOCKED" => pc[p] = "body"

\* A call in progress names an end its process has open and asks for bytes.
CallHasEnd ==
    \A p \in Proc :
        /\ pc[p] \in {"flock", "body", "sleep", "wake", "unlock"} => op[p] \in open[p]
        /\ pc[p] \in {"flock", "body", "sleep"} => chunk[p] > 0

\* What was seen before the sleep still holds: SPIN_PIPE is not released.
SleepJustified ==
    \A p \in Proc : pc[p] = "sleep" =>
        /\ \/ op[p] = "r" /\ Used = 0 /\ writers # 0
           \/ op[p] = "w" /\ Space = 0 /\ readers # 0
        /\ cores = 1 => ~sig[p]

\* pipe_close runs once for an end, after its last descriptor is gone.
ClosedOnce ==
    \A p \in Proc : pc[p] = "close" =>
        /\ ~HasOpen(op[p])
        /\ \A q \in Proc \ {p} : pc[q] = "close" => op[q] # op[p]

\* The counts, with the one way they go wrong: a read end closed while it has
\* O_NONBLOCK is taken off the writers.
Counts ==
    in_use => \/ /\ readers = (IF Counted("r") THEN 1 ELSE 0)
                 /\ writers = (IF Counted("w") THEN 1 ELSE 0)
                 /\ ~Miscounted
              \/ /\ Miscounted /\ readers = 1
                 /\ writers = (IF Counted("w") THEN 0 ELSE 255)

NonblockSet == \A e \in End : nonblock[e] => e \in SetFlEnds

\* The slot is in use while an end is counted, and is given back by the one
\* process whose close took the last count.
Freeing(p) == pc[p] \in {"close_wake_free", "free"}
SlotUse ==
    /\ \A e \in End : Counted(e) => in_use
    /\ \A p \in Proc : Freeing(p) => /\ in_use /\ readers = 0 /\ writers = 0
                                     /\ \A q \in Proc \ {p} : ~Freeing(q)
    /\ in_use /\ readers = 0 /\ writers = 0 => \E p \in Proc : Freeing(p)

\* What was received, followed by what is in the ring, is 1, 2, ..., sent.
Wrapped(a) == a % Size
InRing(k) == buf[Wrapped(tail + k)]
RingInv ==
    /\ sent = Len(received) + Used
    /\ \A i \in 1..Len(received) : received[i] = i
    /\ \A k \in 0..(Used - 1) : InRing(k) = Len(received) + k + 1

Control == /\ LockHeld /\ SpinHeld /\ AsleepInBody /\ CallHasEnd /\ SleepJustified
           /\ ClosedOnce /\ Counts /\ NonblockSet /\ SlotUse
           /\ NoLostWakeup /\ SignalEndsSleep

IInv == TypeOK /\ Control /\ RingInv

-----------------------------------------------------------------------------
(* The ring: arithmetic modulo its size *)

LEMMA Wrap ==
  ASSUME NEW a \in Nat, a < 2 * Size
  PROVE  Wrapped(a) = IF a < Size THEN a ELSE a - Size
  BY SizeAssumption DEF Wrapped

\* pipe_used and pipe_space are between 0 and Size - 1 and add up to that.
LEMMA UsedRange ==
  ASSUME TypeOK
  PROVE  /\ Used = IF head < tail THEN Size + head - tail ELSE head - tail
         /\ Used \in 0..(Size - 1)
         /\ Space \in 0..(Size - 1)
<1>1. /\ head \in 0..(Size - 1) /\ tail \in 0..(Size - 1) /\ Size \in Nat
  BY SizeAssumption DEF TypeOK
<1>2. Size + head - tail \in Nat /\ Size + head - tail < 2 * Size
  BY <1>1
<1>3. Used = IF head < tail THEN Size + head - tail ELSE head - tail
  BY <1>1, <1>2, Wrap DEF Used, Wrapped
<1> QED BY <1>1, <1>3 DEF Space

\* The place of the k-th byte in the ring.
LEMMA InRingAt ==
  ASSUME TypeOK, NEW k \in 0..(Size - 1)
  PROVE  /\ InRing(k) = buf[IF tail + k < Size THEN tail + k ELSE tail + k - Size]
         /\ (IF tail + k < Size THEN tail + k ELSE tail + k - Size) \in 0..(Size - 1)
<1>1. /\ tail \in 0..(Size - 1) /\ Size \in Nat
  BY SizeAssumption DEF TypeOK
<1>2. Wrapped(tail + k) = IF tail + k < Size THEN tail + k ELSE tail + k - Size
  BY <1>1, Wrap
<1> QED BY <1>1, <1>2 DEF InRing

\* A transfer is of at least one byte, and of no more than there is or fits.
LEMMA BatchRange ==
  ASSUME TypeOK, NEW p \in Proc, chunk[p] > 0,
         IF op[p] = "r" THEN Used > 0 ELSE Space > 0
  PROVE  /\ Batch(p) \in 1..(IF op[p] = "r" THEN Used ELSE Space)
         /\ Batch(p) <= chunk[p]
<1>1. Used \in Nat /\ Space \in Nat
  BY UsedRange, SizeAssumption
<1>2. chunk[p] \in Nat
  BY DEF TypeOK
<1> QED BY <1>1, <1>2 DEF Batch, Lesser

\* pipe_read's batch: the bytes behind it move to the front.
LEMMA RingTakes ==
  ASSUME TypeOK, NEW B \in 1..Used,
         tail' = Wrapped(tail + B), UNCHANGED <<buf, head>>
  PROVE  /\ tail' \in 0..(Size - 1)
         /\ Used' = Used - B
         /\ \A k \in 0..(Used' - 1) : InRing(k)' = InRing(k + B)
<1>1. /\ tail \in 0..(Size - 1) /\ head \in 0..(Size - 1) /\ Size \in Nat /\ Size > 1
  BY SizeAssumption DEF TypeOK
<1>2. /\ Used = IF head < tail THEN Size + head - tail ELSE head - tail
      /\ Used \in 0..(Size - 1) /\ B \in 1..(Size - 1)
  BY <1>1, UsedRange
<1>3. tail' = (IF tail + B < Size THEN tail + B ELSE tail + B - Size)
      /\ tail' \in 0..(Size - 1)
  <2>1. tail + B \in Nat /\ tail + B < 2 * Size
    BY <1>1, <1>2
  <2> QED BY <1>1, <1>2, <2>1, Wrap
<1>4. Used' = Used - B
  <2>1. Size + head' - tail' \in Nat /\ Size + head' - tail' < 2 * Size
    BY <1>1, <1>3
  <2>2. Used' = IF head < tail' THEN Size + head - tail' ELSE head - tail'
    BY <1>1, <1>3, <2>1, Wrap DEF Used, Wrapped
  <2> QED BY <1>1, <1>2, <1>3, <2>2
<1>5. ASSUME NEW k \in 0..(Used' - 1) PROVE InRing(k)' = InRing(k + B)
  <2>1. k \in Nat /\ k + B \in 0..(Used - 1)
    BY <1>1, <1>2, <1>4
  <2>2. /\ tail + (k + B) \in Nat /\ tail + (k + B) < 2 * Size
        /\ tail' + k \in Nat /\ tail' + k < 2 * Size
    BY <1>1, <1>2, <1>3, <2>1
  <2>3. Wrapped(tail + (k + B)) = IF tail + (k + B) < Size THEN tail + (k + B)
                                                         ELSE tail + (k + B) - Size
    BY <1>1, <2>2, Wrap
  <2>4. Wrapped(tail' + k) = IF tail' + k < Size THEN tail' + k ELSE tail' + k - Size
    BY <1>1, <2>2, Wrap
  <2>5. Wrapped(tail' + k) = Wrapped(tail + (k + B))
    BY <1>1, <1>2, <1>3, <2>1, <2>3, <2>4
  <2>6. Wrapped(tail + k)' = Wrapped(tail' + k)
    BY DEF Wrapped
  <2> QED BY <2>5, <2>6 DEF InRing
<1> QED BY <1>3, <1>4, <1>5

\* pipe_write's batch goes behind what is in the ring and overwrites none of it.
LEMMA RingPuts ==
  ASSUME TypeOK, NEW B \in 1..Space,
         buf' = [i \in 0..(Size - 1) |->
                   IF Wrapped(Size + i - head) < B
                   THEN sent + Wrapped(Size + i - head) + 1 ELSE buf[i]],
         head' = Wrapped(head + B), UNCHANGED tail
  PROVE  /\ head' \in 0..(Size - 1) /\ buf' \in [0..(Size - 1) -> Nat]
         /\ Used' = Used + B
         /\ \A k \in 0..(Used - 1) : InRing(k)' = InRing(k)
         /\ \A k \in Used..(Used' - 1) : InRing(k)' = sent + (k - Used) + 1
<1>1. /\ tail \in 0..(Size - 1) /\ head \in 0..(Size - 1) /\ Size \in Nat /\ Size > 1
      /\ sent \in Nat /\ buf \in [0..(Size - 1) -> Nat]
  BY SizeAssumption DEF TypeOK
<1>2. /\ Used = IF head < tail THEN Size + head - tail ELSE head - tail
      /\ Used \in 0..(Size - 1) /\ Space = Size - 1 - Used /\ B \in 1..(Size - 1)
      /\ Used + B \in 1..(Size - 1)
  <2>1. /\ Used = IF head < tail THEN Size + head - tail ELSE head - tail
        /\ Used \in 0..(Size - 1) /\ Space = Size - 1 - Used
    BY UsedRange DEF Space
  <2> QED BY <1>1, <2>1
<1> DEFINE dist(i) == IF i < head THEN Size + i - head ELSE i - head
<1>3. ASSUME NEW i \in 0..(Size - 1)
      PROVE  Wrapped(Size + i - head) = dist(i) /\ dist(i) \in Nat
  <2>1. Size + i - head \in Nat /\ Size + i - head < 2 * Size
    BY <1>1
  <2> QED BY <1>1, <2>1, Wrap
<1>4. \A i \in 0..(Size - 1) : buf'[i] = IF dist(i) < B THEN sent + dist(i) + 1 ELSE buf[i]
  BY <1>3
<1>5. buf' \in [0..(Size - 1) -> Nat]
  <2>1. ASSUME NEW i \in 0..(Size - 1) PROVE buf'[i] \in Nat
    <3>1. buf[i] \in Nat /\ sent + dist(i) + 1 \in Nat
      BY <1>1, <1>3
    <3>2. buf'[i] = IF dist(i) < B THEN sent + dist(i) + 1 ELSE buf[i]
      BY <1>4
    <3> QED BY <3>1, <3>2
  <2> QED BY <2>1
<1>6. head' = (IF head + B < Size THEN head + B ELSE head + B - Size)
      /\ head' \in 0..(Size - 1)
  <2>1. head + B \in Nat /\ head + B < 2 * Size
    BY <1>1, <1>2
  <2> QED BY <1>1, <1>2, <2>1, Wrap
<1>7. Used' = Used + B
  <2>1. Size + head' - tail' \in Nat /\ Size + head' - tail' < 2 * Size
    BY SMTT(60), <1>1, <1>6
  <2>2. Used' = IF head' < tail THEN Size + head' - tail ELSE head' - tail
    BY <1>1, <1>6, <2>1, Wrap DEF Used, Wrapped
  <2>3. CASE head + B < Size
    BY <1>1, <1>2, <1>6, <2>2, <2>3
  <2>4. CASE head + B >= Size
    <3>1. ~(head < tail) /\ head' < tail
      BY <1>1, <1>2, <1>6, <2>4
    <3> QED BY <1>1, <1>2, <1>6, <2>2, <2>4, <3>1
  <2> QED BY <1>1, <1>2, <2>3, <2>4
<1>8. ASSUME NEW k \in 0..(Used' - 1)
      PROVE  InRing(k)' = IF k < Used THEN InRing(k) ELSE sent + (k - Used) + 1
  <2> DEFINE i == IF tail + k < Size THEN tail + k ELSE tail + k - Size
  <2>1. k \in 0..(Size - 1) /\ i \in 0..(Size - 1) /\ k < Used + B
    BY <1>1, <1>2, <1>7
  <2>2. Wrapped(tail + k) = i
    <3>1. tail + k \in Nat /\ tail + k < 2 * Size
      BY <1>1, <2>1
    <3> QED BY <1>1, <3>1, Wrap
  <2>3. InRing(k)' = buf'[i] /\ InRing(k) = buf[i]
    BY <2>2 DEF InRing, Wrapped
  <2>4. CASE k < Used
    <3>1. dist(i) >= B
      BY <1>1, <1>2, <2>1, <2>4
    <3> HIDE DEF dist, i
    <3> QED BY <1>2, <1>3, <1>4, <2>1, <2>3, <2>4, <3>1
  <2>5. CASE k >= Used
    <3>1. dist(i) = k - Used /\ dist(i) < B
      BY SMTT(60), <1>1, <1>2, <2>1, <2>5
    <3> HIDE DEF dist, i
    <3> QED BY <1>2, <1>4, <2>1, <2>3, <2>5, <3>1
  <2> QED BY <1>2, <2>1, <2>4, <2>5
<1>9. \A k \in 0..(Used - 1) : InRing(k)' = InRing(k)
  BY <1>2, <1>7, <1>8
<1>10. \A k \in Used..(Used' - 1) : InRing(k)' = sent + (k - Used) + 1
  BY <1>2, <1>7, <1>8
<1> QED BY <1>5, <1>6, <1>7, <1>9, <1>10

\* A read takes the next numbers and leaves the rest in the ring.
LEMMA ReadMoves ==
  ASSUME TypeOK, RingInv, NEW p \in Proc, chunk[p] > 0, ReadData(p)
  PROVE  /\ Batch(p) \in 1..Used /\ Used' = Used - Batch(p)
         /\ received' = received \o [i \in 1..Batch(p) |-> Len(received) + i]
         /\ tail' \in 0..(Size - 1) /\ received' \in Seq(Nat) /\ RingInv'
<1> DEFINE B == Batch(p)
           piece == [i \in 1..B |-> Len(received) + i]
<1>1. B \in 1..Used /\ Used \in Nat
  <2>1. Used > 0 /\ op[p] = "r"
    BY DEF ReadData, InBody
  <2> QED BY <2>1, BatchRange, UsedRange, SizeAssumption
<1>2. /\ received' = received \o [i \in 1..B |-> buf[(tail + i - 1) % Size]]
      /\ tail' = Wrapped(tail + B) /\ UNCHANGED <<buf, head, sent>>
  BY DEF ReadData, Wrapped
<1>3. received \in Seq(Nat) /\ Len(received) \in Nat /\ tail \in Nat
  BY SizeAssumption DEF TypeOK
<1> HIDE DEF B
<1>4. /\ tail' \in 0..(Size - 1) /\ Used' = Used - B
      /\ \A k \in 0..(Used' - 1) : InRing(k)' = InRing(k + B)
  BY <1>1, <1>2, RingTakes
<1>5. \A i \in 1..B : buf[(tail + i - 1) % Size] = Len(received) + i
  <2> SUFFICES ASSUME NEW i \in 1..B
               PROVE  buf[(tail + i - 1) % Size] = Len(received) + i
    OBVIOUS
  <2>1. i - 1 \in 0..(Used - 1) /\ tail + i - 1 = tail + (i - 1)
    BY <1>1, <1>3
  <2>2. InRing(i - 1) = Len(received) + (i - 1) + 1
    BY <2>1 DEF RingInv
  <2>3. buf[(tail + i - 1) % Size] = InRing(i - 1)
    BY <2>1 DEF InRing, Wrapped
  <2> QED BY <1>1, <1>3, <2>1, <2>2, <2>3
<1>6. received' = received \o piece
  BY <1>2, <1>5
<1>7. piece \in Seq(Nat) /\ Len(piece) = B /\ \A i \in 1..B : piece[i] = Len(received) + i
  BY <1>1, <1>3
<1> HIDE DEF piece
<1>8. /\ received' \in Seq(Nat) /\ Len(received') = Len(received) + B
      /\ \A i \in 1..(Len(received) + B) :
           received'[i] = IF i <= Len(received) THEN received[i]
                          ELSE piece[i - Len(received)]
  BY <1>3, <1>6, <1>7, ConcatProperties
<1>9. ASSUME NEW i \in 1..Len(received') PROVE received'[i] = i
  <2>1. CASE i <= Len(received)
    <3>1. received'[i] = received[i]
      BY <1>1, <1>3, <1>8, <2>1
    <3>2. \A j \in 1..Len(received) : received[j] = j
      BY DEF RingInv
    <3>3. i \in 1..Len(received)
      BY <1>1, <1>3, <1>8, <2>1
    <3> QED BY <3>1, <3>2, <3>3
  <2>2. CASE i > Len(received)
    <3>1. i - Len(received) \in 1..B
      BY <1>1, <1>3, <1>8, <2>2
    <3>2. received'[i] = piece[i - Len(received)]
      BY <1>1, <1>3, <1>8, <2>2
    <3> QED BY <1>1, <1>3, <1>7, <3>1, <3>2
  <2> QED BY <1>1, <1>3, <1>8, <2>1, <2>2
<1>10. ASSUME NEW k \in 0..(Used' - 1) PROVE InRing(k)' = Len(received') + k + 1
  <2>1. k \in Nat /\ k + B \in 0..(Used - 1)
    BY <1>1, <1>4
  <2>2. InRing(k + B) = Len(received) + (k + B) + 1
    BY <2>1 DEF RingInv
  <2>3. InRing(k)' = InRing(k + B)
    BY <1>4
  <2> QED BY <1>1, <1>3, <1>8, <2>1, <2>2, <2>3
<1>11. sent' = Len(received') + Used'
  BY <1>1, <1>2, <1>3, <1>4, <1>8 DEF RingInv
<1>12. RingInv'
  BY <1>9, <1>10, <1>11 DEF RingInv
<1> QED BY <1>1, <1>4, <1>6, <1>8, <1>12 DEF B, piece

\* A write adds the next numbers behind what is in the ring.
LEMMA WriteMoves ==
  ASSUME TypeOK, RingInv, NEW p \in Proc, chunk[p] > 0, WriteData(p)
  PROVE  /\ Batch(p) \in 1..Space /\ sent' = sent + Batch(p) /\ Used' = Used + Batch(p)
         /\ head' \in 0..(Size - 1) /\ buf' \in [0..(Size - 1) -> Nat]
         /\ sent' \in Nat /\ RingInv'
<1> DEFINE B == Batch(p)
<1>1. B \in 1..Space /\ Space \in Nat /\ Used \in Nat
  <2>1. Space > 0 /\ op[p] = "w"
    BY DEF WriteData, InBody
  <2> QED BY <2>1, BatchRange, UsedRange, SizeAssumption
<1>2. /\ buf' = [i \in 0..(Size - 1) |->
                   IF Wrapped(Size + i - head) < B
                   THEN sent + Wrapped(Size + i - head) + 1 ELSE buf[i]]
      /\ head' = Wrapped(head + B) /\ sent' = sent + B /\ UNCHANGED <<tail, received>>
  BY DEF WriteData, Wrapped
<1> HIDE DEF B
<1>3. /\ head' \in 0..(Size - 1) /\ buf' \in [0..(Size - 1) -> Nat] /\ Used' = Used + B
      /\ \A k \in 0..(Used - 1) : InRing(k)' = InRing(k)
      /\ \A k \in Used..(Used' - 1) : InRing(k)' = sent + (k - Used) + 1
  BY <1>1, <1>2, RingPuts
<1>4. Len(received) \in Nat /\ sent \in Nat /\ sent = Len(received) + Used
      /\ Len(received') = Len(received)
  BY <1>2 DEF TypeOK, RingInv
<1>5. ASSUME NEW k \in 0..(Used' - 1) PROVE InRing(k)' = Len(received') + k + 1
  <2>1. CASE k < Used
    BY <1>1, <1>3, <1>4, <2>1 DEF RingInv
  <2>2. CASE k >= Used
    <3>1. InRing(k)' = sent + (k - Used) + 1
      BY <1>1, <1>3, <2>2
    <3> QED BY <1>1, <1>4, <3>1
  <2> QED BY <1>1, <2>1, <2>2
<1>6. RingInv'
  BY <1>1, <1>2, <1>3, <1>4, <1>5 DEF RingInv
<1>7. sent' = sent + B /\ sent' \in Nat
  BY <1>1, <1>2, <1>4
<1> QED BY <1>1, <1>3, <1>6, <1>7 DEF B

-----------------------------------------------------------------------------
(* Every step keeps the invariant *)

LEMMA InitIInv == Init => IInv
<1> SUFFICES ASSUME Init PROVE IInv
  OBVIOUS
<1>1. TypeOK
  <2>1. /\ buf \in [0..(Size - 1) -> Nat] /\ received \in Seq(Nat)
        /\ head \in 0..(Size - 1) /\ tail \in 0..(Size - 1)
    BY SizeAssumption DEF Init
  <2>2. /\ nonblock \in [End -> BOOLEAN] /\ in_use \in BOOLEAN
        /\ sig \in [Proc -> BOOLEAN]
    BY DEF Init
  <2>3. /\ flock \in [End -> Proc \cup {NULL}] /\ open \in [Proc -> SUBSET End]
        /\ pc \in [Proc -> Points] /\ op \in [Proc -> End]
        /\ result \in [Proc -> Results]
    BY DEF Init, End, Points, Results
  <2> QED BY <2>1, <2>2, <2>3 DEF Init, TypeOK
<1>2. Used = 0
  BY <1>1, UsedRange DEF Init
<1>3. RingInv
  BY <1>2 DEF Init, RingInv
<1>4. Control
  BY EndAssumption DEF Init, Control, LockHeld, SpinHeld, AsleepInBody, CallHasEnd,
     SleepJustified, ClosedOnce, Counts, NonblockSet, SlotUse, Counted, HasOpen,
     Freeing, NoLostWakeup, SignalEndsSleep, End
<1> QED BY <1>1, <1>3, <1>4 DEF IInv

\* Steps that move no byte leave the ring as it is.
LEMMA RingKept ==
  ASSUME RingInv, UNCHANGED <<ring, sent, received>>
  PROVE  RingInv' /\ Used' = Used /\ Space' = Space
  BY DEF RingInv, InRing, Used, Space, ring


USE EndAssumption DEF IInv, Control, TypeOK, LockHeld, SpinHeld, AsleepInBody,
    CallHasEnd, SleepJustified, ClosedOnce, Counts, Miscounted, NonblockSet, SlotUse, Counted,
    HasOpen, Freeing, NoLostWakeup, WakePending, SignalEndsSleep,
    End, At, Goto, ring, counts, request

\* A new pipe: nobody was inside the old one.
LEMMA CreateKeepsIInv ==
  ASSUME IInv, NEW p \in Proc, Create(p), UNCHANGED cores
  PROVE  IInv'
<1>1. TypeOK'
  BY SizeAssumption DEF Create
<1>2. Used' = 0
  BY <1>1, UsedRange, SizeAssumption DEF Create, Used
<1>3. RingInv'
  BY <1>2 DEF Create, RingInv
<1>4. Control'
  BY DEF Create
<1> QED BY <1>1, <1>3, <1>4

\* What a program does with its descriptors.
LEMMA InheritKeepsIInv ==
  ASSUME IInv, NEW p \in Proc, NEW q \in Proc \ {p}, Inherit(p, q), UNCHANGED cores
  PROVE  IInv'
  BY SMTT(60), RingKept DEF Inherit

LEMMA SetFlKeepsIInv ==
  ASSUME IInv, NEW p \in Proc, NEW e \in End, SetFl(p, e), UNCHANGED cores
  PROVE  IInv'
  BY SMTT(60), RingKept DEF SetFl

LEMMA CallKeepsIInv ==
  ASSUME IInv, NEW p \in Proc, NEW e \in End, NEW n \in 1..MaxReq, NEW c \in 1..MaxReq,
         c <= n, Call(p, e, n, c), UNCHANGED cores
  PROVE  IInv'
<1>1. RingInv' /\ Used' = Used /\ Space' = Space
  BY RingKept DEF Call
<1>2. TypeOK'
  BY SMTT(60), BoundAssumption DEF Call, Points, Results
<1>3. LockHeld' /\ SpinHeld' /\ AsleepInBody' /\ CallHasEnd'
  BY SMTT(60), BoundAssumption DEF Call
<1>4. SleepJustified' /\ NoLostWakeup' /\ SignalEndsSleep'
  BY SMTT(60), <1>1 DEF Call
<1>5. ClosedOnce' /\ NonblockSet'
  BY DEF Call
<1>6. Counts' /\ SlotUse'
  BY SMTT(60) DEF Call
<1> QED BY <1>1, <1>2, <1>3, <1>4, <1>5, <1>6

LEMMA CloseKeepsIInv ==
  ASSUME IInv, NEW p \in Proc, NEW e \in End, Close(p, e), UNCHANGED cores
  PROVE  IInv'
<1>1. RingInv' /\ Used' = Used /\ Space' = Space
  BY RingKept DEF Close
<1>2. TypeOK'
  BY BoundAssumption DEF Close, Points, Results
<1>3. LockHeld' /\ SpinHeld' /\ AsleepInBody' /\ CallHasEnd'
  BY BoundAssumption DEF Close
<1>4. SleepJustified' /\ NoLostWakeup' /\ SignalEndsSleep'
  <2> HIDE DEF Counts, Miscounted, SlotUse, ClosedOnce, LockHeld, Counted
  <2> QED BY <1>1 DEF Close
<1>5. ClosedOnce' /\ NonblockSet'
  BY SMTT(60) DEF Close
<1>6. Counts' /\ SlotUse'
  BY DEF Close
<1> QED BY <1>1, <1>2, <1>3, <1>4, <1>5, <1>6

LEMMA LockFileKeepsIInv ==
  ASSUME IInv, NEW p \in Proc, LockFile(p), UNCHANGED cores
  PROVE  IInv'
<1>1. RingInv' /\ Used' = Used /\ Space' = Space
  BY RingKept DEF LockFile
<1>2. TypeOK'
  BY BoundAssumption DEF LockFile, Points, Results
<1>3. LockHeld' /\ SpinHeld' /\ AsleepInBody' /\ CallHasEnd'
  BY BoundAssumption DEF LockFile
<1>4. SleepJustified' /\ NoLostWakeup' /\ SignalEndsSleep'
  BY <1>1 DEF LockFile
<1>5. ClosedOnce' /\ NonblockSet'
  BY DEF LockFile
<1>6. Counts' /\ SlotUse'
  BY DEF LockFile
<1> QED BY <1>1, <1>2, <1>3, <1>4, <1>5, <1>6

LEMMA ReturnEmptyKeepsIInv ==
  ASSUME IInv, NEW p \in Proc, pc[p] = "body", state[p] = "RUNNABLE",
         NEW r \in Results, ReturnEmpty(p, r), UNCHANGED cores
  PROVE  IInv'
<1>1. RingInv' /\ Used' = Used /\ Space' = Space
  BY RingKept DEF ReturnEmpty
<1>2. TypeOK'
  BY DEF ReturnEmpty, Points
<1>3. LockHeld' /\ SpinHeld' /\ AsleepInBody' /\ CallHasEnd'
  BY DEF ReturnEmpty
<1>4. SleepJustified' /\ NoLostWakeup' /\ SignalEndsSleep'
  BY <1>1 DEF ReturnEmpty
<1>5. ClosedOnce' /\ NonblockSet'
  BY DEF ReturnEmpty
<1>6. Counts' /\ SlotUse'
  BY DEF ReturnEmpty
<1> QED BY <1>1, <1>2, <1>3, <1>4, <1>5, <1>6

LEMMA SleepKeepsIInv ==
  ASSUME IInv, NEW p \in Proc, Decide(p) \/ Sleep(p), UNCHANGED cores
  PROVE  IInv'
<1>1. CASE Decide(p)
  <2>1. RingInv' /\ Used' = Used /\ Space' = Space
    BY <1>1, RingKept DEF Decide
  <2>2. TypeOK'
    BY <1>1 DEF Decide, Starved, InBody, Points
  <2>3. LockHeld' /\ SpinHeld' /\ AsleepInBody' /\ CallHasEnd'
    BY <1>1 DEF Decide, Starved, InBody
  <2>4. SleepJustified'
    BY <1>1, <2>1 DEF Decide, Starved, InBody
  <2>5. NoLostWakeup' /\ SignalEndsSleep'
    BY <1>1, <2>1 DEF Decide, Starved, InBody
  <2>6. ClosedOnce' /\ NonblockSet' /\ Counts' /\ SlotUse'
    BY <1>1 DEF Decide, Starved, InBody
  <2> QED BY <2>1, <2>2, <2>3, <2>4, <2>5, <2>6
<1>2. CASE Sleep(p)
  <2>1. RingInv' /\ Used' = Used /\ Space' = Space
    BY <1>2, RingKept DEF Sleep
  <2>2. TypeOK'
    BY <1>2 DEF Sleep, Points
  <2>3. LockHeld' /\ SpinHeld' /\ AsleepInBody' /\ CallHasEnd'
    BY <1>2 DEF Sleep
  <2>4. SleepJustified'
    BY <1>2, <2>1 DEF Sleep
  <2>5. NoLostWakeup'
    <3>1. WakePending => WakePending'
      BY <1>2 DEF Sleep
    <3>2. UNCHANGED <<op, readers, writers>>
      BY <1>2 DEF Sleep
    <3>3. \A q \in Proc : state'[q] = "BLOCKED" => q = p \/ state[q] = "BLOCKED"
      BY <1>2 DEF Sleep
    <3>4. pc[p] = "sleep"
      BY <1>2 DEF Sleep
    <3> QED BY <2>1, <3>1, <3>2, <3>3, <3>4
  <2>6. SignalEndsSleep'
    BY <1>2 DEF Sleep
  <2>7. ClosedOnce' /\ NonblockSet' /\ Counts' /\ SlotUse'
    BY <1>2 DEF Sleep
  <2> QED BY <2>1, <2>2, <2>3, <2>4, <2>5, <2>6, <2>7
<1> QED BY <1>1, <1>2

LEMMA WakeKeepsIInv ==
  ASSUME IInv, NEW p \in Proc, Wake(p) \/ CloseWake(p), UNCHANGED cores
  PROVE  IInv'
<1>1. CASE Wake(p)
  BY SMTT(60), <1>1, RingKept DEF Wake, WakeSleepers, Points
<1>2. CASE CloseWake(p)
  BY SMTT(60), <1>2, RingKept DEF CloseWake, WakeSleepers, Points
<1> QED BY <1>1, <1>2

LEMMA UnlockFileKeepsIInv ==
  ASSUME IInv, NEW p \in Proc, UnlockFile(p), UNCHANGED cores
  PROVE  IInv'
<1>1. RingInv' /\ Used' = Used /\ Space' = Space
  BY RingKept DEF UnlockFile
<1>2. TypeOK'
  BY BoundAssumption DEF UnlockFile, Points, Results
<1>3. LockHeld' /\ SpinHeld' /\ AsleepInBody' /\ CallHasEnd'
  BY BoundAssumption DEF UnlockFile
<1>4. SleepJustified'
  BY <1>1 DEF UnlockFile
<1>5. NoLostWakeup' /\ SignalEndsSleep'
  <2>1. WakePending => WakePending'
    BY DEF UnlockFile
  <2>2. \A q \in Proc : state[q] = "BLOCKED" => q # p /\ op'[q] = op[q]
    BY DEF UnlockFile
  <2>3. NoLostWakeup'
    BY <1>1, <2>1, <2>2 DEF UnlockFile
  <2>4. SignalEndsSleep'
    BY DEF UnlockFile
  <2> QED BY <2>3, <2>4
<1>6. ClosedOnce' /\ NonblockSet'
  BY DEF UnlockFile
<1>7. Counts' /\ SlotUse'
  BY DEF UnlockFile
<1> QED BY <1>1, <1>2, <1>3, <1>4, <1>5, <1>6, <1>7

LEMMA CloseEndKeepsIInv ==
  ASSUME IInv, NEW p \in Proc, CloseEnd(p), UNCHANGED cores
  PROVE  IInv'
<1>1. RingInv' /\ Used' = Used /\ Space' = Space
  BY RingKept DEF CloseEnd, IsReadEnd
<1>2. TypeOK'
  BY BoundAssumption DEF CloseEnd, IsReadEnd, Points, Results
<1>3. LockHeld' /\ SpinHeld' /\ AsleepInBody' /\ CallHasEnd'
  BY BoundAssumption DEF CloseEnd, IsReadEnd
<1>4. SleepJustified' /\ NoLostWakeup' /\ SignalEndsSleep'
  BY <1>1 DEF CloseEnd, IsReadEnd
<1>5. ClosedOnce' /\ NonblockSet'
  BY DEF CloseEnd, IsReadEnd
<1>6. in_use
  BY DEF CloseEnd
<1>7. /\ op[p] = "r" => Counted("r") /\ ~Counted("r")' /\ (Counted("w")' <=> Counted("w"))
      /\ op[p] = "w" => Counted("w") /\ ~Counted("w")' /\ (Counted("r")' <=> Counted("r"))
  BY DEF CloseEnd
<1>8. Counts'
  <2>1. /\ op[p] \in {"r", "w"} /\ readers \in 0..255 /\ writers \in 0..255
        /\ readers' = IF op[p] = "r" /\ ~nonblock["r"] THEN (readers + 255) % 256
                                                     ELSE readers
        /\ writers' = IF op[p] = "r" /\ ~nonblock["r"] THEN writers
                                                     ELSE (writers + 255) % 256
    BY DEF CloseEnd, IsReadEnd
  <2>2. Counts /\ UNCHANGED nonblock
    BY DEF CloseEnd
  <2> HIDE DEF Counted, IInv, CloseEnd
  <2>3. CASE op[p] = "r"
    BY <1>6, <1>7, <2>1, <2>2, <2>3 DEF Counts, Miscounted
  <2>4. CASE op[p] = "w"
    BY <1>6, <1>7, <2>1, <2>2, <2>4 DEF Counts, Miscounted
  <2> QED BY <2>1, <2>3, <2>4
<1>9. SlotUse'
  BY <1>6, <1>7 DEF CloseEnd, IsReadEnd
<1> QED BY <1>1, <1>2, <1>3, <1>4, <1>5, <1>8, <1>9

LEMMA FreeKeepsIInv ==
  ASSUME IInv, NEW p \in Proc, Free(p), UNCHANGED cores
  PROVE  IInv'
<1>1. RingInv' /\ Used' = Used /\ Space' = Space
  BY RingKept DEF Free
<1>2. TypeOK'
  BY BoundAssumption DEF Free, Points, Results
<1>3. LockHeld' /\ SpinHeld' /\ AsleepInBody' /\ CallHasEnd'
  BY BoundAssumption DEF Free
<1>4. SleepJustified' /\ NoLostWakeup' /\ SignalEndsSleep'
  BY <1>1 DEF Free
<1>5. ClosedOnce' /\ NonblockSet'
  BY DEF Free
<1>6. Counts' /\ SlotUse'
  BY DEF Free
<1> QED BY <1>1, <1>2, <1>3, <1>4, <1>5, <1>6

LEMMA KillKeepsIInv ==
  ASSUME IInv, NEW p \in Proc, Kill(p), UNCHANGED cores
  PROVE  IInv'
  BY SMTT(60), RingKept DEF Kill

LEMMA ReadDataKeepsIInv ==
  ASSUME IInv, NEW p \in Proc, ReadData(p), UNCHANGED cores
  PROVE  IInv'
<1>1. TypeOK /\ RingInv /\ chunk[p] > 0
  BY DEF ReadData, InBody
<1>2. /\ tail' \in 0..(Size - 1) /\ received' \in Seq(Nat) /\ RingInv'
  BY <1>1, ReadMoves
<1>3. TypeOK'
  BY <1>2 DEF ReadData, ReturnBytes, InBody, Points, Results
<1>4. LockHeld' /\ SpinHeld' /\ AsleepInBody' /\ CallHasEnd'
  BY DEF ReadData, ReturnBytes, InBody
<1>5. SleepJustified' /\ NoLostWakeup' /\ SignalEndsSleep'
  BY DEF ReadData, ReturnBytes, InBody
<1>6. ClosedOnce' /\ NonblockSet'
  BY SMTT(60) DEF ReadData, ReturnBytes, InBody
<1>7. Counts' /\ SlotUse'
  BY DEF ReadData, ReturnBytes, InBody
<1> QED BY <1>2, <1>3, <1>4, <1>5, <1>6, <1>7

LEMMA WriteDataKeepsIInv ==
  ASSUME IInv, NEW p \in Proc, WriteData(p), UNCHANGED cores
  PROVE  IInv'
<1>1. TypeOK /\ RingInv /\ chunk[p] > 0
  BY DEF WriteData, InBody
<1>2. /\ head' \in 0..(Size - 1) /\ buf' \in [0..(Size - 1) -> Nat]
      /\ sent' \in Nat /\ RingInv'
  BY <1>1, WriteMoves
<1>3. TypeOK'
  <2>1. /\ ReturnBytes(p, Batch(p)) /\ state[p] = "RUNNABLE"
        /\ UNCHANGED <<tail, counts, nonblock, flock, spin, open, state, sig, op, received>>
    BY DEF WriteData, InBody
  <2>2. /\ chunk' \in [Proc -> Nat] /\ rest' \in [Proc -> Nat]
        /\ pc' \in [Proc -> Points] /\ result' \in [Proc -> Results]
    BY <2>1 DEF ReturnBytes, Points, Results
  <2> HIDE DEF WriteData
  <2> QED BY <1>2, <2>1, <2>2
<1>4. LockHeld' /\ SpinHeld' /\ AsleepInBody' /\ CallHasEnd'
  BY DEF WriteData, ReturnBytes, InBody
<1>5. SleepJustified' /\ NoLostWakeup' /\ SignalEndsSleep'
  BY DEF WriteData, ReturnBytes, InBody
<1>6. ClosedOnce' /\ NonblockSet'
  BY SMTT(60) DEF WriteData, ReturnBytes, InBody
<1>7. Counts' /\ SlotUse'
  <2>1. /\ pc[p] = "body" /\ pc' = [pc EXCEPT ![p] = "wake"]
        /\ UNCHANGED <<counts, nonblock, open, op>>
    BY DEF WriteData, ReturnBytes, InBody
  <2>2. \A e \in End : Counted(e)' <=> Counted(e)
    BY <2>1
  <2> HIDE DEF Counted, WriteData
  <2> QED BY <2>1, <2>2
<1> QED BY <1>2, <1>3, <1>4, <1>5, <1>6, <1>7

LEMMA NextKeepsIInv == IInv /\ [Next]_vars => IInv'
<1> USE DEF Results
<1>1. ASSUME IInv, UNCHANGED vars PROVE IInv'
  BY <1>1, RingKept DEF vars
<1>2. ASSUME IInv, Next PROVE IInv'
  <2>1. PICK p \in Proc : \/ Step(p)
                          \/ UserCall(p) /\ UNCHANGED cores
                          \/ Kill(p) /\ UNCHANGED cores
    BY <1>2 DEF Next
  <2>2. CASE Step(p)
    <3> HIDE DEF IInv, Results
    <3>1. UNCHANGED cores
      BY <2>2 DEF Step
    <3>2. CASE LockFile(p)
      BY <1>2, <3>1, <3>2, LockFileKeepsIInv
    <3>3. CASE ReadData(p)
      BY <1>2, <3>1, <3>3, ReadDataKeepsIInv
    <3>4. CASE WriteData(p)
      BY <1>2, <3>1, <3>4, WriteDataKeepsIInv
    <3>5. CASE ReadEof(p) \/ WriteBroken(p) \/ Again(p) \/ Interrupted(p)
      <4>1. /\ pc[p] = "body" /\ state[p] = "RUNNABLE"
            /\ \E r \in Results : ReturnEmpty(p, r)
        BY <3>5 DEF ReadEof, WriteBroken, Again, Interrupted, Starved, InBody, Results
      <4> QED BY <1>2, <3>1, <4>1, ReturnEmptyKeepsIInv
    <3>6. CASE Decide(p) \/ Sleep(p)
      BY <1>2, <3>1, <3>6, SleepKeepsIInv
    <3>7. CASE Wake(p) \/ CloseWake(p)
      BY <1>2, <3>1, <3>7, WakeKeepsIInv
    <3>8. CASE UnlockFile(p)
      BY <1>2, <3>1, <3>8, UnlockFileKeepsIInv
    <3>9. CASE CloseEnd(p)
      BY <1>2, <3>1, <3>9, CloseEndKeepsIInv
    <3>10. CASE Free(p)
      BY <1>2, <3>1, <3>10, FreeKeepsIInv
    <3> QED BY <2>2, <3>2, <3>3, <3>4, <3>5, <3>6, <3>7, <3>8, <3>9, <3>10 DEF Step
  <2>3. CASE UserCall(p) /\ UNCHANGED cores
    <3> HIDE DEF IInv
    <3> QED BY <1>2, <2>3, CreateKeepsIInv, InheritKeepsIInv, SetFlKeepsIInv,
               CloseKeepsIInv, CallKeepsIInv DEF UserCall
  <2>4. CASE Kill(p) /\ UNCHANGED cores
    <3> HIDE DEF IInv
    <3> QED BY <1>2, <2>4, KillKeepsIInv
  <2> QED BY <2>1, <2>2, <2>3, <2>4
<1> QED BY <1>1, <1>2

LEMMA Invariance == Spec => []IInv
  BY InitIInv, NextKeepsIInv, PTL DEF Spec

-----------------------------------------------------------------------------
(* What the pipe promises, whatever the flags of its files *)

\* Type correctness of the pipe and of the calls above it.
THEOREM TypeCorrect == Spec => []TypeOK
  BY Invariance, PTL

\* pipe_read and pipe_write do not sleep through the transfer or the close
\* that ends their wait: no wakeup of pipe.c is lost.
THEOREM WakeupNotLost == Spec => []NoLostWakeup
  BY Invariance, PTL

\* On one core sys_kill cannot come between a sleeper's look at its signals and
\* its sleep.
THEOREM SignalNotLost == Spec => []SignalEndsSleep
  BY Invariance, PTL

-----------------------------------------------------------------------------
(* The ends and the slot, whatever F_SETFL does *)

\* The counts of pipe_t are those of the descriptors, or wrong in the one way a
\* read end closed with O_NONBLOCK leaves them.
THEOREM CountsRight == Spec => []CountsMatchEnds
<1>1. IInv => CountsMatchEnds
  BY DEF CountsMatchEnds, Miscounted
<1> QED BY <1>1, Invariance, PTL

\* The slot of pipe_pool is given back, once, and after everybody has left.
THEOREM SlotGivenBack == Spec => []SlotLifetime
<1>1. ASSUME IInv PROVE SlotLifetime
  <2>1. ASSUME NEW p \in Proc, pc[p] \in {"flock", "body", "sleep", "close", "free"}
        PROVE  in_use
    BY <1>1, <2>1
  <2>2. ASSUME in_use
        PROVE  \/ Miscounted
               \/ \E p \in Proc : open[p] # {}
               \/ \E p \in Proc : pc[p] \in {"close", "close_wake_free", "free"}
    BY <1>1, <2>2
  <2> QED BY <2>1, <2>2 DEF SlotLifetime
<1> QED BY <1>1, Invariance, PTL

\* pipe_write moves bytes only while the read end is open or being closed, or
\* after its last close was taken for a writer's.
THEOREM WritesAreReadable == Spec => WriteNeedsReader
<1>1. ASSUME IInv, NEW p \in Proc, WriteData(p) PROVE Counted("r") \/ Miscounted
  <2>1. in_use /\ readers # 0
    BY <1>1 DEF WriteData, InBody
  <2> QED BY <1>1, <2>1
<1>2. IInv => [\A p \in Proc : WriteData(p) => Counted("r") \/ Miscounted]_vars
  BY <1>1
<1> QED BY <1>2, Invariance, PTL DEF WriteNeedsReader

-----------------------------------------------------------------------------
(* The refinement *)

\* The bytes accepted so far, as the byte channel sees them.
Bytes(n) == [i \in 1..n |-> i]

LEMMA BytesSeq ==
  ASSUME NEW n \in Nat
  PROVE  Bytes(n) \in Seq(Nat) /\ Len(Bytes(n)) = n /\ \A i \in 1..n : Bytes(n)[i] = i
  BY DEF Bytes

\* A write appends to them.
LEMMA BytesGrow ==
  ASSUME NEW n \in Nat, NEW k \in Nat
  PROVE  Bytes(n + k) = Bytes(n) \o [i \in 1..k |-> n + i]
<1> DEFINE piece == [i \in 1..k |-> n + i]
<1>1. piece \in Seq(Nat) /\ Len(piece) = k /\ \A i \in 1..k : piece[i] = n + i
  OBVIOUS
<1> HIDE DEF piece
<1>2. /\ Bytes(n) \in Seq(Nat) /\ Len(Bytes(n)) = n /\ \A i \in 1..n : Bytes(n)[i] = i
      /\ Bytes(n + k) \in Seq(Nat) /\ Len(Bytes(n + k)) = n + k
      /\ \A i \in 1..(n + k) : Bytes(n + k)[i] = i
  BY BytesSeq
<1>3. /\ Bytes(n) \o piece \in Seq(Nat) /\ Len(Bytes(n) \o piece) = n + k
      /\ \A i \in 1..(n + k) :
           (Bytes(n) \o piece)[i] = IF i <= n THEN Bytes(n)[i] ELSE piece[i - n]
  BY SMTT(60), <1>1, <1>2, ConcatProperties
<1>4. ASSUME NEW i \in 1..(n + k) PROVE Bytes(n + k)[i] = (Bytes(n) \o piece)[i]
  <2>1. CASE i <= n
    BY <1>2, <1>3, <2>1
  <2>2. CASE i > n
    <3>1. i - n \in 1..k
      BY <2>2
    <3>2. piece[i - n] = n + (i - n)
      BY <1>1, <3>1
    <3>3. (Bytes(n) \o piece)[i] = piece[i - n]
      BY <1>3, <2>2
    <3>4. Bytes(n + k)[i] = i /\ n + (i - n) = i
      BY <1>2
    <3> QED BY <3>2, <3>3, <3>4
  <2>3. i <= n \/ i > n
    OBVIOUS
  <2> QED BY <2>1, <2>2, <2>3
<1>5. Bytes(n + k) = Bytes(n) \o piece
  BY <1>2, <1>3, <1>4, SeqEqual
<1> QED BY <1>5 DEF piece

\* A read takes the piece behind what was received.
LEMMA BytesPiece ==
  ASSUME NEW n \in Nat, NEW m \in 0..n, NEW k \in 1..(n - m)
  PROVE  SubSeq(Bytes(n), m + 1, m + k) = [i \in 1..k |-> m + i]
<1> DEFINE piece == [i \in 1..k |-> m + i]
           sub == SubSeq(Bytes(n), m + 1, m + k)
<1>1. piece \in Seq(Nat) /\ Len(piece) = k /\ \A i \in 1..k : piece[i] = m + i
  OBVIOUS
<1>2. Bytes(n) \in Seq(Nat) /\ Len(Bytes(n)) = n /\ \A i \in 1..n : Bytes(n)[i] = i
  BY BytesSeq
<1>3. /\ sub \in Seq(Nat) /\ Len(sub) = k
      /\ \A i \in 1..k : sub[i] = Bytes(n)[m + 1 + i - 1]
  <2>1. /\ m + 1 \in Int /\ m + k \in Int /\ (m + k) - (m + 1) + 1 = k /\ m + 1 <= m + k
        /\ \A i \in (m + 1)..(m + k) : i \in 1..n
    OBVIOUS
  <2>2. \A i \in (m + 1)..(m + k) : Bytes(n)[i] \in Nat
    BY <1>2, <2>1
  <2> HIDE DEF sub
  <2>3. /\ sub \in Seq(Nat)
        /\ Len(sub) = IF m + 1 <= m + k THEN (m + k) - (m + 1) + 1 ELSE 0
        /\ \A i \in 1..((m + k) - (m + 1) + 1) : sub[i] = Bytes(n)[m + 1 + i - 1]
    BY <2>1, <2>2, SubSeqProperties DEF sub
  <2> QED BY <2>1, <2>3
<1> HIDE DEF piece, sub
<1>4. ASSUME NEW i \in 1..k PROVE sub[i] = piece[i]
  <2>1. m + 1 + i - 1 = m + i /\ m + i \in 1..n
    OBVIOUS
  <2> QED BY <1>1, <1>2, <1>3, <2>1
<1>5. sub = piece
  BY <1>1, <1>3, <1>4, SeqEqual
<1> QED BY <1>5 DEF sub, piece

\* Steps that move no byte, tell nobody anything and open or close no end for
\* the last time are stuttering steps of the channel.
LEMMA ChannelKept ==
  ASSUME UNCHANGED <<sent, received, result>>,
         HasOpen("r")' <=> HasOpen("r"), HasOpen("w")' <=> HasOpen("w")
  PROVE  UNCHANGED Channel!vars
  BY DEF Channel!vars

LEMMA CreateIsCreate ==
  ASSUME IInv, NEW p \in Proc, Create(p)
  PROVE  Channel!Create
<1>1. ~HasOpen("r") /\ ~HasOpen("w")
  BY DEF Create
<1>2. HasOpen("r")' /\ HasOpen("w")'
  BY DEF Create
<1>3. [i \in 1..sent' |-> i] = << >>
  BY DEF Create
<1> QED BY <1>1, <1>2, <1>3 DEF Create, Channel!Create

LEMMA CloseIsClose ==
  ASSUME IInv, NEW p \in Proc, NEW e \in End, Close(p, e)
  PROVE  Channel!CloseRead \/ Channel!CloseWrite \/ UNCHANGED Channel!vars
<1>1. UNCHANGED <<sent, received, result>> /\ HasOpen(e)
  BY DEF Close
<1>2. \A d \in End \ {e} : HasOpen(d)' <=> HasOpen(d)
  BY SMTT(60) DEF Close
<1>3. CASE HasOpen(e)'
  <2> HIDE DEF HasOpen, IInv
  <2>1. \A d \in End : HasOpen(d)' <=> HasOpen(d)
    <3>1. ASSUME NEW d \in End, d # e PROVE HasOpen(d)' <=> HasOpen(d)
      BY <1>2, <3>1
    <3>2. HasOpen(e)' <=> HasOpen(e)
      BY <1>1, <1>3
    <3> QED BY <3>1, <3>2
  <2>2. (HasOpen("r")' <=> HasOpen("r")) /\ (HasOpen("w")' <=> HasOpen("w"))
    BY <2>1
  <2> QED BY <1>1, <2>2, ChannelKept
<1>4. CASE ~HasOpen(e)' /\ e = "r"
  <2> HIDE DEF HasOpen, IInv
  <2>1. HasOpen("w")' <=> HasOpen("w")
    BY <1>2, <1>4
  <2> QED BY <1>1, <1>4, <2>1 DEF Channel!CloseRead, HasOpen
<1>5. CASE ~HasOpen(e)' /\ e = "w"
  <2> HIDE DEF HasOpen, IInv
  <2>1. HasOpen("r")' <=> HasOpen("r")
    BY <1>2, <1>5
  <2> QED BY <1>1, <1>5, <2>1 DEF Channel!CloseWrite, HasOpen
<1> QED BY <1>3, <1>4, <1>5

LEMMA ReadDataIsGet ==
  ASSUME IInv, NEW p \in Proc, ReadData(p)
  PROVE  Channel!Get(p)
<1> DEFINE k == Batch(p)
<1>1. TypeOK /\ RingInv /\ chunk[p] > 0
  BY DEF ReadData, InBody
<1>2. k \in 1..Used /\ received' = received \o [i \in 1..k |-> Len(received) + i]
  BY <1>1, ReadMoves
<1>3. sent = Len(received) + Used /\ sent \in Nat /\ Len(received) \in Nat /\ Used \in Nat
  BY SMTT(60), <1>1, UsedRange, SizeAssumption DEF RingInv
<1>4. Len(Bytes(sent)) = sent
  BY <1>3, BytesSeq
<1> HIDE DEF k
<1>5. /\ k \in 1..(sent - Len(received))
      /\ SubSeq(Bytes(sent), Len(received) + 1, Len(received) + k)
            = [i \in 1..k |-> Len(received) + i]
  <2> HIDE DEF IInv
  <2>1. Len(received) \in 0..sent /\ k \in 1..(sent - Len(received))
    BY <1>2, <1>3
  <2> QED BY <1>3, <2>1, BytesPiece
<1>6. result' = [result EXCEPT ![p] = "bytes"] /\ UNCHANGED <<sent, open>>
  BY DEF ReadData, ReturnBytes
<1>7. k \in 1..(Len(Bytes(sent)) - Len(received))
  BY <1>4, <1>5
<1>8. received' = received \o SubSeq(Bytes(sent), Len(received) + 1, Len(received) + k)
  BY <1>2, <1>5
<1> QED BY <1>6, <1>7, <1>8 DEF Channel!Get, Channel!Tell, Bytes

LEMMA WriteDataIsPut ==
  ASSUME IInv, NEW p \in Proc, WriteData(p)
  PROVE  Channel!Put(p)
<1> DEFINE k == Batch(p)
<1>1. TypeOK /\ RingInv /\ chunk[p] > 0
  BY DEF WriteData, InBody
<1>2. k \in 1..Space /\ sent' = sent + k
  BY <1>1, WriteMoves
<1>3. /\ sent = Len(received) + Used /\ sent \in Nat /\ Len(received) \in Nat
      /\ Used \in Nat /\ Space = Size - 1 - Used /\ Size \in Nat
  BY SMTT(60), <1>1, UsedRange, SizeAssumption DEF RingInv, Space
<1>4. Len(Bytes(sent)) = sent
  BY <1>3, BytesSeq
<1> HIDE DEF k
<1>5. Bytes(sent') = Bytes(sent) \o [i \in 1..k |-> Len(Bytes(sent)) + i]
  <2> HIDE DEF IInv
  <2>1. k \in Nat
    BY <1>2, <1>3
  <2>2. Bytes(sent + k) = Bytes(sent) \o [i \in 1..k |-> sent + i]
    BY <1>3, <2>1, BytesGrow
  <2> QED BY <1>2, <1>4, <2>2
<1>6. /\ result' = [result EXCEPT ![p] = "bytes"] /\ UNCHANGED <<received, open>>
  BY DEF WriteData, ReturnBytes
<1>7. k \in 1..((Size - 1) - (Len(Bytes(sent)) - Len(received)))
  BY <1>2, <1>3, <1>4
<1> QED BY <1>5, <1>6, <1>7 DEF Channel!Put, Channel!Tell, Bytes

\* What a call that moves no byte is told: end of file only after everything
\* was read, a broken pipe only without readers, EAGAIN and EINTR only if it
\* would have to wait.
LEMMA ReturnIsTold ==
  ASSUME IInv, NEW p \in Proc,
         ReadEof(p) \/ WriteBroken(p) \/ Again(p) \/ Interrupted(p)
  PROVE  Channel!Eof(p) \/ Channel!Broken(p) \/ Channel!Again(p) \/ Channel!Interrupted(p)
<1>1. /\ sent = Len(received) + Used /\ sent \in Nat /\ Len(received) \in Nat
      /\ received \in Seq(Nat) /\ \A i \in 1..Len(received) : received[i] = i
      /\ Used \in Nat /\ Space = Size - 1 - Used /\ Size \in Nat
  BY UsedRange, SizeAssumption DEF RingInv, Space
<1>2. /\ Bytes(sent) \in Seq(Nat) /\ Len(Bytes(sent)) = sent
      /\ \A i \in 1..sent : Bytes(sent)[i] = i
  BY <1>1, BytesSeq
<1>3. UNCHANGED <<sent, received, open>>
  BY DEF ReadEof, WriteBroken, Again, Interrupted, ReturnEmpty
<1>4. in_use
  BY DEF ReadEof, WriteBroken, Again, Interrupted, Starved, InBody
<1>5. CASE ReadEof(p)
  <2>1. Used = 0 /\ ~HasOpen("w")
    <3>1. Used = 0 /\ writers = 0 /\ pc[p] = "body" /\ op[p] = "r"
      BY <1>5 DEF ReadEof, InBody, At
    <3>2. ~Miscounted
      BY <3>1 DEF Miscounted
    <3>3. writers = (IF Counted("w") THEN 1 ELSE 0)
      BY <1>4, <3>2 DEF Counts
    <3> QED BY <3>1, <3>3 DEF Counted
  <2>2. result' = [result EXCEPT ![p] = "eof"]
    BY <1>5 DEF ReadEof, ReturnEmpty
  <2>3. received = Bytes(sent)
    <3> HIDE DEF IInv
    <3>1. Len(received) = sent
      BY <1>1, <2>1
    <3> QED BY <1>1, <1>2, <3>1, SeqEqual
  <2> QED BY <1>3, <2>1, <2>2, <2>3 DEF Channel!Eof, Channel!Tell, Bytes
<1>6. CASE WriteBroken(p)
  <2>1. ~HasOpen("r")
    BY <1>4, <1>6 DEF WriteBroken
  <2>2. result' = [result EXCEPT ![p] = "epipe"]
    BY <1>6 DEF WriteBroken, ReturnEmpty
  <2> QED BY <1>3, <2>1, <2>2 DEF Channel!Broken, Channel!Tell
<1>7. CASE Again(p) \/ Interrupted(p)
  <2>1. Used = 0 \/ Space = 0
    BY <1>7 DEF Again, Interrupted, Starved
  <2>2. Len(Bytes(sent)) - Len(received) \in {0, Size - 1}
    <3> HIDE DEF IInv
    <3>1. Used = 0 \/ Used = Size - 1
      BY <1>1, <2>1
    <3>2. sent - Len(received) = Used
      BY <1>1
    <3> QED BY <1>2, <3>1, <3>2
  <2>3. \/ Again(p) /\ result' = [result EXCEPT ![p] = "eagain"]
        \/ Interrupted(p) /\ result' = [result EXCEPT ![p] = "eintr"]
    BY <1>7 DEF Again, Interrupted, ReturnEmpty
  <2> QED BY <1>3, <2>2, <2>3 DEF Channel!Again, Channel!Interrupted, Channel!Tell,
             Bytes
<1> QED BY <1>5, <1>6, <1>7

LEMMA StepIsStep ==
  ASSUME IInv, NEW p \in Proc, Step(p)
  PROVE  Channel!Next \/ UNCHANGED Channel!vars
<1>1. CASE ReadData(p)
  BY <1>1, ReadDataIsGet DEF Channel!Next
<1>2. CASE WriteData(p)
  BY <1>2, WriteDataIsPut DEF Channel!Next
<1>3. CASE ReadEof(p) \/ WriteBroken(p) \/ Again(p) \/ Interrupted(p)
  BY <1>3, ReturnIsTold DEF Channel!Next
<1>4. CASE UnlockFile(p)
  BY <1>4 DEF UnlockFile, Channel!Next, Channel!Begin, Channel!Tell
<1>5. CASE \/ LockFile(p) \/ Decide(p) \/ Sleep(p) \/ Wake(p)
           \/ CloseEnd(p) \/ CloseWake(p) \/ Free(p)
  <2>1. UNCHANGED <<sent, received, result, open>>
    BY <1>5 DEF LockFile, Decide, Sleep, Wake, CloseEnd, CloseWake, Free
  <2> QED BY <2>1, ChannelKept
<1> QED BY <1>1, <1>2, <1>3, <1>4, <1>5 DEF Step

LEMMA UserCallIsStep ==
  ASSUME IInv, NEW p \in Proc, UserCall(p)
  PROVE  Channel!Next \/ UNCHANGED Channel!vars
<1>1. CASE Create(p)
  BY <1>1, CreateIsCreate DEF Channel!Next
<1>2. CASE \E e \in End : Close(p, e)
  BY SMTT(60), <1>2, CloseIsClose DEF Channel!Next
<1>3. ASSUME NEW q \in Proc \ {p}, Inherit(p, q) PROVE UNCHANGED Channel!vars
  <2>1. UNCHANGED <<sent, received, result>>
    BY <1>3 DEF Inherit
  <2>2. (HasOpen("r")' <=> HasOpen("r")) /\ (HasOpen("w")' <=> HasOpen("w"))
    BY <1>3 DEF Inherit
  <2> QED BY <2>1, <2>2, ChannelKept
<1>4. CASE \E e \in End : \/ SetFl(p, e)
                          \/ \E n \in 1..MaxReq, c \in 1..MaxReq : Call(p, e, n, c)
  <2>1. UNCHANGED <<sent, received, result, open>>
    BY <1>4 DEF SetFl, Call
  <2> QED BY <2>1, ChannelKept
<1> QED BY <1>1, <1>2, <1>3, <1>4 DEF UserCall

\* pipe.c, under the calls of fd.c and sys_io.c, is a byte channel of capacity
\* PIPE_BUF_SIZE - 1: bytes come out once, in order and unchanged, end of file
\* and broken pipe are told when they are true.
THEOREM Refinement == Spec => ImplementsByteChannel
<1>1. Init => Channel!Init
  <2> SUFFICES ASSUME Init PROVE Channel!Init
    OBVIOUS
  <2>1. [i \in 1..sent |-> i] = << >>
    BY DEF Init
  <2> QED BY <2>1 DEF Init, Channel!Init
<1>2. IInv /\ [Next]_vars => [Channel!Next]_(Channel!vars)
  <2> HIDE DEF IInv
  <2> SUFFICES ASSUME IInv, [Next]_vars PROVE Channel!Next \/ UNCHANGED Channel!vars
    OBVIOUS
  <2>1. CASE UNCHANGED vars
    BY <2>1, ChannelKept DEF vars
  <2>2. ASSUME NEW p \in Proc, Kill(p) PROVE UNCHANGED Channel!vars
    BY <2>2, ChannelKept DEF Kill
  <2> QED BY <2>1, <2>2, StepIsStep, UserCallIsStep DEF Next
<1> QED BY <1>1, <1>2, Invariance, PTL DEF Spec, ImplementsByteChannel, Channel!Spec

=============================================================================
