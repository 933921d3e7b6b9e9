---------------------------- MODULE ByteChannel -----------------------------
(***************************************************************************)
(* What pipe(2) promises its users (docs/kernel/syscall.md, "pipe"): a     *)
(* bounded, unidirectional stream of bytes between an end that is open for *)
(* writing and one that is open for reading, in order and without loss,    *)
(* with end-of-file and broken-pipe told to the other side.                *)
(***************************************************************************)
EXTENDS Naturals, Sequences

CONSTANTS Proc, Capacity

VARIABLES written,    \* every byte accepted from a writer, in order
          received,   \* every byte handed to a reader, in order
          readOpen,   \* some process has the read end open
          writeOpen,  \* some process has the write end open
          result      \* what each process was told last

vars == <<written, received, readOpen, writeOpen, result>>

Init == /\ written = << >> /\ received = << >>
        /\ ~readOpen /\ ~writeOpen
        /\ result = [p \in Proc |-> "none"]

Tell(p, r) == result' = [result EXCEPT ![p] = r]

Create == /\ ~readOpen /\ ~writeOpen
          /\ readOpen' /\ writeOpen'
          /\ written' = << >> /\ received' = << >>
          /\ UNCHANGED result

Put(p) == /\ \E k \in 1..(Capacity - (Len(written) - Len(received))) :
                written' = written \o [i \in 1..k |-> Len(written) + i]
          /\ Tell(p, "bytes")
          /\ UNCHANGED <<received, readOpen, writeOpen>>

Get(p) == /\ \E k \in 1..(Len(written) - Len(received)) :
                received' = received \o SubSeq(written, Len(received) + 1,
                                               Len(received) + k)
          /\ Tell(p, "bytes")
          /\ UNCHANGED <<written, readOpen, writeOpen>>

\* End of file is told only when everything was read and nobody can write.
Eof(p) == /\ ~writeOpen /\ received = written
          /\ Tell(p, "eof")
          /\ UNCHANGED <<written, received, readOpen, writeOpen>>

\* A broken pipe is told only when nobody can read.
Broken(p) == /\ ~readOpen
             /\ Tell(p, "epipe")
             /\ UNCHANGED <<written, received, readOpen, writeOpen>>

\* A call that must not wait is told so only if it would have to.
Again(p) == /\ Len(written) - Len(received) \in {0, Capacity}
            /\ Tell(p, "eagain")
            /\ UNCHANGED <<written, received, readOpen, writeOpen>>

Interrupted(p) == /\ Len(written) - Len(received) \in {0, Capacity}
                  /\ Tell(p, "eintr")
                  /\ UNCHANGED <<written, received, readOpen, writeOpen>>

Begin(p) == Tell(p, "none") /\ UNCHANGED <<written, received, readOpen, writeOpen>>

CloseRead == /\ readOpen /\ ~readOpen'
             /\ UNCHANGED <<written, received, writeOpen, result>>

CloseWrite == /\ writeOpen /\ ~writeOpen'
              /\ UNCHANGED <<written, received, readOpen, result>>

Next == \/ Create \/ CloseRead \/ CloseWrite
        \/ \E p \in Proc : \/ Begin(p) \/ Put(p) \/ Get(p) \/ Eof(p)
                           \/ Broken(p) \/ Again(p) \/ Interrupted(p)

Spec == Init /\ [][Next]_vars
=============================================================================
