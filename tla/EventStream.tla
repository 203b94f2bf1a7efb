----------------------------- MODULE EventStream -----------------------------
(***************************************************************************)
(* What the real-time stream of one traced program promises to whoever     *)
(* reads it: events are delivered at most once and, thread by thread, in   *)
(* the order in which they were emitted; any event may be lost, at any     *)
(* time; the stream is closed at most once, by a count that is exactly the *)
(* number of events delivered, and nothing follows the close.              *)
(*                                                                         *)
(* An event is <<t, n>>: the n-th one that thread t emitted.               *)
(***************************************************************************)
EXTENDS Naturals, Sequences

CONSTANTS
  Threads,   \* the threads of the traced program
  Open       \* the value of total while the stream is not closed: no number

VARIABLES
  issued,    \* issued[t]: how many events thread t has emitted
  pending,   \* emitted events whose fate is not decided
  delivered, \* events handed to the connection, in order
  total      \* the count that closed the stream, or Open

evars == <<issued, pending, delivered, total>>

Init ==
  /\ issued = [t \in Threads |-> 0]
  /\ pending = {}
  /\ delivered = <<>>
  /\ total = Open

Issue(t) ==
  /\ total = Open
  /\ issued' = [issued EXCEPT ![t] = @ + 1]
  /\ pending' = pending \cup {<<t, issued[t] + 1>>}
  /\ UNCHANGED <<delivered, total>>

\* Per-thread order: an event is delivered before the later ones of its thread.
Deliver(e) ==
  /\ total = Open
  /\ e \in pending
  /\ \A f \in pending : f[1] = e[1] => e[2] <= f[2]
  /\ pending' = pending \ {e}
  /\ delivered' = Append(delivered, e)
  /\ UNCHANGED <<issued, total>>

Discard(e) ==
  /\ e \in pending
  /\ pending' = pending \ {e}
  /\ UNCHANGED <<issued, delivered, total>>

Close ==
  /\ total = Open
  /\ total' = Len(delivered)
  /\ UNCHANGED <<issued, pending, delivered>>

Next ==
  \/ \E t \in Threads : Issue(t)
  \/ \E e \in pending : Deliver(e) \/ Discard(e)
  \/ Close

Spec == Init /\ [][Next]_evars
=============================================================================
