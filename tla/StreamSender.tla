---------------------------- MODULE StreamSender ----------------------------
(***************************************************************************)
(* TraceStreamSender (python_runtime/stream_sender.py): traced threads     *)
(* call sink() from sys.monitoring callbacks, the main thread runs         *)
(* start() and finish(), and a daemon thread drains a FIFO queue into a    *)
(* WebSocket.  sink() takes a slot under the counter lock and enqueues     *)
(* after releasing it, so the two halves of a call interleave with the     *)
(* other threads; so do the sender's send and the counter update after it. *)
(*                                                                         *)
(* An event is <<t, n>>, the n-th call of thread t.  wire is what was      *)
(* handed to the WebSocket, which may fail at any send.                    *)
(***************************************************************************)
EXTENDS Naturals, Sequences, FiniteSets

CONSTANTS
  Threads,      \* threads running traced code
  MainThread,   \* the one that runs the script, start() and finish()
  MaxInflight,  \* the drop-newest cap
  MaxCalls,     \* bound: sink() calls per thread
  Sentinel,     \* the end-of-stream marker
  NoItem        \* the sender holds nothing

Events == Threads \X (1 .. MaxCalls)

ASSUME SenderAssumption ==
  /\ IsFiniteSet(Threads)
  /\ MainThread \in Threads
  /\ MaxInflight \in Nat \ {0}
  /\ MaxCalls \in Nat
  /\ Sentinel \notin Events
  /\ NoItem \notin Events

VARIABLES
  main,       \* where the main thread is in start() / run() / finish()
  pc,         \* pc[t]: where thread t is in its tracer callback
  calls,      \* calls[t]: callbacks thread t has begun
  inflight, dropped, sent,     \* the counters behind _counter_lock
  queue,      \* the SimpleQueue
  snd,        \* where the sender thread is
  hand,       \* the item the sender took and has not accounted for
  wire,       \* messages handed to the WebSocket
  connected, connectError, connectionLost,
  result,     \* what finish() returned
  lost        \* history: events discarded after a failed send

mainVars == <<main, result>>
sinkVars == <<pc, calls, dropped>>
linkVars == <<connected, connectError>>
vars == <<main, pc, calls, inflight, dropped, sent, queue, snd, hand, wire,
          connected, connectError, connectionLost, result, lost>>

StartMsg == [kind |-> "start"]
EventMsg(e) == [kind |-> "event", event |-> e]
EndMsg(n) == [kind |-> "end", count |-> n]
Messages == [kind : {"start"}] \cup [kind : {"event"}, event : Events]
              \cup [kind : {"end"}, count : Nat]

Init ==
  /\ main = "new"
  /\ pc = [t \in Threads |-> "idle"]
  /\ calls = [t \in Threads |-> 0]
  /\ inflight = 0 /\ dropped = 0 /\ sent = 0
  /\ queue = <<>>
  /\ snd = "off"
  /\ hand = NoItem
  /\ wire = <<>>
  /\ connected = FALSE /\ connectError = FALSE /\ connectionLost = FALSE
  /\ result = 0
  /\ lost = 0

-----------------------------------------------------------------------------
(* The main thread.                                                        *)

StartThread ==
  /\ main = "new"
  /\ main' = "starting"
  /\ snd' = "connecting"
  /\ UNCHANGED <<sinkVars, linkVars, inflight, sent, queue, hand, wire,
                 connectionLost, result, lost>>

\* _connected.wait() came back: start() returns, or raises what was recorded.
StartWakes ==
  /\ main = "starting"
  /\ connected
  /\ main' = IF connectError THEN "failed" ELSE "running"
  /\ UNCHANGED <<sinkVars, linkVars, inflight, sent, queue, snd, hand, wire,
                 connectionLost, result, lost>>

\* The wait times out: start() raises, and the thread goes on connecting.
StartTimesOut ==
  /\ main = "starting"
  /\ ~connected
  /\ main' = "failed"
  /\ UNCHANGED <<sinkVars, linkVars, inflight, sent, queue, snd, hand, wire,
                 connectionLost, result, lost>>

\* The script is over and the tracer stopped; other threads may still be in
\* a callback that began before.
Finish ==
  /\ main = "running"
  /\ pc[MainThread] = "idle"
  /\ main' = "joining"
  /\ queue' = Append(queue, Sentinel)
  /\ UNCHANGED <<sinkVars, linkVars, inflight, sent, snd, hand, wire,
                 connectionLost, result, lost>>

\* join() returns because the thread ended ("done") or the timeout passed
\* while it is alive ("timedOut"); either way finish() returns _sent.
FinishReturns ==
  /\ main = "joining"
  /\ main' = IF snd = "exited" THEN "done" ELSE "timedOut"
  /\ result' = sent
  /\ UNCHANGED <<sinkVars, linkVars, inflight, sent, queue, snd, hand, wire,
                 connectionLost, lost>>

-----------------------------------------------------------------------------
(* sink(), from a tracer callback on any traced thread.                    *)

SinkEnter(t) ==
  /\ main = "running"
  /\ pc[t] = "idle"
  /\ calls[t] < MaxCalls
  /\ pc' = [pc EXCEPT ![t] = "entered"]
  /\ calls' = [calls EXCEPT ![t] = @ + 1]
  /\ UNCHANGED <<mainVars, linkVars, inflight, dropped, sent, queue, snd,
                 hand, wire, connectionLost, lost>>

\* Mutant: the slot is taken before the cap is tested, and kept on a drop.
SinkDropKeepsSlot(t) ==
  /\ pc[t] = "entered"
  /\ inflight >= MaxInflight
  /\ pc' = [pc EXCEPT ![t] = "idle"]
  /\ dropped' = dropped + 1
  /\ inflight' = inflight + 1
  /\ UNCHANGED <<mainVars, linkVars, calls, sent, queue, snd, hand, wire,
                 connectionLost, lost>>

SinkDrop(t) ==
  /\ pc[t] = "entered"
  /\ inflight >= MaxInflight
  /\ pc' = [pc EXCEPT ![t] = "idle"]
  /\ dropped' = dropped + 1
  /\ UNCHANGED <<mainVars, linkVars, calls, inflight, sent, queue, snd,
                 hand, wire, connectionLost, lost>>

SinkReserve(t) ==
  /\ pc[t] = "entered"
  /\ inflight < MaxInflight
  /\ pc' = [pc EXCEPT ![t] = "reserved"]
  /\ inflight' = inflight + 1
  /\ UNCHANGED <<mainVars, linkVars, calls, dropped, sent, queue, snd,
                 hand, wire, connectionLost, lost>>

\* Mutant: a LIFO queue.
SinkPutInFront(t) ==
  /\ pc[t] = "reserved"
  /\ pc' = [pc EXCEPT ![t] = "idle"]
  /\ queue' = <<<<t, calls[t]>>>> \o queue
  /\ UNCHANGED <<mainVars, linkVars, calls, inflight, dropped, sent, snd,
                 hand, wire, connectionLost, lost>>

SinkPut(t) ==
  /\ pc[t] = "reserved"
  /\ pc' = [pc EXCEPT ![t] = "idle"]
  /\ queue' = Append(queue, <<t, calls[t]>>)
  /\ UNCHANGED <<mainVars, linkVars, calls, inflight, dropped, sent, snd,
                 hand, wire, connectionLost, lost>>

-----------------------------------------------------------------------------
(* The sender thread.                                                      *)

\* Connected and session_start sent; then _connected is set.
Connect ==
  /\ snd = "connecting"
  /\ wire' = <<StartMsg>>
  /\ connected' = TRUE
  /\ snd' = "polling"
  /\ UNCHANGED <<mainVars, sinkVars, inflight, sent, queue, hand,
                 connectError, connectionLost, lost>>

\* The error is recorded before _connected wakes start().
ConnectFails ==
  /\ snd = "connecting"
  /\ connectError' = TRUE
  /\ connected' = TRUE
  /\ snd' = "exited"
  /\ UNCHANGED <<mainVars, sinkVars, inflight, sent, queue, hand, wire,
                 connectionLost, lost>>

\* Mutant: the loop stops on a flag set by finish(), not on the sentinel.
TakeUntilFinish ==
  /\ snd = "polling"
  /\ IF main = "joining"
       THEN snd' = "ending" /\ UNCHANGED <<queue, hand>>
       ELSE /\ queue # <<>>
            /\ queue' = Tail(queue)
            /\ snd' = "sending" /\ hand' = Head(queue)
  /\ UNCHANGED <<mainVars, sinkVars, linkVars, inflight, sent, wire,
                 connectionLost, lost>>

\* queue.get() in the drain loop; the sentinel ends the loop.
Take ==
  /\ snd = "polling"
  /\ queue # <<>>
  /\ queue' = Tail(queue)
  /\ IF Head(queue) = Sentinel
       THEN snd' = "ending" /\ UNCHANGED hand
       ELSE snd' = "sending" /\ hand' = Head(queue)
  /\ UNCHANGED <<mainVars, sinkVars, linkVars, inflight, sent, wire,
                 connectionLost, lost>>

SendOk ==
  /\ snd = "sending"
  /\ wire' = Append(wire, EventMsg(hand))
  /\ snd' = "counting"
  /\ UNCHANGED <<mainVars, sinkVars, linkVars, inflight, sent, queue, hand,
                 connectionLost, lost>>

CountSent ==
  /\ snd = "counting"
  /\ sent' = sent + 1
  /\ inflight' = inflight - 1
  /\ hand' = NoItem
  /\ snd' = "polling"
  /\ UNCHANGED <<mainVars, sinkVars, linkVars, queue, wire,
                 connectionLost, lost>>

\* The connection closed, or the event could not be serialised.  The slot of
\* the event in hand is not given back.
SendFails ==
  /\ snd = "sending"
  /\ connectionLost' = TRUE
  /\ snd' = "flushing"
  /\ hand' = NoItem
  /\ lost' = lost + 1
  /\ UNCHANGED <<mainVars, sinkVars, linkVars, inflight, sent, queue, wire>>

\* Mutant: the flush discards the sentinel like any other item.
FlushForever ==
  /\ snd = "flushing"
  /\ queue # <<>>
  /\ queue' = Tail(queue)
  /\ lost' = lost + 1
  /\ UNCHANGED <<mainVars, sinkVars, linkVars, inflight, sent, snd, hand, wire,
                 connectionLost>>

\* queue.get() in _flush_to_sentinel.
Flush ==
  /\ snd = "flushing"
  /\ queue # <<>>
  /\ queue' = Tail(queue)
  /\ IF Head(queue) = Sentinel
       THEN snd' = "exited" /\ UNCHANGED lost
       ELSE lost' = lost + 1 /\ UNCHANGED snd
  /\ UNCHANGED <<mainVars, sinkVars, linkVars, inflight, sent, hand, wire,
                 connectionLost>>

EndOk ==
  /\ snd = "ending"
  /\ wire' = Append(wire, EndMsg(sent))
  /\ snd' = "exited"
  /\ UNCHANGED <<mainVars, sinkVars, linkVars, inflight, sent, queue, hand,
                 connectionLost, lost>>

\* Mutant: a session_end that cannot be sent is not reported.
EndFailsQuietly ==
  /\ snd = "ending"
  /\ snd' = "exited"
  /\ UNCHANGED <<mainVars, sinkVars, linkVars, inflight, sent, queue, hand,
                 wire, connectionLost, lost>>

EndFails ==
  /\ snd = "ending"
  /\ connectionLost' = TRUE
  /\ snd' = "exited"
  /\ UNCHANGED <<mainVars, sinkVars, linkVars, inflight, sent, queue, hand,
                 wire, lost>>

-----------------------------------------------------------------------------
Main == StartThread \/ StartWakes \/ StartTimesOut \/ Finish \/ FinishReturns

Sink(t) == SinkEnter(t) \/ SinkDrop(t) \/ SinkReserve(t) \/ SinkPut(t)

Sender == \/ Connect \/ ConnectFails \/ Take \/ SendOk \/ CountSent
          \/ SendFails \/ Flush \/ EndOk \/ EndFails

Next == Main \/ Sender \/ \E t \in Threads : Sink(t)

Spec == Init /\ [][Next]_vars

\* A send ends, well or badly (the keepalive of the WebSocket closes a dead
\* link); a callback that began returns, since sink() never blocks.
Fairness ==
  /\ WF_vars(Sender)
  /\ \A t \in Threads : WF_vars(SinkDrop(t) \/ SinkReserve(t) \/ SinkPut(t))

FairSpec == Spec /\ Fairness
-----------------------------------------------------------------------------
(* Properties.                                                             *)

Reserved == {t \in Threads : pc[t] = "reserved"}
HoldsSentinel(q) == \E i \in DOMAIN q : q[i] = Sentinel
SentinelQueued == HoldsSentinel(queue)
QueuedEvents == Len(queue) - (IF SentinelQueued THEN 1 ELSE 0)
InHand == IF snd \in {"sending", "counting"} THEN 1 ELSE 0
EndSent == wire # <<>> /\ wire[Len(wire)].kind = "end"

\* Every variable of the sender and of its callers stays in its range; the
\* counters never go below zero.
TypeOK ==
  /\ main \in {"new", "starting", "running", "failed", "joining",
               "done", "timedOut"}
  /\ pc \in [Threads -> {"idle", "entered", "reserved"}]
  /\ calls \in [Threads -> 0 .. MaxCalls]
  /\ inflight \in Nat /\ dropped \in Nat /\ sent \in Nat
  /\ queue \in Seq(Events \cup {Sentinel})
  /\ snd \in {"off", "connecting", "polling", "sending", "counting",
              "flushing", "ending", "exited"}
  /\ hand \in Events \cup {NoItem}
  /\ wire \in Seq(Messages)
  /\ connected \in BOOLEAN /\ connectError \in BOOLEAN
  /\ connectionLost \in BOOLEAN
  /\ result \in Nat /\ lost \in Nat

\* Every slot taken by sink() is held by exactly one event: between the two
\* halves of sink(), in the queue, in the sender's hand, or leaked when the
\* connection was lost - and leaked only then.
SlotAccounting ==
  /\ inflight = Cardinality(Reserved) + QueuedEvents + InHand + lost
  /\ ~connectionLost => lost = 0

\* The cap bounds the memory the stream holds, however the threads interleave:
\* at most MaxInflight events and the sentinel are ever queued.
QueueBounded == Len(queue) <= MaxInflight + 1

\* trace_session_end closes the stream with the number of events that
\* precede it on the wire.
EndCountExact ==
  \A i \in DOMAIN wire : wire[i].kind = "end" =>
    i = Len(wire) /\ wire[i].count = Len(wire) - 2

\* A caller that finds connection_lost false after a finish() that joined the
\* thread knows that the server was told the end, with the count it got.
FinishIsTruthful ==
  main = "done" /\ ~connectionLost => EndSent /\ wire[Len(wire)].count = result

\* Emitted events whose fate is not decided.
Undecided ==
  {<<t, calls[t]>> : t \in {u \in Threads : pc[u] # "idle"}}
    \cup {queue[i] : i \in {j \in DOMAIN queue : queue[j] # Sentinel}}
    \cup (IF snd = "sending" THEN {hand} ELSE {})

\* "No tail loss on a live connection", for the thread that calls finish():
\* when the stream was ended in order, each call of the main thread was sent
\* or dropped at the cap.
NoTailLoss == EndSent => \A e \in Undecided : e[1] # MainThread

\* finish() is not left waiting: once the sentinel is queued the sender
\* thread ends, whatever happens to the connection.
SenderEnds == main = "joining" ~> snd = "exited"

\* The mapping onto the abstract stream.
EventsOf(w) ==
  [i \in 1 .. Len(w) - 1 - (IF w[Len(w)].kind = "end" THEN 1 ELSE 0)
     |-> w[i + 1].event]

Abstract == INSTANCE EventStream WITH
  Open <- NoItem,
  issued <- calls,
  pending <- Undecided,
  delivered <- IF wire = <<>> THEN <<>> ELSE EventsOf(wire),
  total <- IF EndSent THEN wire[Len(wire)].count ELSE NoItem

\* Every behaviour of the sender is one the abstract stream allows: at most
\* once, in order thread by thread, closed once with the exact count.
ImplementsEventStream == Abstract!Spec
=============================================================================
