------------------------------- MODULE LiveHub -------------------------------
(***************************************************************************)
(* The live-ingest side of `grackle serve` (server.py, live_buffer.py): one *)
(* event loop, one handler task per websocket.  A handler registers its    *)
(* client, pushes the static graph, flushes the ring buffer to it and then *)
(* receives; a message received from a producer goes into the ring and to  *)
(* every other registered client, one awaited send after another.          *)
(*                                                                         *)
(* A send hands its frame over at once (sends to one websocket are served  *)
(* in call order) and then suspends its task for as long as the receiver   *)
(* does not read.  So wire[c], what client c will have received, grows by   *)
(* calls, and the other tasks run between any two sends of one task.       *)
(*                                                                         *)
(* log, joined and live are history variables: all ingested messages, and  *)
(* how many of them there were when a client's history began and when it   *)
(* had been flushed.                                                       *)
(***************************************************************************)
EXTENDS Naturals, Sequences, FiniteSets

CONSTANTS
  Producers, Viewers,  \* websockets, by what the peer does with them
  MaxMsgs,             \* bound: messages of one producer
  MaxRing,             \* GRACKLE_TRACE_BUFFER_MAX_EVENTS
  Graph, None

Clients == Producers \cup Viewers
Messages == [from : Producers, n : 1 .. MaxMsgs]

ASSUME HubAssumption ==
  /\ MaxMsgs \in Nat
  /\ MaxRing \in Nat \ {0}
  /\ Producers \cap Viewers = {}
  /\ None \notin Clients /\ Graph \notin Messages

VARIABLES
  pc,        \* each client's handler task
  open,      \* websockets that are open
  reading,   \* clients whose peer reads its socket
  connections,
  ring,
  taken,     \* messages received from each producer so far
  history,   \* what a handler still has to flush
  fanout,    \* clients a broadcast still has to reach
  sending,   \* the client whose drain a task awaits
  wire, log, joined, live

history_vars == <<log, joined, live>>
vars == <<pc, open, reading, connections, ring, taken, history, fanout,
          sending, wire, log, joined, live>>

Init ==
  /\ pc = [c \in Clients |-> "away"]
  /\ open = {} /\ reading = Clients /\ connections = {}
  /\ ring = <<>>
  /\ taken = [p \in Producers |-> 0]
  /\ history = [c \in Clients |-> <<>>]
  /\ fanout = [p \in Producers |-> {}]
  /\ sending = [c \in Clients |-> None]
  /\ wire = [c \in Clients |-> <<>>]
  /\ log = <<>>
  /\ joined = [c \in Clients |-> 0]
  /\ live = [c \in Clients |-> 0]

\* Mutant: a send to a websocket that closed meanwhile never returns.
SendReturnsWhenRead(c) == sending[c] # None => sending[c] \in reading

\* ConnectionClosed ends a send too.
SendReturns(c) == sending[c] # None => sending[c] \in reading \/ sending[c] \notin open

\* The frame is handed over, and c's task awaits its drain; on a closed
\* websocket the send raises at once.
SendTo(c, receiver, item) ==
  IF receiver \in open
    THEN /\ wire' = [wire EXCEPT ![receiver] = Append(@, item)]
         /\ sending' = [sending EXCEPT ![c] = receiver]
    ELSE /\ sending' = [sending EXCEPT ![c] = None]
         /\ UNCHANGED wire

\* The newest entries: the age trim drops any number of old ones, never the
\* one just appended, and the cap is applied after it.
Kept(r) == {SubSeq(r, k, Len(r)) :
              k \in {j \in 1 .. Len(r) : Len(r) - j < MaxRing}}
-----------------------------------------------------------------------------
(* The peers.                                                              *)

\* Registration, the graph build and the send that carries it are one step:
\* there is no await in between.  (A root with no adapter has no graph to
\* send, and everything else is the same.)
Connect(c) ==
  /\ pc[c] = "away"
  /\ pc' = [pc EXCEPT ![c] = "graph"]
  /\ open' = open \cup {c}
  /\ connections' = connections \cup {c}
  /\ wire' = [wire EXCEPT ![c] = Append(@, Graph)]
  /\ sending' = [sending EXCEPT ![c] = c]
  /\ UNCHANGED <<reading, ring, taken, history, fanout, history_vars>>

\* External: the peer leaves, or the keepalive closes the websocket.
Close(c) ==
  /\ c \in open
  /\ open' = open \ {c}
  /\ UNCHANGED <<pc, reading, connections, ring, taken, history, fanout,
                 sending, wire, history_vars>>

\* External: the peer stops reading, for good.  One that is only slow is a
\* task that takes its next step late.
Stall(c) ==
  /\ c \in open \cap reading
  /\ reading' = reading \ {c}
  /\ UNCHANGED <<pc, open, connections, ring, taken, history, fanout, sending,
                 wire, history_vars>>
-----------------------------------------------------------------------------
(* One handler task.                                                       *)

\* flush_ring_buffer iterates over a copy of the ring.
StartFlush(c) ==
  /\ pc[c] = "graph" /\ SendReturns(c)
  /\ pc' = [pc EXCEPT ![c] = "flush"]
  /\ history' = [history EXCEPT ![c] = ring]
  /\ sending' = [sending EXCEPT ![c] = None]
  /\ joined' = [joined EXCEPT ![c] = Len(log) - Len(ring)]
  /\ UNCHANGED <<open, reading, connections, ring, taken, fanout, wire, log, live>>

\* Sending to the one client whose handler this is: a closed websocket ends
\* the flush.
FlushOne(c) ==
  /\ pc[c] = "flush" /\ SendReturns(c)
  /\ history[c] # <<>>
  /\ SendTo(c, c, Head(history[c]))
  /\ history' = [history EXCEPT ![c] = IF c \in open THEN Tail(@) ELSE <<>>]
  /\ UNCHANGED <<pc, open, reading, connections, ring, taken, fanout,
                 history_vars>>

FlushDone(c) ==
  /\ pc[c] = "flush" /\ SendReturns(c)
  /\ history[c] = <<>>
  /\ pc' = [pc EXCEPT ![c] = "receive"]
  /\ sending' = [sending EXCEPT ![c] = None]
  /\ live' = [live EXCEPT ![c] = Len(log)]
  /\ UNCHANGED <<open, reading, connections, ring, taken, history, fanout,
                 wire, log, joined>>

Idle(c) == pc[c] = "receive" /\ (c \in Producers => fanout[c] = {})

\* A live-ingest message: into the ring, trimmed, then to everyone else who
\* is registered now.
Ingest(p) ==
  /\ Idle(p) /\ SendReturns(p)
  /\ taken[p] < MaxMsgs
  /\ LET msg == [from |-> p, n |-> taken[p] + 1] IN
     /\ \E kept \in Kept(Append(ring, msg)) : ring' = kept
     /\ log' = Append(log, msg)
  /\ taken' = [taken EXCEPT ![p] = @ + 1]
  /\ fanout' = [fanout EXCEPT ![p] = connections \ {p}]
  /\ sending' = [sending EXCEPT ![p] = None]
  /\ UNCHANGED <<pc, open, reading, connections, history, wire, joined, live>>

\* Mutant: ConnectionClosed is suppressed around the loop, not inside it.
FanOutUntilClosed(p) ==
  /\ fanout[p] # {} /\ SendReturns(p)
  /\ \E c \in fanout[p] :
       /\ SendTo(p, c, [from |-> p, n |-> taken[p]])
       /\ fanout' = [fanout EXCEPT ![p] = IF c \in open THEN @ \ {c} ELSE {}]
  /\ UNCHANGED <<pc, open, reading, connections, ring, taken, history,
                 history_vars>>

\* Mutant: a send that was slow is repeated.
FanOutRetries(p) ==
  /\ fanout[p] # {} /\ SendReturns(p)
  /\ \E c \in fanout[p] :
       /\ SendTo(p, c, [from |-> p, n |-> taken[p]])
       /\ fanout' = [fanout EXCEPT ![p] = IF sending[p] = c THEN @ \ {c} ELSE @]
  /\ UNCHANGED <<pc, open, reading, connections, ring, taken, history,
                 history_vars>>

FanOut(p) ==
  /\ fanout[p] # {} /\ SendReturns(p)
  /\ \E c \in fanout[p] :
       /\ SendTo(p, c, [from |-> p, n |-> taken[p]])
       /\ fanout' = [fanout EXCEPT ![p] = @ \ {c}]
  /\ UNCHANGED <<pc, open, reading, connections, ring, taken, history,
                 history_vars>>

\* The receive loop, or a send of the graph, ended with ConnectionClosed: the
\* handler unregisters its client.
Leave(c) ==
  /\ c \notin open
  /\ pc[c] = "graph" \/ Idle(c)
  /\ SendReturns(c)
  /\ pc' = [pc EXCEPT ![c] = "gone"]
  /\ connections' = connections \ {c}
  /\ sending' = [sending EXCEPT ![c] = None]
  /\ UNCHANGED <<open, reading, ring, taken, history, fanout, wire, history_vars>>

Task(c) ==
  \/ StartFlush(c) \/ FlushOne(c) \/ FlushDone(c) \/ Leave(c)
  \/ c \in Producers /\ FanOut(c)

Peer(c) ==
  \/ Connect(c) \/ Close(c) \/ Stall(c)
  \/ c \in Producers /\ Ingest(c)

Next == \E c \in Clients : Task(c) \/ Peer(c)

Spec == Init /\ [][Next]_vars

\* The event loop runs every task that is ready.  That a peer which stopped
\* reading is disconnected one day is assumed: no timeout of the code does it.
FairSpec ==
  /\ Spec
  /\ \A c \in Clients : WF_vars(Task(c)) /\ WF_vars(c \notin reading /\ Close(c))
-----------------------------------------------------------------------------
\* Every variable stays in its range, and no client is sent more than a graph
\* and each message once from the ring and once live.
TypeOK ==
  /\ pc \in [Clients -> {"away", "graph", "flush", "receive", "gone"}]
  /\ open \subseteq connections /\ connections \subseteq Clients
  /\ reading \subseteq Clients
  /\ ring \in Seq(Messages) /\ log \in Seq(Messages)
  /\ taken \in [Producers -> 0 .. MaxMsgs]
  /\ history \in [Clients -> Seq(Messages)]
  /\ fanout \in [Producers -> SUBSET Clients]
  /\ sending \in [Clients -> Clients \cup {None}]
  /\ wire \in [Clients -> Seq(Messages \cup {Graph})]
  /\ \A c \in Clients : Len(wire[c]) <= 1 + 2 * Len(log)
  /\ \A c \in Clients : joined[c] \in 0 .. Len(log) /\ live[c] \in 0 .. Len(log)

SentTo(c, m) == \E i \in 1 .. Len(wire[c]) : wire[c][i] = m

\* A client that has been flushed missed nothing from the oldest message in
\* its copy of the ring to the newest one ingested: what is not sent to it is
\* its own, or is being broadcast.
NothingMissed ==
  \A c \in open : pc[c] = "receive" =>
    \A i \in joined[c] + 1 .. Len(log) :
      LET m == log[i] IN
      \/ m.from = c
      \/ SentTo(c, m)
      \/ m.n = taken[m.from] /\ c \in fanout[m.from]

\* m was ingested when client c had already been flushed.
Late(c, m) == \E i \in live[c] + 1 .. Len(log) : log[i] = m

\* From then on each producer's messages come once each and in order, however
\* the handlers of other clients interleave.
LiveInOrder ==
  \A c \in Clients : pc[c] = "receive" =>
    \A i, j \in 1 .. Len(wire[c]) :
      i < j /\ Late(c, wire[c][i]) /\ Late(c, wire[c][j]) /\ wire[c][i].from = wire[c][j].from
        => wire[c][i].n < wire[c][j].n

\* A producer's receive loop is in broadcast(): clients are still to be sent
\* to, or the last send has not returned.
Broadcasting(p) == pc[p] = "receive" /\ (fanout[p] # {} \/ ~SendReturns(p))

\* Every broadcast returns, whoever stops reading or leaves during it, two
\* producers that wait for each other's peer among them, if those who stop
\* reading leave.
BroadcastEnds == \A p \in Producers : Broadcasting(p) ~> ~Broadcasting(p)

=============================================================================
