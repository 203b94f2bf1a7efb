---------------------------- MODULE Trace_proofs ----------------------------
(***************************************************************************)
(* Proofs about a trace at its two ends.                                     *)
(*                                                                         *)
(* Tracer: an event's depth is its stack's, a failure of the sink is told,  *)
(* and the file has whole lines, for any threads, cap and bounds.           *)
(* TraceClient: the replies a tab takes, their order, and what a live       *)
(* session shows, for any sessions, lengths, windows and users.              *)
(***************************************************************************)
EXTENDS TraceClient, Tracer, FiniteSetTheorems, SequenceTheorems, TLAPS

Slices == {Slice(s, n) : s \in Stored, n \in Nat}
ServerMessages ==
    [type : {"seek"}, id : Nat, sid : Stored, start : Nat] \cup [type : {"load"}, n : Nat, sid : Stored]
ClientMessages ==
    [type : {"window"}, id : Nat, sid : Stored, events : Slices, total : Nat]
      \cup [type : {"error"}, id : Nat]
      \cup [type : {"start"}, sid : Stored, seekable : {TRUE}]
      \cup [type : {"start"}, sid : Live, seekable : {FALSE}]
      \cup [type : {"end"}, sid : Sessions]
      \cup [type : {"event"}, event : Live \X Nat]
Seeks == {"seek"}
Replies == {"window", "error"}

\* Only stored sessions are seekable, and only they are asked for.
TypeInv ==
    /\ total \in Nat /\ nextId \in Nat /\ epoch \in Nat /\ clicks \in Nat
    /\ seekable \in BOOLEAN /\ (seekable => session \in Stored)
    /\ debounce # None => debounce \in [sid : Stored, start : Nat]
    /\ asked \subseteq Requests /\ pending \subseteq Nat
    /\ windowBy # None => windowBy \in Requests
    /\ toServer \in Seq(ServerMessages) /\ toClient \in Seq(ClientMessages)
    /\ loads \subseteq [n : Nat, sid : Stored, stage : {"building", "ending"}]
    /\ sent \in [Live -> Nat]

\* An entry of the map is a request of the session on screen; the requests
\* that time out later have no entry.
FreshInv ==
    /\ \A r \in asked : r.id < nextId
    /\ \A n \in pending : n < nextId
    /\ \A r \in asked : r.id \in pending => r.epoch = epoch
    /\ windowBy # None => windowBy.epoch = epoch /\ windowBy.id < nextId

\* Replies come in the order of the requests, and what is on its way is newer
\* than what is shown.
OrderInv ==
    /\ \A i, j \in DOMAIN toServer :
         i < j /\ toServer[i].type \in Seeks /\ toServer[j].type \in Seeks => toServer[i].id < toServer[j].id
    /\ \A i, j \in DOMAIN toClient :
         i < j /\ toClient[i].type \in Replies /\ toClient[j].type \in Replies => toClient[i].id < toClient[j].id
    /\ \A i \in DOMAIN toClient : \A j \in DOMAIN toServer :
         toClient[i].type \in Replies /\ toServer[j].type \in Seeks => toClient[i].id < toServer[j].id
    /\ \A j \in DOMAIN toServer : toServer[j].type \in Seeks =>
         /\ toServer[j].id < nextId
         /\ windowBy # None => windowBy.id < toServer[j].id
    /\ \A i \in DOMAIN toClient : toClient[i].type \in Replies =>
         /\ toClient[i].id < nextId
         /\ windowBy # None => windowBy.id < toClient[i].id

\* Until a window replaces them, the events are those received.
LiveInv ==
    /\ buffer \in Seq(Live \X Nat) /\ received \in Seq(Live \X Nat)
    /\ windowBy = None =>
         /\ events \in Seq(Live \X Nat)
         /\ events \o buffer = received
         /\ complete => Len(events) >= ended /\ ended \in Nat

TabInv == TypeInv /\ FreshInv /\ OrderInv /\ LiveInv

(***************************************************************************)
(* Sequences.                                                                *)
(***************************************************************************)
LEMMA TailIs ==
    ASSUME NEW S, NEW s \in Seq(S), s # <<>>
    PROVE  /\ Tail(s) \in Seq(S) /\ Head(s) = s[1] /\ 1 \in DOMAIN s /\ Head(s) \in S
           /\ \A i \in DOMAIN Tail(s) : i \in Nat \ {0} /\ i + 1 \in DOMAIN s /\ Tail(s)[i] = s[i + 1]
OBVIOUS

LEMMA AppendIs ==
    ASSUME NEW S, NEW s \in Seq(S), NEW e \in S
    PROVE  /\ Append(s, e) \in Seq(S)
           /\ \A i \in DOMAIN Append(s, e) :
                \/ i \in DOMAIN s /\ Append(s, e)[i] = s[i]
                \/ i = Len(s) + 1 /\ Append(s, e)[i] = e
           /\ \A i \in DOMAIN s : i < Len(s) + 1
OBVIOUS

LEMMA Half == \A n \in Nat : n \div 2 \in Nat
OBVIOUS

(***************************************************************************)
(* Types.                                                                    *)
(***************************************************************************)
LEMMA InitInv == ASSUME Init PROVE TabInv
<1>1. TypeInv
  <2>1. <<>> \in Seq(ServerMessages) /\ <<>> \in Seq(ClientMessages)
    OBVIOUS
  <2> QED BY <2>1 DEF Init, TypeInv
<1>2. FreshInv /\ OrderInv
  BY DEF Init, FreshInv, OrderInv
<1>3. <<>> \in Seq(Live \X Nat) /\ <<>> \o <<>> = <<>> /\ Len(<<>>) = 0
  OBVIOUS
<1> QED BY <1>1, <1>2, <1>3 DEF Init, LiveInv, TabInv

LEMMA SendTypes ==
    ASSUME TypeInv, NEW m \in ClientMessages, ToClient(m)
    PROVE  toClient' \in Seq(ClientMessages)
<1>1. toClient \in Seq(ClientMessages) /\ toClient' = Append(toClient, m)
  BY DEF TypeInv, ToClient
<1> QED BY <1>1, AppendIs

\* What the server sends has the type of a message.
LEMMA ServerTypes == ASSUME TypeInv, Server PROVE TypeInv'
<1> USE ClientAssumption DEF TypeInv
<1>1. CASE ServeSeek
  <2>1. /\ Head(toServer) \in ServerMessages /\ Head(toServer).type = "seek"
        /\ toServer' \in Seq(ServerMessages)
    BY <1>1, TailIs DEF ServeSeek
  <2> DEFINE q == Head(toServer)
  <2>2. q \in [type : {"seek"}, id : Nat, sid : Stored, start : Nat]
    BY <2>1 DEF ServerMessages
  <2> HIDE DEF q
  <2>3. Reply(q) \in ClientMessages
    <3>1. Slice(q.sid, q.start) \in Slices /\ TraceLen[q.sid] \in Nat
      BY <2>2 DEF Slices
    <3> QED BY <2>2, <3>1 DEF Reply, ClientMessages
  <2>4. [type |-> "error", id |-> q.id] \in ClientMessages
    BY <2>2 DEF ClientMessages
  <2>5. ToClient(Reply(q)) \/ ToClient([type |-> "error", id |-> q.id])
    BY <1>1 DEF ServeSeek, q
  <2>6. toClient' \in Seq(ClientMessages)
    <3> HIDE DEF TypeInv
    <3> QED BY <2>3, <2>4, <2>5, SendTypes
  <2> QED BY <1>1, <2>1, <2>6 DEF ServeSeek, ServerOnly, server, store, user, history
<1>2. CASE ServeLoad
  <2>1. Head(toServer) \in ServerMessages /\ Head(toServer).type = "load" /\ toServer' \in Seq(ServerMessages)
    BY <1>2, TailIs DEF ServeLoad
  <2>2. Head(toServer) \in [type : {"load"}, n : Nat, sid : Stored]
    BY <2>1 DEF ServerMessages
  <2> QED BY <1>2, <2>1, <2>2 DEF ServeLoad, ServerOnly, store, user, history
<1>3. ASSUME NEW t \in loads, LoadStarts(t) \/ LoadEnds(t) \/ LoadFails(t) PROVE TypeInv'
  <2>1. t.sid \in Stored /\ loads' \subseteq [n : Nat, sid : Stored, stage : {"building", "ending"}]
    BY <1>3 DEF LoadStarts, LoadEnds, LoadFails
  <2>2. /\ [type |-> "start", sid |-> t.sid, seekable |-> TRUE] \in ClientMessages
        /\ [type |-> "end", sid |-> t.sid] \in ClientMessages
    BY <2>1 DEF ClientMessages, Sessions
  <2>3. toClient' \in Seq(ClientMessages)
    <3>1. CASE LoadFails(t)
      BY <3>1 DEF LoadFails, wires
    <3>2. CASE LoadStarts(t) \/ LoadEnds(t)
      <4> HIDE DEF TypeInv
      <4> QED BY <2>2, <3>2, SendTypes DEF LoadStarts, LoadEnds
    <3> QED BY <1>3, <3>1, <3>2
  <2> QED BY <1>3, <2>1, <2>3 DEF LoadStarts, LoadEnds, LoadFails, ServerOnly, store, user, history, wires
<1>4. ASSUME NEW l \in Live, Broadcast(l) PROVE TypeInv'
  <2>1. /\ [type |-> "start", sid |-> l, seekable |-> FALSE] \in ClientMessages
        /\ [type |-> "end", sid |-> l] \in ClientMessages
        /\ [type |-> "event", event |-> <<l, sent[l] + 1>>] \in ClientMessages
    <3>1. <<l, sent[l] + 1>> \in Live \X Nat
      OBVIOUS
    <3>2. [type |-> "event", event |-> <<l, sent[l] + 1>>] \in [type : {"event"}, event : Live \X Nat]
      BY <3>1
    <3> QED BY <3>2 DEF ClientMessages, Sessions
  <2>2. sent' \in [Live -> Nat]
    <3>1. sent' = sent \/ sent' = [sent EXCEPT ![l] = @ + 1]
      BY <1>4 DEF Broadcast
    <3> QED BY <3>1
  <2>3. toClient' \in Seq(ClientMessages)
    <3> HIDE DEF TypeInv
    <3> QED BY <1>4, <2>1, SendTypes DEF Broadcast
  <2> QED BY <1>4, <2>2, <2>3 DEF Broadcast, ServerOnly, store, user, history
<1>5. CASE Close
  BY <1>5 DEF Close, store, user, history
<1> QED BY <1>1, <1>2, <1>3, <1>4, <1>5 DEF Server

\* A request has the type of one.
LEMMA AskTypes ==
    ASSUME TypeInv, epoch' \in Nat, NEW sid \in Stored, NEW start \in Nat, NEW why \in {"initial", "scrub"},
           NEW entries \in SUBSET Nat, Ask(Request(sid, start, why), asked, entries)
    PROVE  /\ asked' \subseteq Requests /\ pending' \subseteq Nat /\ nextId' \in Nat
           /\ toServer' \in Seq(ServerMessages)
<1> DEFINE r == Request(sid, start, why)
           m == [type |-> "seek", id |-> r.id, sid |-> r.sid, start |-> r.start]
<1>1. r \in Requests
  BY DEF TypeInv, Request, Requests
<1>2. m \in ServerMessages
  BY <1>1 DEF Requests, ServerMessages
<1>3. r.id \in Nat
  BY <1>1 DEF Requests
<1>4. /\ toServer' = Append(toServer, m) /\ asked' = asked \cup {r} /\ pending' = entries \cup {r.id}
      /\ nextId' = nextId + 1
  BY DEF Ask
<1> HIDE DEF r, m
<1>5. toServer' \in Seq(ServerMessages)
  <2>1. toServer \in Seq(ServerMessages)
    BY DEF TypeInv
  <2> QED BY <1>2, <1>4, <2>1, AppendIs
<1>6. asked' \subseteq Requests
  BY <1>1, <1>4 DEF TypeInv
<1>7. pending' \subseteq Nat
  BY <1>3, <1>4
<1>8. nextId' \in Nat
  BY <1>4 DEF TypeInv
<1> QED BY <1>5, <1>6, <1>7, <1>8

LEMMA TabTypes == ASSUME TypeInv, Tab PROVE TypeInv'
<1> USE ClientAssumption DEF TypeInv
<1>1. ASSUME NEW s \in Stored, ClickLoad(s) PROVE TypeInv'
  <2>1. [type |-> "load", n |-> clicks', sid |-> s] \in ServerMessages /\ clicks' \in Nat
    BY <1>1 DEF ClickLoad, ServerMessages
  <2>2. toServer' \in Seq(ServerMessages)
    BY <1>1, <2>1, AppendIs DEF ClickLoad
  <2> QED BY <1>1, <2>1, <2>2 DEF ClickLoad, store, server, history
<1>2. ASSUME NEW p \in 0 .. total, Scrub(p) PROVE TypeInv'
  <2>1. WindowSize \div 2 \in Nat
    BY Half
  <2>2. (IF p > WindowSize \div 2 THEN p - WindowSize \div 2 ELSE 0) \in Nat
    BY <2>1
  <2> QED BY <1>2, <2>2 DEF Scrub, store, wires, server, history
<1>3. CASE DebounceFires
  <2>1. CASE open
    <3>1. debounce.sid \in Stored /\ debounce.start \in Nat /\ epoch' \in Nat
      BY <1>3 DEF DebounceFires
    <3>2. Ask(Request(debounce.sid, debounce.start, "scrub"), asked, pending)
      BY <1>3, <2>1 DEF DebounceFires
    <3>3. /\ asked' \subseteq Requests /\ pending' \subseteq Nat /\ nextId' \in Nat
          /\ toServer' \in Seq(ServerMessages)
      BY <3>1, <3>2, AskTypes
    <3> QED BY <1>3, <3>3 DEF DebounceFires, store, server, user
  <2>2. CASE ~open
    BY <1>3, <2>2 DEF DebounceFires, store, server, user
  <2> QED BY <2>1, <2>2
<1>4. ASSUME NEW r \in asked, Timeout(r) PROVE TypeInv'
  BY <1>4 DEF Timeout, Fails, wires, server, user
<1>5. CASE Start
  <2> DEFINE m == Head(toClient)
  <2>1. m \in ClientMessages /\ m.type = "start" /\ toClient' \in Seq(ClientMessages)
    BY <1>5, TailIs DEF Start, Receive
  <2>2. m.seekable \in BOOLEAN /\ (m.seekable => m.sid \in Stored)
    BY <2>1 DEF ClientMessages
  <2>3. epoch' \in Nat
    BY <1>5 DEF Start
  <2>4. /\ asked' \subseteq Requests /\ pending' \subseteq Nat /\ nextId' \in Nat
        /\ toServer' \in Seq(ServerMessages)
    <3>1. CASE m.seekable /\ <<m.seekable, m.sid>> # <<seekable, session>>
      <4>1. Ask(Request(m.sid, 0, "initial"), asked, {}) /\ m.sid \in Stored
        BY <1>5, <2>2, <3>1 DEF Start
      <4> HIDE DEF m, TypeInv
      <4> QED BY <2>3, <4>1, AskTypes
    <3>2. CASE ~(m.seekable /\ <<m.seekable, m.sid>> # <<seekable, session>>)
      BY <1>5, <3>2 DEF Start
    <3> QED BY <3>1, <3>2
  <2> QED BY <1>5, <2>1, <2>2, <2>3, <2>4 DEF Start, server, user
<1>6. CASE LiveEvent \/ Frame \/ End
  <2>1. toClient' = toClient \/ (toClient # <<>> /\ toClient' = Tail(toClient))
    BY <1>6 DEF LiveEvent, Frame, End, Receive, wires
  <2>2. toClient' \in Seq(ClientMessages)
    <3>1. toClient \in Seq(ClientMessages)
      OBVIOUS
    <3>2. ASSUME toClient # <<>> PROVE Tail(toClient) \in Seq(ClientMessages)
      BY <3>1, <3>2
    <3> QED BY <2>1, <3>1, <3>2
  <2> QED BY <1>6, <2>2 DEF LiveEvent, Frame, End, store, wires, server, user, history
<1>7. CASE Window
  <2>1. /\ Head(toClient) \in ClientMessages /\ Head(toClient).type = "window"
        /\ toClient' \in Seq(ClientMessages)
    BY <1>7, TailIs DEF Window, Receive
  <2>2. Head(toClient).total \in Nat
    BY <2>1 DEF ClientMessages
  <2> QED BY <1>7, <2>1, <2>2 DEF Window, server, user
<1>8. CASE SeekError
  <2>1. toClient' \in Seq(ClientMessages)
    BY <1>8, TailIs DEF SeekError, Receive
  <2> QED BY <1>8, <2>1 DEF SeekError, Fails, server, user
<1> QED BY <1>1, <1>2, <1>3, <1>4, <1>5, <1>6, <1>7, <1>8 DEF Tab
(***************************************************************************)
(* No stale reply.                                                           *)
(***************************************************************************)
\* A new request has an id of its own.
LEMMA AskFresh ==
    ASSUME TypeInv, FreshInv, NEW sid, NEW start, NEW why, NEW entries \in SUBSET Nat,
           Ask(Request(sid, start, why), asked, entries), epoch' = epoch \/ entries = {},
           entries \subseteq pending
    PROVE  /\ nextId' = nextId + 1
           /\ \A r \in asked' : r.id < nextId'
           /\ \A n \in pending' : n < nextId'
           /\ \A r \in asked' : r.id \in pending' => r.epoch = epoch'
<1> DEFINE r == Request(sid, start, why)
<1>1. r.id = nextId /\ r.epoch = epoch'
  BY DEF Request
<1>2. /\ asked' = asked \cup {r} /\ pending' = entries \cup {nextId} /\ nextId' = nextId + 1
  BY <1>1 DEF Ask
<1>3. \A q \in asked : q.id \in Nat /\ q.id < nextId
  BY DEF TypeInv, FreshInv, Requests
<1> HIDE DEF r
<1> QED BY <1>1, <1>2, <1>3 DEF TypeInv, FreshInv

LEMMA FreshKeeps == ASSUME TypeInv, FreshInv, [Next]_vars PROVE FreshInv'
<1>1. CASE DebounceFires
  <2>1. CASE open
    <3>1. Ask(Request(debounce.sid, debounce.start, "scrub"), asked, pending) /\ epoch' = epoch
          /\ windowBy' = windowBy
      BY <1>1, <2>1 DEF DebounceFires
    <3>2. /\ nextId' = nextId + 1
          /\ \A r \in asked' : r.id < nextId'
          /\ \A n \in pending' : n < nextId'
          /\ \A r \in asked' : r.id \in pending' => r.epoch = epoch'
      BY <3>1, AskFresh DEF TypeInv
    <3>3. windowBy # None => windowBy.epoch = epoch /\ windowBy.id < nextId'
      BY <3>2 DEF FreshInv, TypeInv, Requests
    <3>4. /\ \A r \in asked' : r.id < nextId'
          /\ \A n \in pending' : n < nextId'
          /\ \A r \in asked' : r.id \in pending' => r.epoch = epoch'
      BY <3>2
    <3>5. windowBy' = windowBy /\ epoch' = epoch
      BY <3>1
    <3> QED BY <3>3, <3>4, <3>5 DEF FreshInv
  <2>2. CASE ~open
    BY <1>1, <2>2 DEF DebounceFires, FreshInv
  <2> QED BY <2>1, <2>2
<1>2. CASE Start
  <2> DEFINE m == Head(toClient)
  <2>1. CASE m.seekable /\ <<m.seekable, m.sid>> # <<seekable, session>>
    <3>1. Ask(Request(m.sid, 0, "initial"), asked, {}) /\ windowBy' = None
      BY <1>2, <2>1 DEF Start
    <3> HIDE DEF m
    <3>2. /\ nextId' = nextId + 1
          /\ \A r \in asked' : r.id < nextId'
          /\ \A n \in pending' : n < nextId'
          /\ \A r \in asked' : r.id \in pending' => r.epoch = epoch'
      BY <3>1, AskFresh
    <3>3. /\ \A r \in asked' : r.id < nextId'
          /\ \A n \in pending' : n < nextId'
          /\ \A r \in asked' : r.id \in pending' => r.epoch = epoch'
      BY <3>2
    <3>4. windowBy' = None
      BY <3>1
    <3> QED BY <3>3, <3>4 DEF FreshInv
  <2>2. CASE ~(m.seekable /\ <<m.seekable, m.sid>> # <<seekable, session>>)
    BY <1>2, <2>2 DEF Start, FreshInv
  <2> QED BY <2>1, <2>2
<1>3. CASE Window
  BY <1>3 DEF Window, FreshInv
<1>4. CASE SeekError
  BY <1>4 DEF SeekError, FreshInv
<1>5. CASE \E r \in asked : Timeout(r)
  BY <1>5 DEF Timeout, FreshInv
<1>6. CASE (\E s \in Stored : ClickLoad(s)) \/ \E p \in 0 .. total : Scrub(p)
  BY <1>6 DEF ClickLoad, Scrub, FreshInv, history
<1>7. CASE LiveEvent \/ Frame \/ End
  BY <1>7 DEF LiveEvent, Frame, End, FreshInv, history
<1>8. CASE Server
  <2>1. UNCHANGED <<asked, pending, nextId, history>>
    BY <1>8 DEF Server, ServeSeek, ServeLoad, LoadStarts, LoadEnds, LoadFails, Broadcast, Close, ServerOnly
  <2> QED BY <2>1 DEF FreshInv, history
<1>9. CASE UNCHANGED vars
  BY <1>9 DEF vars, FreshInv, history
<1> QED BY <1>1, <1>2, <1>3, <1>4, <1>5, <1>6, <1>7, <1>8, <1>9 DEF Next, Tab

(***************************************************************************)
(* The order of the replies.                                                 *)
(***************************************************************************)
\* The channels lose their heads and the window is what it was, or none.
LEMMA OrderAfter ==
    ASSUME TypeInv, OrderInv,
           toServer' = toServer \/ toServer' = <<>> \/ (toServer # <<>> /\ toServer' = Tail(toServer)),
           toClient' = toClient \/ toClient' = <<>> \/ (toClient # <<>> /\ toClient' = Tail(toClient)),
           windowBy' = windowBy \/ windowBy' = None, nextId' = nextId
    PROVE  OrderInv'
<1>1. PICK a \in {0, 1} : \A i \in DOMAIN toServer' :
        i \in Nat /\ i + a \in DOMAIN toServer /\ toServer'[i] = toServer[i + a]
  <2>1. CASE toServer' = toServer
    BY <2>1 DEF TypeInv
  <2>2. CASE toServer' = <<>>
    BY <2>2
  <2>3. CASE toServer # <<>> /\ toServer' = Tail(toServer)
    BY <2>3, TailIs DEF TypeInv
  <2> QED BY <2>1, <2>2, <2>3
<1>2. PICK b \in {0, 1} : \A i \in DOMAIN toClient' :
        i \in Nat /\ i + b \in DOMAIN toClient /\ toClient'[i] = toClient[i + b]
  <2>1. CASE toClient' = toClient
    BY <2>1 DEF TypeInv
  <2>2. CASE toClient' = <<>>
    BY <2>2
  <2>3. CASE toClient # <<>> /\ toClient' = Tail(toClient)
    BY <2>3, TailIs DEF TypeInv
  <2> QED BY <2>1, <2>2, <2>3
<1> QED BY <1>1, <1>2 DEF OrderInv

\* The server or a producer adds a message that is no reply.
LEMMA OrderNotice ==
    ASSUME TypeInv, OrderInv, NEW m \in ClientMessages, m.type \notin Replies,
           toClient' = Append(toClient, m), UNCHANGED <<toServer, windowBy, nextId>>
    PROVE  OrderInv'
<1>1. \A i \in DOMAIN toClient' : \/ i \in DOMAIN toClient /\ toClient'[i] = toClient[i]
                                  \/ toClient'[i] = m
  BY AppendIs DEF TypeInv
<1> QED BY <1>1 DEF OrderInv

LEMMA ReplyIds == ASSUME NEW m \in ClientMessages, m.type \in Replies PROVE m.id \in Nat
<1>1. /\ m \notin [type : {"start"}, sid : Stored, seekable : {TRUE}]
      /\ m \notin [type : {"start"}, sid : Live, seekable : {FALSE}]
      /\ m \notin [type : {"end"}, sid : Sessions]
      /\ m \notin [type : {"event"}, event : Live \X Nat]
  BY DEF Replies
<1>2. \/ m \in [type : {"window"}, id : Nat, sid : Stored, events : Slices, total : Nat]
      \/ m \in [type : {"error"}, id : Nat]
  BY <1>1 DEF ClientMessages
<1>3. CASE m \in [type : {"window"}, id : Nat, sid : Stored, events : Slices, total : Nat]
  BY <1>3
<1>4. CASE m \in [type : {"error"}, id : Nat]
  BY <1>4
<1> QED BY <1>2, <1>3, <1>4

\* A request goes behind all others.
LEMMA OrderAsk ==
    ASSUME TypeInv, FreshInv, OrderInv, NEW m \in ServerMessages,
           m.type \in Seeks => m.id = nextId /\ nextId' = nextId + 1,
           m.type \notin Seeks => nextId' = nextId,
           toServer' = Append(toServer, m), toClient' = toClient \/ (toClient # <<>> /\ toClient' = Tail(toClient)),
           windowBy' = windowBy \/ windowBy' = None
    PROVE  OrderInv'
<1>1. /\ \A i \in DOMAIN toServer' : \/ i \in DOMAIN toServer /\ toServer'[i] = toServer[i]
                                     \/ i = Len(toServer) + 1 /\ toServer'[i] = m
      /\ \A i \in DOMAIN toServer : i < Len(toServer) + 1
      /\ Len(toServer) \in Nat /\ \A i \in DOMAIN toServer : i \in Nat
  BY AppendIs DEF TypeInv
<1>2. PICK b \in {0, 1} : \A i \in DOMAIN toClient' :
        i \in Nat /\ i + b \in DOMAIN toClient /\ toClient'[i] = toClient[i + b]
  <2>1. CASE toClient' = toClient
    BY <2>1 DEF TypeInv
  <2>2. CASE toClient # <<>> /\ toClient' = Tail(toClient)
    BY <2>2, TailIs DEF TypeInv
  <2> QED BY <2>1, <2>2
<1>3. \A j \in DOMAIN toServer : toServer[j].type \in Seeks => toServer[j].id \in Nat
  BY DEF TypeInv, ServerMessages, Seeks
<1>4. \A i \in DOMAIN toClient : toClient[i].type \in Replies => toClient[i].id \in Nat
  BY ReplyIds DEF TypeInv
<1>5. windowBy # None => windowBy.id \in Nat /\ windowBy.id < nextId
  BY DEF TypeInv, FreshInv, Requests
<1>6. nextId \in Nat /\ nextId' \in Nat /\ nextId <= nextId'
  BY DEF TypeInv
<1> DEFINE Older(x) == x < nextId
<1>7. \A i, j \in DOMAIN toServer' :
         i < j /\ toServer'[i].type \in Seeks /\ toServer'[j].type \in Seeks => toServer'[i].id < toServer'[j].id
  BY <1>1, <1>3, <1>6 DEF OrderInv
<1>8. \A i, j \in DOMAIN toClient' :
         i < j /\ toClient'[i].type \in Replies /\ toClient'[j].type \in Replies => toClient'[i].id < toClient'[j].id
  BY <1>2 DEF OrderInv
<1>9. \A i \in DOMAIN toClient' : \A j \in DOMAIN toServer' :
         toClient'[i].type \in Replies /\ toServer'[j].type \in Seeks => toClient'[i].id < toServer'[j].id
  BY <1>1, <1>2, <1>4, <1>6 DEF OrderInv
<1>10. \A j \in DOMAIN toServer' : toServer'[j].type \in Seeks =>
         /\ toServer'[j].id < nextId'
         /\ windowBy' # None => windowBy'.id < toServer'[j].id
  BY <1>1, <1>3, <1>5, <1>6 DEF OrderInv
<1>11. \A i \in DOMAIN toClient' : toClient'[i].type \in Replies =>
         /\ toClient'[i].id < nextId'
         /\ windowBy' # None => windowBy'.id < toClient'[i].id
  BY <1>2, <1>4, <1>6 DEF OrderInv
<1> QED BY <1>7, <1>8, <1>9, <1>10, <1>11 DEF OrderInv

LEMMA OrderKeeps == ASSUME TypeInv, FreshInv, OrderInv, [Next]_vars PROVE OrderInv'
<1>1. CASE ServeSeek
  <2> DEFINE q == Head(toServer)
  <2>1. PICK m : m \in {Reply(q), [type |-> "error", id |-> q.id]} /\ toClient' = Append(toClient, m)
    BY <1>1 DEF ServeSeek, ToClient
  <2>2. q \in ServerMessages /\ q.type \in Seeks /\ q = toServer[1] /\ 1 \in DOMAIN toServer
    BY <1>1, TailIs DEF ServeSeek, TypeInv, Seeks
  <2>3. m.id = q.id /\ q.id \in Nat /\ m \in ClientMessages
    <3>1. q \in [type : {"seek"}, id : Nat, sid : Stored, start : Nat]
      BY <2>2 DEF ServerMessages, Seeks
    <3> HIDE DEF q
    <3>2. Slice(q.sid, q.start) \in Slices /\ TraceLen[q.sid] \in Nat
      BY <3>1, ClientAssumption DEF Slices
    <3>3. Reply(q) \in ClientMessages /\ Reply(q).id = q.id
      BY <3>1, <3>2 DEF Reply, ClientMessages
    <3>4. [type |-> "error", id |-> q.id] \in ClientMessages
      BY <3>1 DEF ClientMessages
    <3> QED BY <2>1, <3>1, <3>3, <3>4
  <2>4. \A j \in DOMAIN toServer' :
          /\ j \in Nat \ {0} /\ j + 1 \in DOMAIN toServer /\ toServer'[j] = toServer[j + 1]
    BY <1>1, TailIs DEF ServeSeek, TypeInv
  <2>5. \A i \in DOMAIN toClient' :
          \/ i \in DOMAIN toClient /\ toClient'[i] = toClient[i] /\ i < Len(toClient) + 1
          \/ i = Len(toClient) + 1 /\ toClient'[i] = m
    BY <2>1, <2>3, AppendIs DEF TypeInv
  <2>6. windowBy' = windowBy /\ nextId' = nextId
    BY <1>1 DEF ServeSeek, ServerOnly, history
  <2>7. /\ q.id < nextId
        /\ windowBy # None => windowBy.id < q.id
        /\ \A j \in DOMAIN toServer' : toServer'[j].type \in Seeks => q.id < toServer'[j].id
        /\ \A i \in DOMAIN toClient : toClient[i].type \in Replies => toClient[i].id < q.id
    BY <2>2, <2>4 DEF OrderInv
  <2> HIDE DEF q
  <2>8. Len(toClient) \in Nat /\ \A i \in DOMAIN toClient : i \in Nat
    BY DEF TypeInv
  <2>9. \A i, j \in DOMAIN toServer' :
          i < j /\ toServer'[i].type \in Seeks /\ toServer'[j].type \in Seeks => toServer'[i].id < toServer'[j].id
    BY <2>4 DEF OrderInv
  <2>10. \A i, j \in DOMAIN toClient' :
          i < j /\ toClient'[i].type \in Replies /\ toClient'[j].type \in Replies => toClient'[i].id < toClient'[j].id
    BY <2>3, <2>5, <2>7, <2>8 DEF OrderInv
  <2>11. \A i \in DOMAIN toClient' : \A j \in DOMAIN toServer' :
          toClient'[i].type \in Replies /\ toServer'[j].type \in Seeks => toClient'[i].id < toServer'[j].id
    BY <2>3, <2>4, <2>5, <2>7 DEF OrderInv
  <2>12. \A j \in DOMAIN toServer' : toServer'[j].type \in Seeks =>
          /\ toServer'[j].id < nextId'
          /\ windowBy' # None => windowBy'.id < toServer'[j].id
    BY <2>4, <2>6 DEF OrderInv
  <2>13. \A i \in DOMAIN toClient' : toClient'[i].type \in Replies =>
          /\ toClient'[i].id < nextId'
          /\ windowBy' # None => windowBy'.id < toClient'[i].id
    BY <2>3, <2>5, <2>6, <2>7 DEF OrderInv
  <2> QED BY <2>9, <2>10, <2>11, <2>12, <2>13 DEF OrderInv
<1>2. CASE ServeLoad \/ Close
  BY <1>2, OrderAfter DEF ServeLoad, Close, ServerOnly, history
<1>3. CASE \E t \in loads : LoadStarts(t) \/ LoadEnds(t) \/ LoadFails(t)
  <2>1. PICK t \in loads : LoadStarts(t) \/ LoadEnds(t) \/ LoadFails(t)
    BY <1>3
  <2>2. t.sid \in Stored /\ UNCHANGED <<toServer, windowBy, nextId>>
    BY <2>1 DEF TypeInv, LoadStarts, LoadEnds, LoadFails, ServerOnly, history, wires
  <2>3. CASE LoadStarts(t)
    <3> DEFINE m == [type |-> "start", sid |-> t.sid, seekable |-> TRUE]
    <3>1. m \in ClientMessages /\ m.type \notin Replies /\ toClient' = Append(toClient, m)
      BY <2>2, <2>3 DEF ClientMessages, Replies, LoadStarts, ToClient
    <3> HIDE DEF m
    <3> QED BY <2>2, <3>1, OrderNotice
  <2>4. CASE LoadEnds(t)
    <3> DEFINE m == [type |-> "end", sid |-> t.sid]
    <3>1. m \in ClientMessages /\ m.type \notin Replies /\ toClient' = Append(toClient, m)
      BY <2>2, <2>4 DEF ClientMessages, Replies, LoadEnds, ToClient, Sessions
    <3> HIDE DEF m
    <3> QED BY <2>2, <3>1, OrderNotice
  <2>5. CASE LoadFails(t)
    BY <2>2, <2>5, OrderAfter DEF LoadFails, wires
  <2> QED BY <2>1, <2>3, <2>4, <2>5
<1>4. CASE \E l \in Live : Broadcast(l)
  <2>1. PICK l \in Live : Broadcast(l)
    BY <1>4
  <2>2. UNCHANGED <<toServer, windowBy, nextId>>
    BY <2>1 DEF Broadcast, ServerOnly, history
  <2>3. PICK m \in {[type |-> "start", sid |-> l, seekable |-> FALSE], [type |-> "end", sid |-> l],
                    [type |-> "event", event |-> <<l, sent[l] + 1>>]} : toClient' = Append(toClient, m)
    BY <2>1 DEF Broadcast, ToClient
  <2>4. m \in ClientMessages /\ m.type \notin Replies
    <3>1. <<l, sent[l] + 1>> \in Live \X Nat
      BY DEF TypeInv
    <3>2. [type |-> "event", event |-> <<l, sent[l] + 1>>] \in [type : {"event"}, event : Live \X Nat]
      BY <3>1
    <3>3. /\ [type |-> "start", sid |-> l, seekable |-> FALSE] \in ClientMessages
          /\ [type |-> "end", sid |-> l] \in ClientMessages
          /\ [type |-> "event", event |-> <<l, sent[l] + 1>>] \in ClientMessages
      BY <3>2 DEF ClientMessages, Sessions
    <3>4. m.type \in {"start", "end", "event"}
      BY <2>3
    <3> QED BY <2>3, <3>3, <3>4 DEF Replies
  <2> QED BY <2>2, <2>3, <2>4, OrderNotice
<1>5. CASE \E s \in Stored : ClickLoad(s)
  <2>1. PICK s \in Stored : ClickLoad(s)
    BY <1>5
  <2> DEFINE m == [type |-> "load", n |-> clicks', sid |-> s]
  <2>2. /\ m \in ServerMessages /\ m.type \notin Seeks /\ toServer' = Append(toServer, m)
        /\ UNCHANGED <<nextId, toClient, windowBy>>
    BY <2>1 DEF ClickLoad, ServerMessages, Seeks, TypeInv, history
  <2> HIDE DEF m
  <2> QED BY <2>2, OrderAsk
<1>6. ASSUME NEW sid \in Stored, NEW start \in Nat, NEW why \in {"initial", "scrub"}, NEW entries,
             Ask(Request(sid, start, why), asked, entries),
             toClient' = toClient \/ (toClient # <<>> /\ toClient' = Tail(toClient)),
             windowBy' = windowBy \/ windowBy' = None
      PROVE  OrderInv'
  <2> DEFINE m == [type |-> "seek", id |-> nextId, sid |-> sid, start |-> start]
  <2>1. m \in ServerMessages /\ m.type \in Seeks /\ m.id = nextId
    BY DEF ServerMessages, Seeks, TypeInv
  <2>2. toServer' = Append(toServer, m) /\ nextId' = nextId + 1
    BY <1>6 DEF Ask, Request
  <2> HIDE DEF m
  <2> QED BY <1>6, <2>1, <2>2, OrderAsk
<1>7. CASE DebounceFires
  <2>1. /\ debounce.sid \in Stored /\ debounce.start \in Nat
        /\ UNCHANGED <<toClient, windowBy>>
    BY <1>7 DEF DebounceFires, TypeInv
  <2>2. CASE open
    <3>1. Ask(Request(debounce.sid, debounce.start, "scrub"), asked, pending)
      BY <1>7, <2>2 DEF DebounceFires
    <3> QED BY <1>6, <2>1, <3>1
  <2>3. CASE ~open
    BY <1>7, <2>1, <2>3, OrderAfter DEF DebounceFires
  <2> QED BY <2>2, <2>3
<1>8. CASE Start
  <2> DEFINE m == Head(toClient)
  <2>1. toClient # <<>> /\ toClient' = Tail(toClient) /\ windowBy' = None
    BY <1>8 DEF Start, Receive
  <2>2. CASE m.seekable /\ <<m.seekable, m.sid>> # <<seekable, session>>
    <3>1. m \in ClientMessages /\ m.type = "start"
      BY <1>8, TailIs DEF Start, Receive, TypeInv
    <3>2. m.sid \in Stored
      BY <2>2, <3>1 DEF ClientMessages
    <3>3. Ask(Request(m.sid, 0, "initial"), asked, {})
      BY <1>8, <2>2 DEF Start
    <3> HIDE DEF m
    <3> QED BY <1>6, <2>1, <3>2, <3>3
  <2>3. CASE ~(m.seekable /\ <<m.seekable, m.sid>> # <<seekable, session>>)
    BY <1>8, <2>1, <2>3, OrderAfter DEF Start
  <2> QED BY <2>2, <2>3
<1>9. CASE Window
  <2>1. toClient # <<>> /\ toClient' = Tail(toClient) /\ UNCHANGED <<toServer, nextId>>
    BY <1>9 DEF Window, Receive
  <2>2. CASE windowBy' = windowBy
    BY <2>1, <2>2, OrderAfter
  <2>3. CASE windowBy' # windowBy
    <3>1. windowBy'.id = Head(toClient).id
      BY <1>9, <2>3 DEF Window
    <3>2. Head(toClient) = toClient[1] /\ 1 \in DOMAIN toClient /\ toClient[1].type \in Replies
      BY <1>9, TailIs DEF Window, Receive, TypeInv, Replies
    <3>3. \A i \in DOMAIN toClient' : i \in Nat \ {0} /\ i + 1 \in DOMAIN toClient /\ toClient'[i] = toClient[i + 1]
      BY <2>1, TailIs DEF TypeInv
    <3>4. \A i \in DOMAIN toClient' : toClient'[i].type \in Replies => windowBy'.id < toClient'[i].id
      BY <3>1, <3>2, <3>3 DEF OrderInv
    <3>5. \A j \in DOMAIN toServer : toServer[j].type \in Seeks => windowBy'.id < toServer[j].id
      BY <3>1, <3>2 DEF OrderInv
    <3> QED BY <2>1, <3>3, <3>4, <3>5 DEF OrderInv
  <2> QED BY <2>2, <2>3
<1>10. CASE LiveEvent \/ Frame \/ End
  <2>1. /\ toClient' = toClient \/ (toClient # <<>> /\ toClient' = Tail(toClient))
        /\ UNCHANGED <<toServer, windowBy, nextId>>
    BY <1>10 DEF LiveEvent, Frame, End, Receive, wires, history
  <2> QED BY <2>1, OrderAfter
<1>11. CASE SeekError
  <2>1. toClient # <<>> /\ toClient' = Tail(toClient) /\ UNCHANGED <<toServer, windowBy, nextId>>
    BY <1>11 DEF SeekError, Receive
  <2> QED BY <2>1, OrderAfter
<1>12. CASE (\E p \in 0 .. total : Scrub(p)) \/ (\E r \in asked : Timeout(r)) \/ UNCHANGED vars
  BY <1>12, OrderAfter DEF Scrub, Timeout, vars, wires, history
<1> QED BY <1>1, <1>2, <1>3, <1>4, <1>5, <1>7, <1>8, <1>9, <1>10, <1>11, <1>12 DEF Next, Server, Tab

(***************************************************************************)
(* A live session.                                                           *)
(***************************************************************************)
LEMMA ConcatAppend ==
    \A s, t \in Seq(Live \X Nat), e \in Live \X Nat : s \o Append(t, e) = Append(s \o t, e)
<1> DEFINE S == Live \X Nat
<1> HIDE DEF S
<1> SUFFICES ASSUME NEW s \in Seq(S), NEW t \in Seq(S), NEW e \in S
             PROVE  s \o Append(t, e) = Append(s \o t, e)
  BY DEF S
<1>1. s \o Append(t, e) \in Seq(S) /\ Append(s \o t, e) \in Seq(S)
  OBVIOUS
<1>2. Len(s \o Append(t, e)) = Len(Append(s \o t, e))
  OBVIOUS
<1>3. \A i \in 1 .. Len(s \o Append(t, e)) : (s \o Append(t, e))[i] = Append(s \o t, e)[i]
  OBVIOUS
<1> QED BY <1>1, <1>2, <1>3

\* A frame or an end shows what is buffered.
LEMMA ShowBuffer ==
    ASSUME LiveInv, windowBy = None
    PROVE  /\ events \o buffer \in Seq(Live \X Nat)
           /\ (events \o buffer) \o <<>> = received
           /\ Len(events \o buffer) = Len(received)
BY DEF LiveInv

LEMMA LiveKeeps == ASSUME TypeInv, LiveInv, [Next]_vars PROVE LiveInv'
<1>0. <<>> \in Seq(Live \X Nat) /\ <<>> \o <<>> = <<>> /\ Len(<<>>) = 0
  OBVIOUS
<1>1. CASE Start
  BY <1>0, <1>1 DEF Start, LiveInv
<1>2. CASE LiveEvent
  <2> DEFINE e == Head(toClient).event
  <2>1. /\ Head(toClient) \in ClientMessages /\ Head(toClient).type = "event"
    BY <1>2, TailIs DEF LiveEvent, Receive, TypeInv
  <2>2. e \in Live \X Nat
    BY <2>1 DEF ClientMessages
  <2>3. /\ buffer' = Append(buffer, e) /\ received' = Append(received, e)
        /\ UNCHANGED <<windowBy, events, complete, ended>>
    BY <1>2 DEF LiveEvent, store
  <2> HIDE DEF e
  <2>4. buffer' \in Seq(Live \X Nat) /\ received' \in Seq(Live \X Nat)
    BY <2>2, <2>3 DEF LiveInv
  <2>5. ASSUME windowBy = None PROVE events \o buffer' = received'
    <3>1. events \in Seq(Live \X Nat) /\ buffer \in Seq(Live \X Nat) /\ events \o buffer = received
      BY <2>5 DEF LiveInv
    <3>2. events \o Append(buffer, e) = Append(events \o buffer, e)
      BY <2>2, <3>1, ConcatAppend
    <3> QED BY <2>3, <3>1, <3>2
  <2> QED BY <2>3, <2>4, <2>5 DEF LiveInv
<1>3. CASE Frame
  <2>1. /\ events' = events \o buffer /\ buffer' = <<>>
        /\ UNCHANGED <<complete, windowBy, received, ended>>
    BY <1>3 DEF Frame, history
  <2>2. ASSUME windowBy = None, complete PROVE Len(events') >= ended
    <3>1. /\ events \in Seq(Live \X Nat) /\ buffer \in Seq(Live \X Nat) /\ Len(events) >= ended
      BY <2>2 DEF LiveInv
    <3>2. Len(events \o buffer) = Len(events) + Len(buffer) /\ Len(events) \in Nat /\ Len(buffer) \in Nat
      BY <3>1
    <3>3. ended \in Nat
      BY <2>2 DEF LiveInv
    <3> QED BY <2>1, <3>1, <3>2, <3>3
  <2> QED BY <1>0, <2>1, <2>2, ShowBuffer DEF LiveInv
<1>4. CASE End
  <2>1. /\ events' = events \o buffer /\ buffer' = <<>> /\ ended' = Len(received)
        /\ UNCHANGED <<windowBy, received>>
    BY <1>4 DEF End
  <2> QED BY <1>0, <2>1, ShowBuffer DEF LiveInv
<1>5. CASE Window
  <2>1. UNCHANGED <<buffer, received, complete, ended>>
    BY <1>5 DEF Window
  <2>2. CASE windowBy' = windowBy /\ events' = events
    BY <2>1, <2>2 DEF LiveInv
  <2>3. CASE ~(windowBy' = windowBy /\ events' = events)
    <3>1. windowBy' \in asked
      BY <1>5, <2>3 DEF Window
    <3>2. windowBy' # None
      BY <3>1, NoneAssumption DEF TypeInv
    <3> QED BY <2>1, <3>2 DEF LiveInv
  <2> QED BY <2>2, <2>3
<1>6. CASE SeekError \/ DebounceFires \/ \E r \in asked : Timeout(r)
  <2>1. UNCHANGED <<events, complete, buffer, windowBy, received, ended>>
    BY <1>6 DEF SeekError, DebounceFires, Timeout, store
  <2> QED BY <2>1 DEF LiveInv
<1>7. CASE (\E s \in Stored : ClickLoad(s)) \/ \E p \in 0 .. total : Scrub(p)
  <2>1. UNCHANGED <<events, complete, buffer, windowBy, received, ended>>
    BY <1>7 DEF ClickLoad, Scrub, store, history
  <2> QED BY <2>1 DEF LiveInv
<1>8. CASE Server
  <2>1. UNCHANGED <<store, buffer, history>>
    BY <1>8 DEF Server, ServeSeek, ServeLoad, LoadStarts, LoadEnds, LoadFails, Broadcast, Close, ServerOnly
  <2> QED BY <2>1 DEF LiveInv, store, history
<1>9. CASE UNCHANGED vars
  BY <1>9 DEF vars, LiveInv, store, history
<1> QED BY <1>1, <1>2, <1>3, <1>4, <1>5, <1>6, <1>7, <1>8, <1>9 DEF Next, Tab

(***************************************************************************)
(* The theorems.                                                             *)
(***************************************************************************)
LEMMA NextInv == ASSUME TabInv, [Next]_vars PROVE TabInv'
<1>1. TypeInv'
  <2>1. CASE Server \/ Tab
    BY <2>1, ServerTypes, TabTypes DEF TabInv
  <2>2. CASE UNCHANGED vars
    BY <2>2 DEF TabInv, TypeInv, vars, store, wires, server, user, history
  <2> QED BY <2>1, <2>2 DEF Next
<1> QED BY <1>1, FreshKeeps, OrderKeeps, LiveKeeps DEF TabInv

LEMMA SpecTabInv == Spec => []TabInv
BY InitInv, NextInv, PTL DEF Spec

\* A reply that was under way when another session started never fills its
\* window: clearing the map is enough, although the timers run on and ids are
\* never reset.
THEOREM NoReplyIsStale == Spec => []NoStaleReply
<1>1. TabInv => NoStaleReply
  BY DEF TabInv, FreshInv, NoStaleReply
<1> QED BY <1>1, SpecTabInv, PTL

\* Of two seeks the later one wins, since the receive loop answers one before
\* it reads the next and both directions keep their order.
THEOREM LaterSeekWins == Spec => SeeksApplyInOrder
<1>1. ASSUME TabInv, [Next]_vars
      PROVE  [windowBy # None /\ windowBy' # None => windowBy'.id >= windowBy.id]_windowBy
  <2> SUFFICES ASSUME windowBy # None, windowBy' # None, windowBy' # windowBy
               PROVE  windowBy'.id >= windowBy.id
    OBVIOUS
  <2>1. Window
    BY <1>1 DEF Next, Server, Tab, ServeSeek, ServeLoad, LoadStarts, LoadEnds, LoadFails, Broadcast, Close,
                ServerOnly, ClickLoad, Scrub, DebounceFires, Timeout, Start, LiveEvent, Frame, End, SeekError,
                vars, history
  <2>2. windowBy'.id = Head(toClient).id
    BY <2>1 DEF Window
  <2>3. Head(toClient) = toClient[1] /\ 1 \in DOMAIN toClient /\ toClient[1].type \in Replies
    BY <1>1, <2>1, TailIs DEF Window, Receive, TabInv, TypeInv, Replies
  <2>4. windowBy.id < toClient[1].id
    BY <1>1, <2>3 DEF TabInv, OrderInv
  <2>5. windowBy.id \in Nat /\ toClient[1].id \in Nat
    BY <1>1, <2>3, ReplyIds DEF TabInv, TypeInv, Requests
  <2> QED BY <2>2, <2>3, <2>4, <2>5
<1> QED BY <1>1, SpecTabInv, PTL DEF Spec, SeeksApplyInOrder

\* What the tab shows of a live session is what it received, each event once
\* and in order, whether the frame or the end came first.
THEOREM LiveSessionsAreComplete == Spec => []LiveIsComplete
<1>1. TabInv => LiveIsComplete
  BY DEF TabInv, LiveInv, LiveIsComplete
<1> QED BY <1>1, SpecTabInv, PTL
-----------------------------------------------------------------------------
(* The tracer's types, and the life of the threads it is called in.         *)

FrameKinds == {"project", "library"}
EventRecords == [event : {"none", "call", "return", "line", "exception"}, depth : Nat]

Modes == {"run", "raised", "search"} \cup Recording
Exceptions == {"none", "user", "cap", "sink", "interrupt"}
USE DEF Modes, Exceptions

\* What a thread does: steps of the interpreter, and steps of _emit and the sink.
FrameStep(t) ==
  \/ StartThread(t) \/ Call(t, "project") \/ Call(t, "library") \/ Return(t)
  \/ Yield(t) \/ Resume(t) \/ Line(t) \/ Raise(t) \/ OnRaise(t) \/ Handle(t) \/ Unwind(t)
SinkStep(t) == Check(t) \/ Test(t) \/ WriteLine(t) \/ CountLine(t) \/ FailWrite(t)

TracerType ==
  /\ pc \in {"idle", "claimed", "script", "disarmed", "ended", "done"}
  /\ armed \in BOOLEAN /\ swallow \in BOOLEAN /\ alive \subseteq Threads
  /\ stack \in [Threads -> Seq(FrameKinds)]
  /\ suspended \in [Threads -> {0, 1}]
  /\ depth \in [Threads -> Nat]
  /\ mode \in [Threads -> Modes]
  /\ ev \in [Threads -> EventRecords]
  /\ exc \in [Threads -> Exceptions]
  /\ slipped \in [Threads -> BOOLEAN]
  /\ sinkExc \in BOOLEAN
  /\ file \in Seq(Threads \X {1, 2}) /\ good \in Nat
  /\ broken \in BOOLEAN /\ closed \in BOOLEAN /\ overlap \in BOOLEAN
  /\ lost \subseteq Threads

\* Events come only while run() runs the script; before that nothing has happened.
Unarmed == pc # "script" => armed = FALSE
Fresh ==
  pc \in {"idle", "claimed"} =>
    alive = {} /\ \A t \in Threads : stack[t] = <<>> /\ suspended[t] = 0 /\ depth[t] = 0

\* A thread in a callback or unwinding has a frame and is alive.
Busy == \A t \in Threads : mode[t] # "run" => stack[t] # <<>> /\ t \in alive

Lifecycle == Unarmed /\ Fresh /\ Busy

Base == TracerType /\ Lifecycle

-----------------------------------------------------------------------------
(* A stack popped and pushed, and how a callback ends.                      *)

LEMMA PopType ==
  ASSUME NEW S, NEW s \in Seq(S), s # <<>>
  PROVE  /\ Front(s) \in Seq(S) /\ Last(s) \in S
         /\ Len(Front(s)) = Len(s) - 1
         /\ s = Append(Front(s), Last(s))
         /\ Len(s) # 1 => Front(s) # <<>>
<1> DEFINE n == Len(s) - 1
<1>1. n \in Nat /\ n + 1 = Len(s) /\ Front(s) = SubSeq(s, 1, n) /\ Last(s) = s[n + 1]
  BY DEF Front, Last
<1> HIDE DEF n
<1>2. \A i \in 1 .. n : s[i] \in S
  BY <1>1
<1>3. /\ Front(s) \in Seq(S) /\ Len(Front(s)) = n
      /\ \A i \in 1 .. n : Front(s)[i] = s[i]
  <2>1. /\ SubSeq(s, 1, n) \in Seq(S)
        /\ Len(SubSeq(s, 1, n)) = IF 1 <= n THEN n - 1 + 1 ELSE 0
        /\ \A i \in 1 .. n - 1 + 1 : SubSeq(s, 1, n)[i] = s[1 + i - 1]
    BY <1>1, <1>2, SubSeqProperties
  <2> QED BY <1>1, <2>1
<1>4. s = Append(Front(s), Last(s))
  BY <1>1, <1>3
<1>5. Last(s) \in S
  BY <1>1
<1>6. Len(s) # 1 => Len(Front(s)) # 0
  BY <1>1, <1>3
<1>7. Len(s) # 1 => Front(s) # <<>>
  BY <1>6
<1> HIDE DEF n
<1> QED BY <1>1, <1>3, <1>4, <1>5, <1>7

LEMMA PushType ==
  ASSUME NEW S, NEW s \in Seq(S), NEW x \in S
  PROVE  Append(s, x) \in Seq(S) /\ Append(s, x) # <<>>
<1>1. /\ Append(s, x) \in Seq(S) /\ Len(Append(s, x)) = Len(s) + 1
      /\ Append(s, x)[Len(s) + 1] = x
  BY AppendProperties
<1>2. Len(Append(s, x)) # Len(<<>>)
  BY <1>1
<1> QED BY <1>1, <1>2

LEMMA RecordedKeeps ==
  ASSUME Base, NEW t \in Threads, mode[t] # "run", Recorded(t)
  PROVE  /\ alive' \subseteq Threads
         /\ stack' \in [Threads -> Seq(FrameKinds)]
         /\ mode' \in [Threads -> Modes]
         /\ ev' \in [Threads -> EventRecords]
         /\ exc' = exc /\ slipped' = slipped
         /\ \A u \in Threads : mode'[u] # "run" => stack'[u] # <<>> /\ u \in alive'
<1>1. stack[t] # <<>> /\ stack[t] \in Seq(FrameKinds) /\ t \in alive
  BY DEF Base, TracerType, Lifecycle, Busy
<1>2. NoEvent \in EventRecords
  BY DEF NoEvent, EventRecords
<1>3. ev' \in [Threads -> EventRecords]
  BY <1>2 DEF Recorded, Base, TracerType
<1>4. CASE ev[t].event = "return"
  <2>1. Front(stack[t]) \in Seq(FrameKinds)
    BY <1>1, PopType
  <2>2. /\ stack' = [stack EXCEPT ![t] = Front(stack[t])] /\ mode' = [mode EXCEPT ![t] = "run"]
        /\ alive' = IF Len(stack[t]) = 1 THEN alive \ {t} ELSE alive
    BY <1>4 DEF Recorded
  <2>3. \A u \in Threads : mode'[u] # "run" => stack'[u] # <<>> /\ u \in alive'
    BY <2>2 DEF Base, TracerType, Lifecycle, Busy
  <2> QED BY <2>1, <2>2, <2>3, <1>3 DEF Recorded, Base, TracerType
<1>5. CASE ev[t].event # "return"
  BY <1>1, <1>3, <1>5 DEF Recorded, Base, TracerType, Lifecycle, Busy
<1> QED BY <1>4, <1>5

LEMMA ThrowKeeps ==
  ASSUME Base, NEW t \in Threads, mode[t] # "run",
         Throw(t, "cap") \/ Throw(t, "sink") \/ Throw(t, "interrupt")
  PROVE  /\ alive' = alive /\ stack' = stack
         /\ mode' \in [Threads -> Modes]
         /\ ev' \in [Threads -> EventRecords]
         /\ exc' \in [Threads -> Exceptions]
         /\ slipped' \in [Threads -> BOOLEAN]
         /\ \A u \in Threads : mode'[u] # "run" => stack'[u] # <<>> /\ u \in alive'
<1>1. NoEvent \in EventRecords
  BY DEF NoEvent, EventRecords
<1>2. stack[t] # <<>> /\ t \in alive
  BY DEF Base, Lifecycle, Busy
<1>3. PICK e \in {"cap", "sink", "interrupt"} : Throw(t, e)
  OBVIOUS
<1>4. /\ ev' \in [Threads -> EventRecords]
      /\ exc' \in [Threads -> Exceptions]
  BY <1>1, <1>3 DEF Throw, Base, TracerType
<1>5. /\ alive' = alive /\ stack' = stack
      /\ mode' \in [Threads -> Modes]
      /\ slipped' \in [Threads -> BOOLEAN]
  BY <1>3 DEF Throw, Base, TracerType
<1>6. \A u \in Threads : mode'[u] # "run" => stack'[u] # <<>> /\ u \in alive'
  BY <1>2, <1>3 DEF Throw, Base, TracerType, Lifecycle, Busy
<1> QED BY <1>4, <1>5, <1>6

-----------------------------------------------------------------------------
(* run(): claim, arm, disarm, free, finalize.                               *)

LEMMA BaseInit == TracerInit => Base
<1> SUFFICES ASSUME TracerInit PROVE Base
  OBVIOUS
<1>1. TracerType
  <2>1. NoEvent \in EventRecords
    BY DEF NoEvent, EventRecords
  <2>2. ev \in [Threads -> EventRecords]
    BY <2>1 DEF TracerInit
  <2>3. /\ suspended \in [Threads -> {0, 1}] /\ depth \in [Threads -> Nat]
        /\ good \in Nat /\ file \in Seq(Threads \X {1, 2}) /\ stack \in [Threads -> Seq(FrameKinds)]
    BY DEF TracerInit
  <2> QED BY <2>2, <2>3 DEF TracerInit, TracerType
<1>2. Lifecycle
  BY DEF TracerInit, Lifecycle, Unarmed, Fresh, Busy
<1> QED BY <1>1, <1>2 DEF Base

LEMMA RunStepsKeepBase ==
  ASSUME Base,
         \/ Claim \/ ClaimInterrupted \/ Arm \/ ArmInterrupted \/ Disarm \/ Free
         \/ FreeInterrupted \/ Finalize
  PROVE  Base'
<1> USE DEF Base, TracerType, Lifecycle, Unarmed, Fresh, Busy, threadVars, writerVars, runVars
<1>1. CASE Claim \/ ClaimInterrupted \/ ArmInterrupted
  <2>1. TracerType'
    BY <1>1 DEF Claim, ClaimInterrupted, ArmInterrupted
  <2>2. Lifecycle'
    BY <1>1 DEF Claim, ClaimInterrupted, ArmInterrupted
  <2> QED BY <2>1, <2>2
<1>2. CASE Arm
  BY <1>2, TracerAssumption DEF Arm
<1>3. CASE Disarm \/ Free \/ FreeInterrupted
  <2>1. TracerType'
    BY <1>3 DEF Disarm, Free, FreeInterrupted
  <2>2. Lifecycle'
    BY <1>3 DEF Disarm, Free, FreeInterrupted
  <2> QED BY <2>1, <2>2
<1>4. CASE Finalize
  <2>1. file' \in Seq(Threads \X {1, 2})
    <3>1. 2 * good < Len(file) => SubSeq(file, 1, 2 * good) \in Seq(Threads \X {1, 2})
      OBVIOUS
    <3> QED BY <1>4, <3>1 DEF Finalize
  <2> QED BY <1>4, <2>1 DEF Finalize
<1> QED BY <1>1, <1>2, <1>3, <1>4

-----------------------------------------------------------------------------
(* The interpreter and the callbacks keep the types and the lifecycle.      *)

LEMMA ThreadKeepsBase ==
  ASSUME Base, NEW t \in Threads, t \in alive, UNCHANGED <<pc, armed>>, TracerType',
         mode'[t] # "run" => stack'[t] # <<>> /\ t \in alive',
         \A u \in Threads \ {t} :
           mode'[u] = mode[u] /\ stack'[u] = stack[u] /\ (u \in alive => u \in alive')
  PROVE  Base'
BY DEF Base, Lifecycle, Unarmed, Fresh, Busy

LEMMA FrameStepsKeepBase ==
  ASSUME Base, NEW t \in Threads,
         FrameStep(t)
  PROVE  Base'
<1>1. TracerType
  BY DEF Base
<1>t. stack[t] \in Seq(FrameKinds) /\ depth[t] \in Nat /\ Sub1(depth[t]) \in Nat
  BY DEF Base, TracerType, Sub1
<1>p. stack[t] # <<>> =>
        Front(stack[t]) \in Seq(FrameKinds) /\ (Len(stack[t]) # 1 => Front(stack[t]) # <<>>)
  BY <1>t, PopType
<1>a. \A f \in FrameKinds : Append(stack[t], f) \in Seq(FrameKinds) /\ Append(stack[t], f) # <<>>
  BY <1>t, PushType
<1>e. \A e \in {"call", "return", "line", "exception"}, d \in Nat :
        Record(t, e, d) => /\ mode' \in [Threads -> Modes]
                           /\ mode' = [mode EXCEPT ![t] = "check"]
                           /\ ev' \in [Threads -> EventRecords]
  BY DEF Base, TracerType, Record, Recording, EventRecords
<1>b. mode[t] # "run" => t \in alive /\ stack[t] # <<>>
  BY DEF Base, Lifecycle, Busy
<1>2. CASE StartThread(t)
  BY <1>2 DEF StartThread, Base, TracerType, Lifecycle, Unarmed, Fresh, Busy, writerVars, runVars
<1>3. ASSUME NEW f \in FrameKinds, Call(t, f) PROVE Base'
  <2>1. /\ stack' = [stack EXCEPT ![t] = Append(stack[t], f)] /\ t \in alive /\ mode[t] = "run"
    BY <1>3 DEF Call, Runs
  <2>2. /\ depth' \in [Threads -> Nat] /\ ev' \in [Threads -> EventRecords]
        /\ mode' \in [Threads -> Modes]
        /\ \A u \in Threads \ {t} : mode'[u] = mode[u]
    <3>1. CASE Observed(t, f)
      <4>1. Record(t, "call", depth[t]) /\ depth' = [depth EXCEPT ![t] = depth[t] + 1]
        BY <1>3, <3>1 DEF Call
      <4> QED BY <4>1, <1>1, <1>e, <1>t DEF TracerType
    <3>2. CASE ~Observed(t, f)
      BY <1>1, <1>3, <3>2 DEF Call, TracerType
    <3> QED BY <3>1, <3>2
  <2>3. TracerType'
    BY <1>1, <1>3, <1>a, <2>1, <2>2 DEF Call, TracerType, runVars, writerVars
  <2> QED BY <1>1, <1>3, <1>a, <2>1, <2>2, <2>3, ThreadKeepsBase DEF Call, TracerType, runVars
<1>4. CASE Return(t)
  <2>1. t \in alive /\ mode[t] = "run" /\ stack[t] # <<>>
    BY <1>4 DEF Return, Runs
  <2>2. CASE Observed(t, Top(t))
    <3>1. /\ depth' = [depth EXCEPT ![t] = Sub1(depth[t])] /\ Record(t, "return", Sub1(depth[t]))
          /\ UNCHANGED <<stack, alive>>
      BY <1>4, <2>2 DEF Return
    <3>2. TracerType'
      BY <1>1, <1>4, <1>e, <1>t, <3>1 DEF Return, TracerType, runVars, writerVars
    <3> QED BY <1>1, <1>4, <1>e, <1>t, <2>1, <3>1, <3>2, ThreadKeepsBase DEF Return, TracerType, runVars
  <2>3. CASE ~Observed(t, Top(t))
    <3>1. /\ stack' = [stack EXCEPT ![t] = Front(stack[t])] /\ UNCHANGED <<depth, ev, mode>>
          /\ alive' = IF Len(stack[t]) = 1 THEN alive \ {t} ELSE alive
      BY <1>4, <2>3 DEF Return
    <3>2. TracerType'
      BY <1>1, <1>4, <1>p, <2>1, <3>1 DEF Return, TracerType, runVars, writerVars
    <3>3. /\ UNCHANGED <<pc, armed>> /\ mode'[t] = "run"
          /\ \A u \in Threads \ {t} :
               mode'[u] = mode[u] /\ stack'[u] = stack[u] /\ (u \in alive => u \in alive')
      BY <1>1, <1>4, <2>1, <3>1 DEF Return, TracerType, runVars
    <3> QED BY <2>1, <3>2, <3>3, ThreadKeepsBase
  <2> QED BY <2>2, <2>3
<1>5. CASE Yield(t)
  <2>1. /\ stack' = [stack EXCEPT ![t] = Front(stack[t])] /\ suspended' = [suspended EXCEPT ![t] = 1]
        /\ t \in alive /\ mode[t] = "run" /\ stack[t] # <<>> /\ UNCHANGED <<alive, mode>>
    BY <1>5, <1>t DEF Yield, Runs
  <2>2. TracerType'
    BY <1>1, <1>5, <1>p, <2>1 DEF Yield, TracerType, runVars, writerVars
  <2> QED BY <1>1, <1>5, <2>1, <2>2, ThreadKeepsBase DEF Yield, TracerType, runVars
<1>6. CASE Resume(t)
  <2>1. /\ stack' = [stack EXCEPT ![t] = Append(stack[t], "project")]
        /\ suspended' = [suspended EXCEPT ![t] = 0] /\ t \in alive /\ mode[t] = "run"
        /\ UNCHANGED <<alive, mode>>
    BY <1>6 DEF Resume, Runs
  <2>2. TracerType'
    BY <1>1, <1>6, <1>a, <2>1 DEF Resume, TracerType, runVars, writerVars, FrameKinds
  <2> QED BY <1>1, <1>6, <2>1, <2>2, ThreadKeepsBase DEF Resume, TracerType, runVars
<1>7. CASE Line(t)
  <2>1. /\ Record(t, "line", depth[t]) /\ t \in alive /\ stack[t] # <<>>
        /\ UNCHANGED <<stack, alive>>
    BY <1>7 DEF Line, Runs
  <2>2. TracerType'
    BY <1>1, <1>7, <1>e, <1>t, <2>1 DEF Line, TracerType, runVars, writerVars
  <2> QED BY <1>1, <1>7, <1>e, <1>t, <2>1, <2>2, ThreadKeepsBase DEF Line, TracerType, runVars
<1>8. CASE Raise(t) \/ Handle(t)
  <2>1. /\ mode' = [mode EXCEPT ![t] = "raised"] \/ mode' = [mode EXCEPT ![t] = "run"]
        /\ t \in alive /\ stack[t] # <<>> /\ UNCHANGED <<stack, alive, pc, armed>>
    BY <1>8, <1>b DEF Raise, Handle, Runs, runVars
  <2>2. TracerType'
    BY <1>1, <1>8 DEF Raise, Handle, TracerType, runVars, writerVars
  <2> QED BY <1>1, <2>1, <2>2, ThreadKeepsBase DEF TracerType
<1>9. CASE OnRaise(t)
  <2>1. mode[t] = "raised" /\ t \in alive /\ stack[t] # <<>>
    BY <1>9, <1>b DEF OnRaise
  <2>2. /\ ev' \in [Threads -> EventRecords]
        /\ mode' \in [Threads -> Modes]
        /\ \A u \in Threads \ {t} : mode'[u] = mode[u]
    <3>1. CASE Observed(t, Top(t))
      <4>1. Record(t, "exception", depth[t])
        BY <1>9, <3>1 DEF OnRaise
      <4> QED BY <1>1, <4>1, <1>e, <1>t DEF TracerType
    <3>2. CASE ~Observed(t, Top(t))
      BY <1>1, <1>9, <3>2 DEF OnRaise, TracerType
    <3> QED BY <3>1, <3>2
  <2>3. TracerType'
    BY <1>1, <1>9, <2>2 DEF OnRaise, TracerType, runVars, writerVars
  <2> QED BY <1>1, <1>9, <2>1, <2>2, <2>3, ThreadKeepsBase DEF OnRaise, runVars
<1>10. CASE Unwind(t)
  <2>1. /\ t \in alive /\ stack[t] # <<>> /\ stack' = [stack EXCEPT ![t] = Front(stack[t])]
        /\ IF Len(stack[t]) = 1
             THEN alive' = alive \ {t} /\ mode' = [mode EXCEPT ![t] = "run"]
             ELSE mode' = [mode EXCEPT ![t] = "raised"] /\ UNCHANGED alive
    BY <1>10, <1>b DEF Unwind
  <2>2. depth' \in [Threads -> Nat]
    BY <1>1, <1>10, <1>t DEF Unwind, TracerType
  <2>3. TracerType'
    BY <1>1, <1>10, <1>p, <2>1, <2>2 DEF Unwind, TracerType, runVars, writerVars
  <2> QED BY <1>1, <1>10, <1>p, <2>1, <2>3, ThreadKeepsBase DEF Unwind, TracerType, runVars
<1> QED BY <1>2, <1>3, <1>4, <1>5, <1>6, <1>7, <1>8, <1>9, <1>10 DEF FrameKinds, FrameStep

\* _emit and the sink, in the thread that records.
LEMMA SinkStepsKeepBase ==
  ASSUME Base, NEW t \in Threads,
         SinkStep(t)
  PROVE  Base'
<1>1. TracerType /\ Busy
  BY DEF Base, Lifecycle
<1>2. mode[t] \in Recording /\ mode[t] # "run" /\ t \in alive /\ stack[t] # <<>>
  BY <1>1 DEF Check, Test, WriteLine, CountLine, FailWrite, Recording, Busy, SinkStep
<1>3. \A m \in Recording : [mode EXCEPT ![t] = m] \in [Threads -> Modes]
  BY <1>1 DEF TracerType
<1>m. {"check", "test", "write", "count"} = Recording
  BY DEF Recording
<1>r. Recorded(t) => /\ alive' \subseteq Threads
         /\ stack' \in [Threads -> Seq(FrameKinds)]
         /\ mode' \in [Threads -> Modes]
         /\ ev' \in [Threads -> EventRecords]
         /\ exc' = exc /\ slipped' = slipped
         /\ \A u \in Threads : mode'[u] # "run" => stack'[u] # <<>> /\ u \in alive'
  BY <1>2, RecordedKeeps
<1>h. \A e \in {"cap", "sink", "interrupt"} : Throw(t, e) =>
         /\ alive' = alive /\ stack' = stack
         /\ mode' \in [Threads -> Modes]
         /\ ev' \in [Threads -> EventRecords]
         /\ exc' \in [Threads -> Exceptions]
         /\ slipped' \in [Threads -> BOOLEAN]
         /\ \A u \in Threads : mode'[u] # "run" => stack'[u] # <<>> /\ u \in alive'
  BY <1>2, ThrowKeeps
<1>4. ASSUME UNCHANGED <<pc, armed>>, TracerType', alive' \subseteq alive,
             \A u \in Threads : mode'[u] # "run" => stack'[u] # <<>> /\ u \in alive'
      PROVE  Base'
  BY <1>2, <1>4 DEF Base, Lifecycle, Unarmed, Fresh, Busy
<1> DEFINE Good == /\ \A u \in Threads : mode'[u] # "run" => stack'[u] # <<>> /\ u \in alive'
                   /\ alive' \subseteq alive
                   /\ stack' \in [Threads -> Seq(FrameKinds)]
                   /\ mode' \in [Threads -> Modes]
                   /\ ev' \in [Threads -> EventRecords]
                   /\ exc' \in [Threads -> Exceptions]
                   /\ slipped' \in [Threads -> BOOLEAN]
<1>g. Recorded(t) \/ Throw(t, "cap") \/ Throw(t, "sink") => Good
  BY <1>1, <1>r, <1>h DEF TracerType, Recorded
<1>n. \A m \in Recording : mode' = [mode EXCEPT ![t] = m] /\ UNCHANGED <<stack, alive, ev, exc, slipped>> => Good
  BY <1>1, <1>2, <1>3 DEF TracerType, Busy
<1> HIDE DEF Good
<1>5. CASE Check(t)
  <2>1. Good
    BY <1>5, <1>g, <1>n, <1>m DEF Check
  <2>2. TracerType'
    BY <1>1, <1>5, <2>1 DEF Check, Good, TracerType, runVars, writerVars
  <2> QED BY <1>4, <1>5, <2>1, <2>2 DEF Check, Good, runVars
<1>6. CASE Test(t)
  <2>1. Good
    BY <1>6, <1>g, <1>n, <1>m DEF Test
  <2>2. TracerType'
    BY <1>1, <1>6, <2>1 DEF Test, Good, TracerType, runVars, writerVars
  <2> QED BY <1>4, <1>6, <2>1, <2>2 DEF Test, Good, runVars
<1>7. CASE WriteLine(t)
  <2>1. Good
    BY <1>7, <1>n, <1>m DEF WriteLine
  <2>2. file' \in Seq(Threads \X {1, 2})
    <3>1. <<<<t, 1>>, <<t, 2>>>> \in Seq(Threads \X {1, 2})
      OBVIOUS
    <3> QED BY <1>1, <1>7, <3>1 DEF WriteLine, TracerType
  <2>3. TracerType'
    BY <1>1, <1>7, <2>1, <2>2 DEF WriteLine, Good, TracerType, runVars
  <2> QED BY <1>4, <1>7, <2>1, <2>3 DEF WriteLine, Good, runVars
<1>8. CASE CountLine(t)
  <2>1. Good
    BY <1>8, <1>g DEF CountLine
  <2>2. TracerType'
    BY <1>1, <1>8, <2>1 DEF CountLine, Good, TracerType, runVars
  <2> QED BY <1>4, <1>8, <2>1, <2>2 DEF CountLine, Good, runVars
<1>9. CASE FailWrite(t)
  <2>1. Good /\ sinkExc' \in BOOLEAN
    BY <1>1, <1>9, <1>g DEF FailWrite, TracerType
  <2>2. file' \in Seq(Threads \X {1, 2})
    <3>1. Append(file, <<t, 1>>) \in Seq(Threads \X {1, 2})
      BY <1>1 DEF TracerType
    <3> QED BY <1>1, <1>9, <3>1 DEF FailWrite, TracerType
  <2>3. TracerType'
    BY <1>1, <1>9, <2>1, <2>2 DEF FailWrite, Good, TracerType, runVars
  <2> QED BY <1>4, <1>9, <2>1, <2>3 DEF FailWrite, Good, runVars
<1> QED BY <1>5, <1>6, <1>7, <1>8, <1>9 DEF SinkStep

LEMMA InterruptsKeepBase == ASSUME Base, Interrupt \/ InterruptEntry PROVE Base'
<1>1. TracerType /\ Busy /\ Main \in Threads
  BY TracerAssumption DEF Base, Lifecycle
<1>2. CASE Interrupt
  <2>1. Throw(Main, "interrupt") /\ mode[Main] # "run" /\ Main \in alive
    BY <1>2 DEF Interrupt
  <2>2. /\ alive' = alive /\ stack' = stack
         /\ mode' \in [Threads -> Modes]
         /\ ev' \in [Threads -> EventRecords]
         /\ exc' \in [Threads -> Exceptions]
         /\ slipped' \in [Threads -> BOOLEAN]
         /\ \A u \in Threads : mode'[u] # "run" => stack'[u] # <<>> /\ u \in alive'
    BY <1>1, <2>1, ThrowKeeps
  <2>3. TracerType'
    BY <1>1, <1>2, <2>2 DEF Interrupt, TracerType, runVars, writerVars
  <2> QED BY <1>2, <2>1, <2>2, <2>3 DEF Interrupt, Base, Lifecycle, Unarmed, Fresh, Busy, runVars
<1>3. CASE InterruptEntry
  <2>1. /\ Main \in alive /\ stack[Main] \in Seq(FrameKinds) /\ "project" \in FrameKinds
        /\ stack' = [stack EXCEPT ![Main] = Append(stack[Main], "project")]
    BY <1>1, <1>3 DEF InterruptEntry, Runs, TracerType, FrameKinds
  <2>2. Append(stack[Main], "project") \in Seq(FrameKinds) /\ Append(stack[Main], "project") # <<>>
    BY <2>1, PushType
  <2>3. TracerType'
    BY <1>1, <1>3, <2>1, <2>2 DEF InterruptEntry, TracerType, runVars, writerVars
  <2> QED BY <1>1, <1>3, <2>1, <2>2, <2>3, ThreadKeepsBase DEF InterruptEntry, TracerType, runVars
<1> QED BY <1>2, <1>3

LEMMA BaseStep == Base /\ [TracerNext]_tvars => Base'
<1> SUFFICES ASSUME Base, [TracerNext]_tvars PROVE Base'
  OBVIOUS
<1>1. CASE UNCHANGED tvars
  BY <1>1 DEF tvars, runVars, writerVars, Base, TracerType, Lifecycle, Unarmed, Fresh, Busy
<1>2. ASSUME NEW t \in Threads, Thread(t) PROVE Base'
  <2>1. FrameStep(t) \/ SinkStep(t)
    BY <1>2 DEF Thread, FrameStep, SinkStep
  <2> QED BY <2>1, FrameStepsKeepBase, SinkStepsKeepBase
<1> QED BY <1>1, <1>2, RunStepsKeepBase, InterruptsKeepBase DEF TracerNext

-----------------------------------------------------------------------------
(* The depth.                                                               *)
Projects(s) == Cardinality({i \in 1 .. Len(s) : s[i] = "project"})
Deep(t) == Projects(stack[t]) + suspended[t]

\* While events come, _depth follows the stack: a return has counted its frame off
\* before the frame leaves.  An event that is being recorded has the depth of its
\* frame, even when the events have been switched off since.
DepthOk(t) ==
  ~slipped[t] =>
    /\ armed => depth[t] + (IF mode[t] \in Recording /\ ev[t].event = "return" THEN 1 ELSE 0)
                  = Deep(t)
    /\ mode[t] \in Recording =>
         /\ ev[t].depth + (IF ev[t].event \in {"call", "return"} THEN 1 ELSE 0) = Deep(t)
         /\ ev[t].event = "return" => Last(stack[t]) = "project"

DepthInv == \A t \in Threads : DepthOk(t)

LEMMA ProjectsPush ==
  ASSUME NEW s \in Seq(FrameKinds), NEW f \in FrameKinds
  PROVE  /\ Projects(s) \in Nat
         /\ Projects(Append(s, f)) = Projects(s) + (IF f = "project" THEN 1 ELSE 0)
<1> DEFINE P == {i \in 1 .. Len(s) : s[i] = "project"}
           n == Len(s) + 1
           Q == {i \in 1 .. n : Append(s, f)[i] = "project"}
<1>1. n \in Nat /\ Len(Append(s, f)) = n /\ n \notin P
  OBVIOUS
<1>2. IsFiniteSet(P)
  <2>1. IsFiniteSet(1 .. Len(s)) /\ P \in SUBSET (1 .. Len(s))
    BY FS_Interval
  <2> QED BY <2>1, FS_Subset
<1>3. Q = IF f = "project" THEN P \cup {n} ELSE P
  <2>1. \A i \in 1 .. n : Append(s, f)[i] = IF i = n THEN f ELSE s[i]
    OBVIOUS
  <2>2. 1 .. n = (1 .. Len(s)) \cup {n}
    OBVIOUS
  <2> QED BY <2>1, <2>2
<1>4. Projects(s) = Cardinality(P) /\ Projects(Append(s, f)) = Cardinality(Q)
  BY <1>1 DEF Projects
<1>5. Cardinality(P) \in Nat /\ Cardinality(P \cup {n}) = Cardinality(P) + 1
  <2> HIDE DEF P, n
  <2> QED BY <1>1, <1>2, FS_CardinalityType, FS_AddElement
<1> HIDE DEF P, Q, n
<1> QED BY <1>3, <1>4, <1>5

LEMMA ProjectsPop ==
  ASSUME NEW s \in Seq(FrameKinds), s # <<>>
  PROVE  /\ Projects(s) \in Nat /\ Projects(Front(s)) \in Nat
         /\ Projects(s) = Projects(Front(s)) + (IF Last(s) = "project" THEN 1 ELSE 0)
<1>1. Front(s) \in Seq(FrameKinds) /\ Last(s) \in FrameKinds /\ s = Append(Front(s), Last(s))
  BY PopType
<1>2. Projects(Append(Front(s), Last(s))) = Projects(Front(s)) + (IF Last(s) = "project" THEN 1 ELSE 0)
  BY <1>1, ProjectsPush
<1> QED BY <1>1, <1>2, ProjectsPush

LEMMA ThreadKeepsDepth ==
  ASSUME DepthInv, NEW t \in Threads, armed' = armed, DepthOk(t)',
         \A u \in Threads \ {t} :
           /\ stack'[u] = stack[u] /\ suspended'[u] = suspended[u] /\ depth'[u] = depth[u]
           /\ mode'[u] = mode[u] /\ ev'[u] = ev[u] /\ slipped'[u] = slipped[u]
  PROVE  DepthInv'
<1>1. ASSUME NEW u \in Threads \ {t} PROVE DepthOk(u)'
  BY <1>1 DEF DepthInv, DepthOk, Deep
<1> QED BY <1>1 DEF DepthInv

LEMMA FrameStepsKeepDepth ==
  ASSUME Base, DepthInv, NEW t \in Threads,
         FrameStep(t)
  PROVE  DepthInv'
<1>1. TracerType /\ DepthOk(t) /\ (mode[t] # "run" => stack[t] # <<>>)
  BY DEF Base, Lifecycle, Busy, DepthInv
<1>2. /\ stack[t] \in Seq(FrameKinds) /\ depth[t] \in Nat /\ suspended[t] \in {0, 1}
      /\ armed \in BOOLEAN /\ slipped[t] \in BOOLEAN
  BY <1>1 DEF TracerType
<1>3. Projects(stack[t]) \in Nat /\ Deep(t) = Projects(stack[t]) + suspended[t]
  BY <1>2, ProjectsPush DEF Deep, FrameKinds
<1>4. CASE StartThread(t)
  BY <1>4, <1>1, ThreadKeepsDepth DEF StartThread, runVars, DepthOk, Deep
<1>5. ASSUME NEW f \in FrameKinds, Call(t, f) PROVE DepthInv'
  <2>1. /\ stack' = [stack EXCEPT ![t] = Append(stack[t], f)] /\ mode[t] = "run"
        /\ UNCHANGED <<suspended, slipped, armed>>
    BY <1>5 DEF Call, Runs, runVars
  <2>2. Deep(t)' = Deep(t) + (IF f = "project" THEN 1 ELSE 0)
    BY <1>1, <1>2, <1>3, <2>1, ProjectsPush DEF Deep, TracerType
  <2>3. CASE Observed(t, f)
    <3>1. /\ depth' = [depth EXCEPT ![t] = depth[t] + 1] /\ f = "project"
          /\ ev' = [ev EXCEPT ![t] = [event |-> "call", depth |-> depth[t]]]
          /\ mode' = [mode EXCEPT ![t] = "check"] /\ armed
      BY <1>5, <2>3 DEF Call, Record, Observed
    <3>2. /\ depth'[t] = depth[t] + 1 /\ ev'[t].event = "call" /\ ev'[t].depth = depth[t]
          /\ mode'[t] = "check"
      BY <1>1, <3>1 DEF TracerType
    <3>3. DepthOk(t)'
      BY <1>1, <1>2, <1>3, <2>1, <2>2, <3>1, <3>2 DEF DepthOk, Recording
    <3> QED BY <1>1, <2>1, <3>1, <3>3, ThreadKeepsDepth DEF TracerType
  <2>4. CASE ~Observed(t, f)
    <3>1. UNCHANGED <<depth, ev, mode>> /\ (armed => f # "project")
      BY <1>5, <2>4 DEF Call, Observed
    <3>2. DepthOk(t)'
      BY <1>1, <1>2, <1>3, <2>1, <2>2, <3>1 DEF DepthOk, Recording
    <3> QED BY <1>1, <2>1, <3>1, <3>2, ThreadKeepsDepth DEF TracerType
  <2> QED BY <2>3, <2>4
<1>p. stack[t] # <<>> =>
        /\ Projects(Front(stack[t])) \in Nat
        /\ Projects(stack[t]) = Projects(Front(stack[t])) + (IF Top(t) = "project" THEN 1 ELSE 0)
  BY <1>2, ProjectsPop DEF Top
<1>6. CASE Return(t)
  <2>1. /\ stack[t] # <<>> /\ mode[t] = "run" /\ UNCHANGED <<suspended, slipped, armed>>
    BY <1>6 DEF Return, Runs, runVars
  <2>2. CASE Observed(t, Top(t))
    <3>1. /\ depth' = [depth EXCEPT ![t] = Sub1(depth[t])] /\ Top(t) = "project" /\ armed
          /\ ev' = [ev EXCEPT ![t] = [event |-> "return", depth |-> Sub1(depth[t])]]
          /\ mode' = [mode EXCEPT ![t] = "check"] /\ UNCHANGED stack
      BY <1>6, <2>2 DEF Return, Record, Observed
    <3>2. /\ depth'[t] = Sub1(depth[t]) /\ ev'[t].event = "return" /\ ev'[t].depth = Sub1(depth[t])
          /\ mode'[t] = "check"
      BY <1>1, <3>1 DEF TracerType
    <3>3. ~slipped[t] => depth[t] = Deep(t) /\ Sub1(depth[t]) + 1 = Deep(t)
      <4>1. ~slipped[t] => depth[t] = Deep(t)
        BY <1>1, <1>2, <2>1, <3>1 DEF DepthOk, Recording
      <4>2. Deep(t) \in Nat \ {0}
        BY <1>2, <1>3, <1>p, <2>1, <3>1
      <4> QED BY <4>1, <4>2 DEF Sub1
    <3>4. DepthOk(t)'
      BY <2>1, <3>1, <3>2, <3>3 DEF DepthOk, Recording, Deep, Top
    <3> QED BY <1>1, <2>1, <3>1, <3>4, ThreadKeepsDepth DEF TracerType
  <2>3. CASE ~Observed(t, Top(t))
    <3>1. /\ stack' = [stack EXCEPT ![t] = Front(stack[t])] /\ UNCHANGED <<depth, ev, mode>>
          /\ armed => Top(t) # "project"
      BY <1>6, <2>3 DEF Return, Observed
    <3>2. armed => Deep(t)' = Deep(t)
      BY <1>1, <1>2, <1>p, <2>1, <3>1 DEF Deep, TracerType
    <3>3. DepthOk(t)'
      BY <1>1, <2>1, <3>1, <3>2 DEF DepthOk, Recording
    <3> QED BY <1>1, <2>1, <3>1, <3>3, ThreadKeepsDepth DEF TracerType
  <2> QED BY <2>2, <2>3
<1>7. CASE Yield(t)
  <2>1. /\ stack[t] # <<>> /\ mode[t] = "run" /\ Top(t) = "project" /\ suspended[t] = 0
        /\ stack' = [stack EXCEPT ![t] = Front(stack[t])]
        /\ suspended' = [suspended EXCEPT ![t] = 1]
        /\ UNCHANGED <<depth, mode, ev, slipped, armed>>
    BY <1>2, <1>7 DEF Yield, Runs, runVars
  <2>2. Deep(t)' = Deep(t)
    BY <1>1, <1>p, <2>1 DEF Deep, TracerType
  <2>3. DepthOk(t)'
    BY <1>1, <2>1, <2>2 DEF DepthOk, Recording
  <2> QED BY <1>1, <2>1, <2>3, ThreadKeepsDepth DEF TracerType
<1>8. CASE Resume(t)
  <2>1. /\ mode[t] = "run" /\ suspended[t] = 1
        /\ stack' = [stack EXCEPT ![t] = Append(stack[t], "project")]
        /\ suspended' = [suspended EXCEPT ![t] = 0]
        /\ UNCHANGED <<depth, mode, ev, slipped, armed>>
    BY <1>8 DEF Resume, Runs, runVars
  <2>2. Deep(t)' = Deep(t)
    <3>1. Projects(Append(stack[t], "project")) = Projects(stack[t]) + 1
      BY <1>2, ProjectsPush DEF FrameKinds
    <3> QED BY <1>1, <1>3, <2>1, <3>1 DEF Deep, TracerType
  <2>3. DepthOk(t)'
    BY <1>1, <2>1, <2>2 DEF DepthOk, Recording
  <2> QED BY <1>1, <2>1, <2>3, ThreadKeepsDepth DEF TracerType
<1>9. CASE Line(t) \/ OnRaise(t)
  <2>1. UNCHANGED <<stack, suspended, depth, slipped, armed>> /\ mode[t] \in {"run", "raised"}
    BY <1>9 DEF Line, OnRaise, Runs, runVars
  <2>2. CASE \E e \in {"line", "exception"} : Record(t, e, depth[t]) /\ armed
    <3>1. PICK e \in {"line", "exception"} : Record(t, e, depth[t]) /\ armed
      BY <2>2
    <3>2. /\ ev' = [ev EXCEPT ![t] = [event |-> e, depth |-> depth[t]]]
          /\ mode' = [mode EXCEPT ![t] = "check"]
      BY <3>1 DEF Record
    <3>3. ev'[t].event = e /\ ev'[t].depth = depth[t] /\ mode'[t] = "check"
      BY <1>1, <3>2 DEF TracerType
    <3>4. Deep(t)' = Deep(t)
      BY <2>1 DEF Deep
    <3>5. DepthOk(t)'
      BY <1>1, <1>2, <2>1, <3>1, <3>3, <3>4 DEF DepthOk, Recording
    <3> QED BY <1>1, <2>1, <3>2, <3>5, ThreadKeepsDepth DEF TracerType
  <2>3. CASE mode' = [mode EXCEPT ![t] = "search"] /\ UNCHANGED ev
    <3>1. DepthOk(t)'
      BY <1>1, <2>1, <2>3 DEF DepthOk, Recording, Deep, TracerType
    <3> QED BY <1>1, <2>1, <2>3, <3>1, ThreadKeepsDepth DEF TracerType
  <2> QED BY <1>9, <2>2, <2>3 DEF Line, OnRaise, Observed
<1>10. CASE Raise(t) \/ Handle(t)
  <2>1. /\ UNCHANGED <<stack, suspended, depth, ev, slipped, armed>> /\ mode[t] \in {"run", "search"}
        /\ \/ mode' = [mode EXCEPT ![t] = "raised"]
           \/ mode' = [mode EXCEPT ![t] = "run"]
    BY <1>10 DEF Raise, Handle, Runs, runVars
  <2>2. DepthOk(t)'
    BY <1>1, <2>1 DEF DepthOk, Recording, Deep, TracerType
  <2> QED BY <1>1, <2>1, <2>2, ThreadKeepsDepth DEF TracerType
<1>11. CASE Unwind(t)
  <2>1. /\ stack[t] # <<>> /\ mode[t] = "search" /\ UNCHANGED <<suspended, ev, slipped, armed>>
        /\ stack' = [stack EXCEPT ![t] = Front(stack[t])]
        /\ depth' = IF Observed(t, Top(t)) THEN [depth EXCEPT ![t] = Sub1(depth[t])] ELSE depth
        /\ \/ mode' = [mode EXCEPT ![t] = "raised"]
           \/ mode' = [mode EXCEPT ![t] = "run"]
    BY <1>1, <1>11 DEF Unwind, runVars
  <2>2. Deep(t)' + (IF Top(t) = "project" THEN 1 ELSE 0) = Deep(t) /\ Deep(t)' \in Nat
    BY <1>1, <1>2, <1>p, <2>1 DEF Deep, TracerType
  <2>3. mode'[t] \notin Recording
    BY <1>1, <2>1 DEF TracerType, Recording
  <2>4. ~slipped[t] /\ armed => depth[t] = Deep(t) /\ depth'[t] = Deep(t)'
    <3>1. ~slipped[t] /\ armed => depth[t] = Deep(t)
      BY <1>1, <1>2, <2>1 DEF DepthOk, Recording
    <3>2. armed => depth'[t] = IF Top(t) = "project" THEN Sub1(depth[t]) ELSE depth[t]
      BY <1>1, <2>1 DEF Observed, TracerType
    <3> QED BY <1>2, <2>2, <3>1, <3>2 DEF Sub1
  <2>5. DepthOk(t)'
    <3>1. ~slipped[t] /\ armed => depth'[t] \in Nat /\ depth'[t] + 0 = Deep(t)'
      BY <1>2, <2>2, <2>4
    <3> QED BY <2>1, <2>3, <3>1 DEF DepthOk
  <2> QED BY <1>1, <2>1, <2>5, ThreadKeepsDepth DEF TracerType
<1> QED BY <1>4, <1>5, <1>6, <1>7, <1>8, <1>9, <1>10, <1>11 DEF FrameKinds, FrameStep

\* A callback that returned; one that raised leaves its thread slipped or right.
LEMMA RecordedKeepsDepth ==
  ASSUME Base, DepthInv, NEW t \in Threads, mode[t] \in Recording, Recorded(t),
         UNCHANGED <<armed, suspended, depth>>
  PROVE  DepthInv'
<1>1. TracerType /\ DepthOk(t) /\ stack[t] # <<>>
  BY DEF Base, Lifecycle, Busy, DepthInv, Recording
<1>2. /\ mode' = [mode EXCEPT ![t] = IF ev[t].event = "exception" THEN "search" ELSE "run"]
      /\ ev' = [ev EXCEPT ![t] = NoEvent] /\ slipped' = slipped
  BY DEF Recorded
<1>3. mode'[t] \notin Recording
  BY <1>1, <1>2 DEF TracerType, Recording
<1>4. CASE ev[t].event = "return"
  <2>1. stack' = [stack EXCEPT ![t] = Front(stack[t])]
    BY <1>4 DEF Recorded
  <2>2. /\ stack[t] \in Seq(FrameKinds) /\ depth[t] \in Nat /\ suspended[t] \in {0, 1}
    BY <1>1 DEF TracerType
  <2>3. /\ Projects(stack[t]) \in Nat /\ Projects(Front(stack[t])) \in Nat
        /\ Last(stack[t]) = "project" => Projects(stack[t]) = Projects(Front(stack[t])) + 1
    BY <1>1, <2>2, ProjectsPop
  <2>4. ~slipped[t] /\ armed => depth[t] = Deep(t)'
    BY <1>1, <1>4, <2>1, <2>2, <2>3 DEF DepthOk, Deep, TracerType
  <2>5. DepthOk(t)'
    BY <1>2, <1>3, <2>2, <2>4 DEF DepthOk
  <2> QED BY <1>1, <1>2, <2>1, <2>5, ThreadKeepsDepth DEF TracerType
<1>5. CASE ev[t].event # "return"
  <2>1. stack' = stack
    BY <1>5 DEF Recorded
  <2>2. DepthOk(t)'
    BY <1>1, <1>2, <1>3, <1>5, <2>1 DEF DepthOk, Deep
  <2> QED BY <1>1, <1>2, <2>1, <2>2, ThreadKeepsDepth DEF TracerType
<1> QED BY <1>4, <1>5

LEMMA ThrowKeepsDepth ==
  ASSUME Base, DepthInv, NEW t \in Threads, mode[t] \in Recording,
         NEW e, Throw(t, e), UNCHANGED <<armed, suspended, depth>>
  PROVE  DepthInv'
<1>1. TracerType /\ DepthOk(t)
  BY DEF Base, DepthInv
<1>2. /\ mode' = [mode EXCEPT ![t] = IF ev[t].event = "exception" THEN "search" ELSE "raised"]
      /\ slipped' = [slipped EXCEPT ![t] = slipped[t] \/ ev[t].event = "return"]
      /\ ev' = [ev EXCEPT ![t] = NoEvent] /\ UNCHANGED stack
  BY DEF Throw
<1>3. mode'[t] \notin Recording /\ (~slipped'[t] => ~slipped[t] /\ ev[t].event # "return")
  BY <1>1, <1>2 DEF TracerType, Recording
<1>4. DepthOk(t)'
  BY <1>1, <1>2, <1>3 DEF DepthOk, Deep
<1> QED BY <1>1, <1>2, <1>4, ThreadKeepsDepth DEF TracerType

LEMMA SinkStepsKeepDepth ==
  ASSUME Base, DepthInv, NEW t \in Threads,
         \/ SinkStep(t)
         \/ t = Main /\ Interrupt
  PROVE  DepthInv'
<1>1. mode[t] \in Recording /\ UNCHANGED <<armed, suspended, depth>>
  BY DEF Check, Test, WriteLine, CountLine, FailWrite, Interrupt, Recording, runVars, SinkStep
<1>2. CASE Recorded(t)
  BY <1>1, <1>2, RecordedKeepsDepth
<1>3. CASE \E e \in {"cap", "sink", "interrupt"} : Throw(t, e)
  BY <1>1, <1>3, ThrowKeepsDepth
<1>4. CASE /\ \E m \in {"test", "write", "count"} : mode' = [mode EXCEPT ![t] = m]
           /\ UNCHANGED <<stack, ev, slipped>>
  <2>1. TracerType /\ DepthOk(t) /\ mode'[t] \in Recording
    BY <1>4 DEF Base, DepthInv, TracerType, Recording
  <2>2. DepthOk(t)'
    BY <1>1, <1>4, <2>1 DEF DepthOk, Deep
  <2> QED BY <1>1, <1>4, <2>1, <2>2, ThreadKeepsDepth DEF TracerType
<1> QED BY <1>2, <1>3, <1>4 DEF Check, Test, WriteLine, CountLine, FailWrite, Interrupt, SinkStep

LEMMA DepthStep == Base /\ DepthInv /\ [TracerNext]_tvars => DepthInv'
<1> SUFFICES ASSUME Base, DepthInv, [TracerNext]_tvars PROVE DepthInv'
  OBVIOUS
<1> USE DEF threadVars, writerVars, runVars
<1>1. CASE \/ Claim \/ ClaimInterrupted \/ ArmInterrupted \/ Disarm \/ Free
           \/ FreeInterrupted \/ Finalize \/ UNCHANGED tvars
  <2>1. UNCHANGED <<stack, suspended, depth, mode, ev, slipped>>
    BY <1>1 DEF Claim, ClaimInterrupted, ArmInterrupted, Disarm, Free, FreeInterrupted, Finalize, tvars
  <2>2. armed' = armed \/ armed' = FALSE
    BY <1>1 DEF Claim, ClaimInterrupted, ArmInterrupted, Disarm, Free, FreeInterrupted, Finalize, tvars
  <2> QED BY <2>1, <2>2 DEF DepthInv, DepthOk, Deep
<1>2. CASE Arm
  <2>1. /\ UNCHANGED <<stack, suspended, depth, mode, ev, slipped>>
        /\ \A t \in Threads : stack[t] = <<>> /\ suspended[t] = 0 /\ depth[t] = 0 /\ mode[t] = "run"
    BY <1>2 DEF Arm, Base, Lifecycle, Fresh, Busy
  <2>2. Projects(<<>>) = 0
    BY FS_EmptySet DEF Projects
  <2> QED BY <2>1, <2>2 DEF DepthInv, DepthOk, Deep, Recording
<1>3. CASE InterruptEntry
  <2>1. TracerType /\ Main \in Threads
    BY TracerAssumption DEF Base
  <2>2. DepthOk(Main)'
    BY <1>3, <2>1 DEF InterruptEntry, DepthOk, TracerType
  <2> QED BY <1>3, <2>1, <2>2, ThreadKeepsDepth DEF InterruptEntry, TracerType
<1>4. CASE Interrupt
  BY <1>4, TracerAssumption, SinkStepsKeepDepth
<1>5. ASSUME NEW t \in Threads, Thread(t) PROVE DepthInv'
  <2>1. FrameStep(t) \/ SinkStep(t)
    BY <1>5 DEF Thread, FrameStep, SinkStep
  <2>2. CASE FrameStep(t)
    BY <2>2, FrameStepsKeepDepth
  <2>3. CASE SinkStep(t)
    BY <2>3, SinkStepsKeepDepth
  <2> QED BY <2>1, <2>2, <2>3
<1> QED BY <1>1, <1>2, <1>3, <1>4, <1>5 DEF TracerNext

\* The depth of an event being recorded is the number of project frames of its
\* thread's stack (the frame itself aside at a call or a return, the suspended
\* generators counted), for any threads, scripts, raises and interrupts:
\* tracer.py's thread-local _depth, moved in four callbacks, follows the stack.
THEOREM DepthIsTrueHolds == TracerSpec => []DepthIsTrue
<1>1. TracerInit => Base /\ DepthInv
  <2> SUFFICES ASSUME TracerInit PROVE DepthInv
    BY BaseInit
  <2>1. Projects(<<>>) = 0
    BY FS_EmptySet DEF Projects
  <2> QED BY <2>1 DEF TracerInit, DepthInv, DepthOk, Deep, Recording
<1>2. Base /\ DepthInv /\ [TracerNext]_tvars => (Base /\ DepthInv)'
  BY BaseStep, DepthStep
<1>3. Base /\ DepthInv => DepthIsTrue
  <2> SUFFICES ASSUME Base, DepthInv, NEW t \in Threads, mode[t] \in Recording, ~slipped[t]
               PROVE  ev[t].depth = Frames(t) + suspended[t]
                                      - IF ev[t].event \in {"call", "return"} THEN 1 ELSE 0
    BY DEF DepthIsTrue
  <2>1. /\ stack[t] \in Seq(FrameKinds) /\ suspended[t] \in {0, 1} /\ ev[t].depth \in Nat
        /\ ev[t].depth + (IF ev[t].event \in {"call", "return"} THEN 1 ELSE 0) = Deep(t)
    BY DEF Base, TracerType, EventRecords, DepthInv, DepthOk
  <2>2. Frames(t) \in Nat /\ Deep(t) = Frames(t) + suspended[t]
    BY <2>1, ProjectsPush DEF Projects, Frames, Deep, FrameKinds
  <2> QED BY <2>1, <2>2
<1> QED BY <1>1, <1>2, <1>3, PTL DEF TracerSpec

-----------------------------------------------------------------------------
(* A dropped event is told.                                                  *)

ToldInv ==
  /\ lost # {} => broken
  /\ broken => swallow \/ sinkExc
  /\ pc \in {"disarmed", "ended", "done"} => Main \notin alive
  /\ outcome = "ok" => pc \in {"ended", "done"}
  /\ SinkFailureTold

\* Neither run() nor the thread that is not Main can end an event of Main, and a
\* Main that is not alive is in no callback.
LEMMA ToldStep == Base /\ ToldInv /\ [TracerNext]_tvars => ToldInv'
<1> SUFFICES ASSUME Base, ToldInv, [TracerNext]_tvars PROVE ToldInv'
  OBVIOUS
<1>1. TracerType /\ Busy /\ Fresh /\ Main \in Threads
  BY TracerAssumption DEF Base, Lifecycle
<1> USE DEF threadVars, writerVars, runVars
<1>2. CASE UNCHANGED tvars \/ Disarm \/ FreeInterrupted \/ Finalize
  <2>1. UNCHANGED <<swallow, alive, lost, sinkExc, broken>>
    BY <1>2 DEF tvars, Disarm, FreeInterrupted, Finalize
  <2>2. \/ pc' = pc
        \/ pc' = "disarmed" /\ pc = "script" /\ Main \notin alive
        \/ pc' = "ended" /\ pc = "disarmed"
        \/ pc' = "done" /\ pc = "ended"
    BY <1>2 DEF tvars, Disarm, FreeInterrupted, Finalize
  <2>3. outcome' = outcome \/ outcome' = "interrupted in stop"
    BY <1>2 DEF tvars, Disarm, FreeInterrupted, Finalize
  <2> QED BY <2>1, <2>2, <2>3 DEF ToldInv, SinkFailureTold
<1>3. CASE Claim \/ ClaimInterrupted \/ Arm \/ ArmInterrupted
  <2>1. UNCHANGED <<swallow, lost, sinkExc, broken>> /\ pc \in {"idle", "claimed"}
    BY <1>3 DEF Claim, ClaimInterrupted, Arm, ArmInterrupted
  <2>2. alive = {} /\ (pc' \in {"claimed", "script"} \/ (pc' = "done" /\ alive' = {}))
    BY <1>1, <1>3 DEF Claim, ClaimInterrupted, Arm, ArmInterrupted, Fresh
  <2>3. outcome' = outcome \/ outcome' \in {"refused", "interrupted", "interrupted in claim"}
    BY <1>3 DEF Claim, ClaimInterrupted, Arm, ArmInterrupted
  <2> QED BY <2>1, <2>2, <2>3 DEF ToldInv, SinkFailureTold
<1>4. CASE Free
  BY <1>4 DEF Free, ToldInv, SinkFailureTold
<1>5. ASSUME UNCHANGED <<pc, swallow, outcome, lost, sinkExc, broken>>,
             Main \in alive' => Main \in alive
      PROVE  ToldInv'
  BY <1>5 DEF ToldInv, SinkFailureTold
<1>6. CASE Interrupt \/ InterruptEntry
  BY <1>5, <1>6 DEF Interrupt, InterruptEntry, Throw
<1>7. ASSUME NEW t \in Threads, Thread(t) PROVE ToldInv'
  <2>1. CASE FrameStep(t)
    <3>1. UNCHANGED <<pc, swallow, outcome, lost, sinkExc, broken>>
      BY <2>1 DEF FrameStep, StartThread, Call, Return, Yield, Resume, Line, Raise, OnRaise,
                  Handle, Unwind
    <3>2. Main \in alive' => Main \in alive
      BY <2>1 DEF FrameStep, StartThread, Call, Return, Yield, Resume, Line, Raise, OnRaise,
                  Handle, Unwind
    <3> QED BY <1>5, <3>1, <3>2
  <2>2. CASE Check(t) \/ WriteLine(t) \/ CountLine(t)
    BY <1>5, <2>2 DEF Check, WriteLine, CountLine, Recorded, Throw
  <2>3. CASE Test(t) \/ FailWrite(t)
    <3>1. t \in alive /\ alive' \subseteq alive /\ UNCHANGED <<pc, swallow, outcome>>
      BY <1>1, <2>3 DEF Test, FailWrite, Recorded, Throw, Busy
    <3>2. /\ lost' = lost \/ (lost' = lost \cup {t} /\ broken')
          /\ broken' => (broken /\ sinkExc' = sinkExc) \/ swallow \/ sinkExc'
          /\ broken => broken'
      BY <2>3 DEF Test, FailWrite
    <3>3. t = Main => pc \notin {"disarmed", "ended", "done"}
      BY <3>1 DEF ToldInv
    <3> QED BY <1>1, <3>1, <3>2, <3>3 DEF ToldInv, SinkFailureTold
  <2> QED BY <1>7, <2>1, <2>2, <2>3 DEF Thread, FrameStep
<1> QED BY <1>2, <1>3, <1>4, <1>6, <1>7 DEF TracerNext

\* run() does not return normally when a sink that reports its failures dropped
\* an event of run()'s own thread, in whichever thread the write failed and
\* whatever the script handled: tracer.py's latched _sink_exc is raised again.
THEOREM SinkFailureToldHolds == TracerSpec => []SinkFailureTold
<1>1. TracerInit => Base /\ ToldInv
  BY BaseInit DEF TracerInit, ToldInv, SinkFailureTold
<1>2. Base /\ ToldInv /\ [TracerNext]_tvars => (Base /\ ToldInv)'
  BY BaseStep, ToldStep
<1>3. ToldInv => SinkFailureTold
  BY DEF ToldInv
<1> QED BY <1>1, <1>2, <1>3, PTL DEF TracerSpec

-----------------------------------------------------------------------------
(* The file.                                                                 *)
Counting == {t \in Threads : mode[t] = "count"}
Written == good + Cardinality(Counting)     \* lines written whole
Whole(f, n) == \A i \in 1 .. n : f[i][2] = IF i % 2 = 1 THEN 1 ELSE 2

\* Until a write fails, the file is the lines written; after it they are its
\* beginning, and a counted line is one of them, so that the cut loses none.
FileInv ==
  ~overlap =>
    IF closed THEN Len(file) % 2 = 0 /\ Whole(file, Len(file))
    ELSE /\ 2 * Written <= Len(file) /\ Whole(file, 2 * Written)
         /\ ~broken => 2 * Written = Len(file)

LEMMA TwiceIsEven == \A k \in Nat : (2 * k) % 2 = 0
OBVIOUS

LEMMA CountingMove ==
  ASSUME TracerType, NEW t \in Threads, \A u \in Threads \ {t} : mode'[u] = mode[u]
  PROVE  /\ IsFiniteSet(Counting) /\ Cardinality(Counting) \in Nat /\ Cardinality(Counting') \in Nat
         /\ mode[t] = "count" /\ mode'[t] # "count" => Cardinality(Counting') + 1 = Cardinality(Counting)
         /\ mode[t] # "count" /\ mode'[t] = "count" => Cardinality(Counting') = Cardinality(Counting) + 1
         /\ mode[t] # "count" /\ mode'[t] # "count" => Cardinality(Counting') = Cardinality(Counting)
<1>1. IsFiniteSet(Counting) /\ IsFiniteSet(Counting')
  <2>1. Counting \in SUBSET Threads /\ Counting' \in SUBSET Threads
    BY DEF Counting
  <2> QED BY <2>1, TracerAssumption, FS_Subset
<1>2. Cardinality(Counting) \in Nat /\ Cardinality(Counting') \in Nat
  BY <1>1, FS_CardinalityType
<1>3. CASE mode[t] = "count" /\ mode'[t] # "count"
  <2>1. Counting' = Counting \ {t} /\ t \in Counting
    BY <1>3 DEF Counting
  <2> QED BY <1>1, <1>2, <1>3, <2>1, FS_RemoveElement
<1>4. CASE mode[t] # "count" /\ mode'[t] = "count"
  <2>1. Counting' = Counting \cup {t} /\ t \notin Counting
    BY <1>4 DEF Counting
  <2> QED BY <1>1, <1>2, <1>4, <2>1, FS_AddElement
<1>5. CASE mode[t] # "count" /\ mode'[t] # "count"
  <2>1. Counting' = Counting
    BY <1>5 DEF Counting
  <2> QED BY <1>1, <1>2, <1>5, <2>1
<1>6. CASE mode[t] = "count" /\ mode'[t] = "count"
  BY <1>1, <1>2, <1>6
<1> QED BY <1>3, <1>4, <1>5, <1>6

LEMMA FileStep == Base /\ FileInv /\ [TracerNext]_tvars => FileInv'
<1> SUFFICES ASSUME Base, FileInv, [TracerNext]_tvars PROVE FileInv'
  OBVIOUS
<1>1. TracerType /\ Busy
  BY DEF Base, Lifecycle
<1>2. /\ good \in Nat /\ Len(file) \in Nat /\ file \in Seq(Threads \X {1, 2})
      /\ closed \in BOOLEAN /\ broken \in BOOLEAN /\ overlap \in BOOLEAN
  BY <1>1 DEF TracerType
<1>3. Cardinality(Counting) \in Nat /\ Written \in Nat
  <2>1. Counting \in SUBSET Threads
    BY DEF Counting
  <2> QED BY <1>2, <2>1, TracerAssumption, FS_Subset, FS_CardinalityType DEF Written
<1> USE DEF threadVars, writerVars, runVars
<1>4. ASSUME UNCHANGED <<file, good, broken, closed, overlap>>,
             Cardinality(Counting') = Cardinality(Counting)
      PROVE  FileInv'
  BY <1>4 DEF FileInv, Written, Whole
<1>5. ASSUME UNCHANGED <<file, good, broken, closed, overlap, mode>> PROVE FileInv'
  <2>1. Counting' = Counting
    BY <1>5 DEF Counting
  <2> QED BY <1>4, <1>5, <2>1
<1>6. CASE \/ UNCHANGED tvars \/ Claim \/ ClaimInterrupted \/ Arm \/ ArmInterrupted
           \/ Disarm \/ Free \/ FreeInterrupted
  BY <1>5, <1>6 DEF tvars, Claim, ClaimInterrupted, Arm, ArmInterrupted, Disarm, Free, FreeInterrupted
<1>7. CASE Finalize
  <2> DEFINE n == IF broken /\ 2 * good < Len(file) THEN 2 * good ELSE Len(file)
  <2>1. closed' /\ overlap' = overlap
    BY <1>7 DEF Finalize
  <2>2. Len(file') = n /\ \A i \in 1 .. n : file'[i] = file[i]
    <3>1. 2 * good < Len(file) =>
            LET cut == SubSeq(file, 1, 2 * good)
            IN  Len(cut) = 2 * good /\ \A i \in 1 .. 2 * good : cut[i] = file[i]
      BY <1>2
    <3> QED BY <1>2, <1>7, <3>1 DEF Finalize
  <2>3. ~overlap => n % 2 = 0 /\ Whole(file, n)
    <3>1. ~overlap /\ closed => n % 2 = 0 /\ Whole(file, n)
      <4>1. (2 * good) % 2 = 0
        BY <1>2, TwiceIsEven
      <4>2. ~overlap /\ closed => n % 2 = 0
        BY <1>2, <4>1 DEF FileInv
      <4>3. n \in Nat /\ n <= Len(file)
        BY <1>2
      <4> HIDE DEF n
      <4>4. ~overlap /\ closed => Whole(file, Len(file))
        BY DEF FileInv
      <4>5. Whole(file, Len(file)) => Whole(file, n)
        BY <1>2, <4>3 DEF Whole
      <4> QED BY <4>2, <4>4, <4>5
    <3>2. ~overlap /\ ~closed =>
            2 * good <= 2 * Written /\ n <= 2 * Written /\ (n = 2 * good \/ n = 2 * Written)
      BY <1>2, <1>3 DEF FileInv, Written
    <3>3. ~overlap /\ ~closed => n % 2 = 0
      BY <1>2, <1>3, <3>2, TwiceIsEven
    <3>4. ~overlap /\ ~closed => Whole(file, n)
      BY <1>2, <1>3, <3>2 DEF FileInv, Whole
    <3> QED BY <1>2, <3>1, <3>3, <3>4
  <2>4. ~overlap => Whole(file', n)
    BY <2>2, <2>3 DEF Whole
  <2> QED BY <2>1, <2>2, <2>3, <2>4 DEF FileInv
<1>8. ASSUME NEW t \in Threads, Thread(t) \/ ((Interrupt \/ InterruptEntry) /\ t = Main)
      PROVE  FileInv'
  <2>0. Main \in Threads
    BY TracerAssumption
  <2>1. \A u \in Threads \ {t} : mode'[u] = mode[u]
    <3>1. CASE UNCHANGED mode \/ \E m : mode' = [mode EXCEPT ![t] = m]
      BY <1>1, <3>1 DEF TracerType
    <3>2. Recorded(t) \/ Throw(t, "cap") \/ Throw(t, "sink") \/ Throw(t, "interrupt") =>
            \E m : mode' = [mode EXCEPT ![t] = m]
      BY DEF Recorded, Throw
    <3>3. CASE StartThread(t) \/ Call(t, "project") \/ Call(t, "library") \/ Return(t) \/ Yield(t) \/ Resume(t)
      BY <3>1, <3>3 DEF StartThread, Call, Return, Yield, Resume, Record
    <3>4. CASE Line(t) \/ Raise(t) \/ OnRaise(t) \/ Handle(t) \/ Unwind(t)
      BY <3>1, <3>4 DEF Line, Raise, OnRaise, Handle, Unwind, Record
    <3>5. CASE Check(t) \/ Test(t) \/ WriteLine(t) \/ CountLine(t) \/ FailWrite(t)
      BY <3>1, <3>2, <3>5 DEF Check, Test, WriteLine, CountLine, FailWrite
    <3>6. CASE (Interrupt \/ InterruptEntry) /\ t = Main
      BY <3>1, <3>2, <3>6 DEF Interrupt, InterruptEntry
    <3> QED BY <1>8, <3>3, <3>4, <3>5, <3>6 DEF Thread
  <2>2. /\ IsFiniteSet(Counting) /\ Cardinality(Counting') \in Nat
        /\ mode[t] = "count" /\ mode'[t] # "count" => Cardinality(Counting') + 1 = Cardinality(Counting)
        /\ mode[t] # "count" /\ mode'[t] = "count" => Cardinality(Counting') = Cardinality(Counting) + 1
        /\ mode[t] # "count" /\ mode'[t] # "count" => Cardinality(Counting') = Cardinality(Counting)
    BY <1>1, <2>1, CountingMove
  <2>3. CASE WriteLine(t)
    <3>1. /\ ~closed /\ file' = file \o <<<<t, 1>>, <<t, 2>>>> /\ (overlap' <=> overlap \/ broken)
          /\ mode[t] = "write" /\ mode'[t] = "count" /\ UNCHANGED <<good, closed, broken>>
      BY <1>1, <2>3 DEF WriteLine, TracerType
    <3>2. /\ Len(file') = Len(file) + 2 /\ \A i \in 1 .. Len(file) : file'[i] = file[i]
          /\ file'[Len(file) + 1] = <<t, 1>> /\ file'[Len(file) + 2] = <<t, 2>>
      BY <1>2, <3>1
    <3>3. Written' = Written + 1
      BY <1>2, <1>3, <2>2, <3>1 DEF Written
    <3>4. SUFFICES ASSUME ~overlap' PROVE 2 * Written' = Len(file') /\ Whole(file', 2 * Written')
      BY <3>1 DEF FileInv
    <3>5. 2 * Written = Len(file) /\ Whole(file, Len(file))
      BY <3>1, <3>4 DEF FileInv
    <3>6. ASSUME NEW i \in 1 .. Len(file) + 2 PROVE file'[i][2] = IF i % 2 = 1 THEN 1 ELSE 2
      <4>1. CASE i \in 1 .. Len(file)
        BY <3>2, <3>5, <4>1 DEF Whole
      <4>2. CASE i = Len(file) + 1
        <5>1. i % 2 = 1
          BY <1>3, <3>5, <4>2
        <5> QED BY <3>2, <4>2, <5>1
      <4>3. CASE i = Len(file) + 2
        <5>1. i % 2 = 0
          BY <1>3, <3>5, <4>3
        <5> QED BY <3>2, <4>3, <5>1
      <4> QED BY <1>2, <4>1, <4>2, <4>3
    <3>7. 2 * Written' = Len(file) + 2 /\ Len(file') = Len(file) + 2
      BY <1>2, <1>3, <3>2, <3>3, <3>5
    <3>8. Whole(file', Len(file) + 2)
      BY <3>6 DEF Whole
    <3> QED BY <3>7, <3>8
  <2>4. CASE CountLine(t)
    <3>1. mode[t] = "count" /\ mode'[t] # "count" /\ good' = good + 1
          /\ UNCHANGED <<file, broken, closed, overlap>>
      BY <1>1, <2>4 DEF CountLine, Recorded, TracerType
    <3>2. Written' = Written
      BY <1>2, <1>3, <2>2, <3>1 DEF Written
    <3> QED BY <3>1, <3>2 DEF FileInv, Whole
  <2>5. CASE FailWrite(t)
    <3>1. /\ mode[t] # "count" /\ mode'[t] # "count" /\ broken'
          /\ UNCHANGED <<good, closed, overlap>>
          /\ \/ file' = file
             \/ ~closed /\ file' = Append(file, <<t, 1>>)
      BY <1>1, <2>5 DEF FailWrite, Recorded, Throw, TracerType
    <3>2. Written' = Written
      BY <1>2, <1>3, <2>2, <3>1 DEF Written
    <3>3. CASE file' = file
      BY <3>1, <3>2, <3>3 DEF FileInv, Whole
    <3>4. CASE ~closed /\ file' = Append(file, <<t, 1>>)
      <4>1. Len(file') = Len(file) + 1 /\ \A i \in 1 .. Len(file) : file'[i] = file[i]
        BY <1>2, <3>4
      <4> QED BY <1>2, <1>3, <3>1, <3>2, <3>4, <4>1 DEF FileInv, Whole
    <3> QED BY <3>1, <3>3, <3>4
  <2>6. CASE FrameStep(t)
             \/ Check(t) \/ Test(t) \/ ((Interrupt \/ InterruptEntry) /\ t = Main)
    <3>1. UNCHANGED <<file, good, broken, closed, overlap>>
      BY <2>6 DEF FrameStep, StartThread, Call, Return, Yield, Resume, Line, Raise, OnRaise,
                  Handle, Unwind, Check, Test, Interrupt, InterruptEntry
    <3>2. (mode[t] # "count" /\ mode'[t] # "count") \/ mode' = mode
      <4>1. CASE StartThread(t) \/ Call(t, "project") \/ Call(t, "library") \/ Return(t) \/ Yield(t) \/ Resume(t)
        BY <1>1, <4>1 DEF StartThread, Call, Return, Yield, Resume, Record, Runs, TracerType
      <4>2. CASE Line(t) \/ Raise(t) \/ OnRaise(t) \/ Handle(t) \/ Unwind(t)
        BY <1>1, <4>2 DEF Line, Raise, OnRaise, Handle, Unwind, Record, Runs, TracerType
      <4>3. CASE Check(t) \/ Test(t)
        BY <1>1, <4>3 DEF Check, Test, Recorded, Throw, TracerType
      <4>4. CASE (Interrupt \/ InterruptEntry) /\ t = Main
        BY <1>1, <4>4 DEF Interrupt, InterruptEntry, Throw, Runs, TracerType
      <4> QED BY <2>6, <4>1, <4>2, <4>3, <4>4 DEF FrameStep
    <3>3. mode' = mode => Counting' = Counting
      BY DEF Counting
    <3> QED BY <1>4, <2>2, <3>1, <3>2, <3>3
  <2> QED BY <1>8, <2>3, <2>4, <2>5, <2>6 DEF Thread, FrameStep
<1> QED BY <1>6, <1>7, <1>8, TracerAssumption DEF TracerNext

\* The finalized file has whole lines only, for any interleaving of any number of
\* threads that write, count and fail, unless a write was under way while another
\* failed: finalize() cuts the file after the lines counted (writer.py).
THEOREM LinesAreWholeHolds == TracerSpec => []LinesAreWhole
<1>1. TracerInit => Base /\ FileInv
  <2> SUFFICES ASSUME TracerInit PROVE FileInv
    BY BaseInit
  <2>1. Counting = {}
    BY DEF TracerInit, Counting
  <2> QED BY <2>1, FS_EmptySet DEF TracerInit, FileInv, Written, Whole
<1>2. Base /\ FileInv /\ [TracerNext]_tvars => (Base /\ FileInv)'
  BY BaseStep, FileStep
<1>3. FileInv => LinesAreWhole
  BY DEF FileInv, LinesAreWhole, Whole
<1> QED BY <1>1, <1>2, <1>3, PTL DEF TracerSpec
=============================================================================
