----------------------------- MODULE TraceClient -----------------------------
(***************************************************************************)
(* One browser tab and the server's end of its websocket: how the trace on *)
(* screen is filled (client.ts, useGraphStore.ts, useBufferedTraceEvents,  *)
(* TimelinePanel.tsx).  Stored sessions are loaded on request and seekable: *)
(* the tab asks for windows of them.  Live events are broadcast to every   *)
(* client, carry no session, and are buffered until the next frame.        *)
(*                                                                         *)
(* Requests of one tab are handled one by one, but a load is a task of its *)
(* own.  A promise is settled by its reply if it is still in the pending    *)
(* map, or else by its timer; asked has the requests whose timer runs.     *)
(* React runs the effects of a store change before the next event of the   *)
(* page, so they are part of the step that causes them.                    *)
(*                                                                         *)
(* epoch, windowBy, received, ended and promised are history variables:    *)
(* how many sessions have started, the request the window is from, the     *)
(* live events since the start and how many of them came before the last   *)
(* end, and that the session was announced seekable and nothing it asked   *)
(* for has failed.                                                         *)
(***************************************************************************)
EXTENDS Naturals, Sequences, FiniteSets

CONSTANTS
  Stored, Live,   \* sessions
  TraceLen,       \* events of each stored session
  WindowSize,     \* traceWindowSize
  MaxEvents,      \* bound: events of one live session
  MaxLoads,       \* bound: clicks on a stored session
  MaxScrubs,      \* bound: moves of the scrubber
  None

ASSUME ClientAssumption ==
  /\ TraceLen \in [Stored -> Nat \ {0}]
  /\ WindowSize \in Nat \ {0}
  /\ MaxEvents \in Nat /\ MaxLoads \in Nat /\ MaxScrubs \in Nat
  /\ Stored \cap Live = {} /\ None \notin Stored \cup Live

\* A request for a window: its session, first event, why it is made, and when.
Requests == [id : Nat, sid : Stored, start : Nat, why : {"initial", "scrub"}, epoch : Nat]

ASSUME NoneAssumption == None \notin Requests

VARIABLES
  session, seekable, total, events, complete,  \* the store's trace slice
  buffer,               \* live events waiting for the next frame
  debounce,             \* the scrubber's pending seek
  asked, pending,       \* requests with a timer; ids in the pending map
  open, toServer, toClient,
  loads,                \* the server's load tasks
  producer, sent,       \* each live session's producer and its events
  nextId, clicks, scrubs,
  epoch, windowBy, received, ended, promised

store == <<session, seekable, total, events, complete>>
wires == <<open, toServer, toClient>>
server == <<loads, producer, sent>>
user == <<clicks, scrubs>>
history == <<epoch, windowBy, received, ended, promised>>
vars == <<store, buffer, debounce, asked, pending, wires, server, nextId,
          user, history>>

Sessions == Stored \cup Live
LiveEvents(l) == {<<l, n>> : n \in 1 .. MaxEvents}
AllEvents == UNION {LiveEvents(l) : l \in Live}
               \cup UNION {{<<s, n>> : n \in 1 .. TraceLen[s]} : s \in Stored}

\* read_window: count events from start on, or fewer at the end.
Slice(s, start) ==
  [i \in 1 .. IF start + WindowSize <= TraceLen[s] THEN WindowSize
                                                   ELSE TraceLen[s] - start
     |-> <<s, start + i>>]

Init ==
  /\ session = None /\ seekable = FALSE /\ total = 0 /\ events = <<>>
  /\ complete = FALSE
  /\ buffer = <<>> /\ debounce = None /\ asked = {} /\ pending = {}
  /\ open = TRUE /\ toServer = <<>> /\ toClient = <<>>
  /\ loads = {}
  /\ producer = [l \in Live |-> "new"] /\ sent = [l \in Live |-> 0]
  /\ nextId = 1 /\ clicks = 0 /\ scrubs = 0
  /\ epoch = 0 /\ windowBy = None /\ received = <<>> /\ ended = 0
  /\ promised = FALSE
-----------------------------------------------------------------------------
(* The server and the producers.                                           *)

ToClient(m) == open /\ toClient' = Append(toClient, m)

ServerOnly == UNCHANGED <<store, buffer, debounce, asked, pending, nextId,
                          user, history>>

Reply(q) ==
  [type |-> "window", id |-> q.id, sid |-> q.sid, events |-> Slice(q.sid, q.start),
   total |-> TraceLen[q.sid]]

\* Mutant: seeks are answered by tasks of their own, as loads are.
ServeAnySeek ==
  \E i \in DOMAIN toServer :
    /\ toServer[i].type = "seek"
    /\ toServer' = [j \in 1 .. Len(toServer) - 1 |-> toServer[IF j < i THEN j ELSE j + 1]]
    /\ \/ ToClient(Reply(toServer[i]))
       \/ ToClient([type |-> "error", id |-> toServer[i].id])
    /\ ServerOnly /\ UNCHANGED <<open, server>>

\* The receive loop answers a seek before it reads the next message; the read
\* may fail.
ServeSeek ==
  /\ toServer # <<>> /\ Head(toServer).type = "seek"
  /\ toServer' = Tail(toServer)
  /\ \/ ToClient(Reply(Head(toServer)))
     \/ ToClient([type |-> "error", id |-> Head(toServer).id])
  /\ ServerOnly /\ UNCHANGED <<open, server>>

\* session_load_request: a task is created.
ServeLoad ==
  /\ toServer # <<>> /\ Head(toServer).type = "load"
  /\ toServer' = Tail(toServer)
  /\ loads' = loads \cup {[n |-> Head(toServer).n, sid |-> Head(toServer).sid,
                           stage |-> "building"]}
  /\ ServerOnly /\ UNCHANGED <<open, toClient, producer, sent>>

\* A task whose index is built, in the executor, sends the start ...
LoadStarts(t) ==
  /\ t \in loads /\ t.stage = "building"
  /\ loads' = (loads \ {t}) \cup {[t EXCEPT !.stage = "ending"]}
  /\ ToClient([type |-> "start", sid |-> t.sid, seekable |-> TRUE])
  /\ ServerOnly /\ UNCHANGED <<open, toServer, producer, sent>>

\* ... and then the end; the events stay where they are.
LoadEnds(t) ==
  /\ t \in loads /\ t.stage = "ending"
  /\ loads' = loads \ {t}
  /\ ToClient([type |-> "end", sid |-> t.sid])
  /\ ServerOnly /\ UNCHANGED <<open, toServer, producer, sent>>

\* The file is missing, or no index can be built: nothing is sent.
LoadFails(t) ==
  /\ t \in loads /\ t.stage = "building"
  /\ loads' = loads \ {t}
  /\ ServerOnly /\ UNCHANGED <<wires, producer, sent>>

\* External: a producer's messages, broadcast.  It may vanish without an end.
Broadcast(l) ==
  /\ \/ /\ producer[l] = "new"
        /\ producer' = [producer EXCEPT ![l] = "on"]
        /\ ToClient([type |-> "start", sid |-> l, seekable |-> FALSE])
        /\ UNCHANGED sent
     \/ /\ producer[l] = "on" /\ sent[l] < MaxEvents
        /\ sent' = [sent EXCEPT ![l] = @ + 1]
        /\ ToClient([type |-> "event", event |-> <<l, sent[l] + 1>>])
        /\ UNCHANGED producer
     \/ /\ producer[l] = "on"
        /\ producer' = [producer EXCEPT ![l] = "off"]
        /\ ToClient([type |-> "end", sid |-> l])
        /\ UNCHANGED sent
  /\ ServerOnly /\ UNCHANGED <<open, toServer, loads>>

\* External: the connection breaks, and nothing opens another.
Close ==
  /\ open /\ open' = FALSE
  /\ toServer' = <<>> /\ toClient' = <<>> /\ loads' = {}
  /\ UNCHANGED <<store, buffer, debounce, asked, pending, producer, sent,
                 nextId, user, history>>
-----------------------------------------------------------------------------
(* Requests of the tab.                                                    *)

Request(sid, start, why) ==
  [id |-> nextId, sid |-> sid, start |-> start, why |-> why, epoch |-> epoch']

\* requestTraceWindow: the timer is armed, the entry made and the message sent.
Ask(r, waiting, entries) ==
  /\ asked' = waiting \cup {r}
  /\ pending' = entries \cup {r.id}
  /\ toServer' = Append(toServer, [type |-> "seek", id |-> r.id, sid |-> r.sid,
                                   start |-> r.start])
  /\ nextId' = nextId + 1

ClickLoad(s) ==
  /\ open /\ clicks < MaxLoads
  /\ clicks' = clicks + 1
  /\ toServer' = Append(toServer, [type |-> "load", n |-> clicks', sid |-> s])
  /\ UNCHANGED <<store, buffer, debounce, asked, pending, open, toClient,
                 server, nextId, scrubs, history>>

\* A move of the scrubber, which has a range once the total is known, replaces
\* the pending seek.  The session is the one of the render the handler is from.
Scrub(position) ==
  /\ seekable /\ total > 0 /\ scrubs < MaxScrubs
  /\ scrubs' = scrubs + 1
  /\ debounce' = [sid |-> session, start |->
       IF position > WindowSize \div 2 THEN position - WindowSize \div 2 ELSE 0]
  /\ UNCHANGED <<store, buffer, asked, pending, wires, server, nextId, clicks,
                 history>>

\* 150 ms later; without a connection the promise rejects, and that is ignored.
DebounceFires ==
  /\ debounce # None
  /\ debounce' = None
  /\ UNCHANGED epoch
  /\ IF open
       THEN Ask(Request(debounce.sid, debounce.start, "scrub"), asked, pending)
       ELSE UNCHANGED <<asked, pending, toServer, nextId>>
  /\ UNCHANGED <<store, buffer, open, toClient, server, user, windowBy,
                 received, ended, promised>>

\* A request fails: only the first one of a session has a consequence, whatever
\* the session is by now.
Fails(r) ==
  /\ seekable' = (seekable /\ r.why # "initial")
  /\ promised' = (promised /\ ~(r.epoch = epoch /\ r.sid = session))

\* 5 s after the request, with or without its entry in the map.
Timeout(r) ==
  /\ r \in asked
  /\ asked' = asked \ {r} /\ pending' = pending \ {r.id}
  /\ Fails(r)
  /\ UNCHANGED <<session, total, events, complete, buffer, debounce, wires,
                 server, nextId, user, epoch, windowBy, received, ended>>
-----------------------------------------------------------------------------
(* Messages.                                                               *)

Receive(type) == toClient # <<>> /\ Head(toClient).type = type /\ toClient' = Tail(toClient)

\* Mutant: entries of the old session stay in the map.
StartKeepsPending ==
  LET m == Head(toClient) IN
  /\ Receive("start")
  /\ buffer' = <<>>
  /\ session' = m.sid /\ seekable' = m.seekable /\ total' = 0 /\ events' = <<>>
  /\ complete' = FALSE
  /\ epoch' = epoch + 1 /\ windowBy' = None /\ received' = <<>> /\ ended' = 0
  /\ promised' = m.seekable
  /\ IF m.seekable /\ <<m.seekable, m.sid>> # <<seekable, session>>
       THEN Ask(Request(m.sid, 0, "initial"), asked, pending)
       ELSE UNCHANGED <<asked, pending, toServer, nextId>>
  /\ UNCHANGED <<debounce, open, server, user>>

\* trace_session_start: the map is cleared, the buffer dropped and the store
\* reset.  The effect that asks for the first window depends on the session and
\* on seekable: it runs if one of them changed.
Start ==
  LET m == Head(toClient) IN
  /\ Receive("start")
  /\ buffer' = <<>>
  /\ session' = m.sid /\ seekable' = m.seekable /\ total' = 0 /\ events' = <<>>
  /\ complete' = FALSE
  /\ epoch' = epoch + 1 /\ windowBy' = None /\ received' = <<>> /\ ended' = 0
  /\ promised' = m.seekable
  /\ IF m.seekable /\ <<m.seekable, m.sid>> # <<seekable, session>>
       THEN Ask(Request(m.sid, 0, "initial"), asked, {})
       ELSE pending' = {} /\ UNCHANGED <<asked, toServer, nextId>>
  /\ UNCHANGED <<debounce, open, server, user>>

LiveEvent ==
  /\ Receive("event")
  /\ buffer' = Append(buffer, Head(toClient).event)
  /\ received' = Append(received, Head(toClient).event)
  /\ UNCHANGED <<store, debounce, asked, pending, open, toServer, server,
                 nextId, user, epoch, windowBy, ended, promised>>

\* requestAnimationFrame: one is requested whenever the buffer is not empty.
Frame ==
  /\ buffer # <<>>
  /\ events' = events \o buffer
  /\ buffer' = <<>>
  /\ UNCHANGED <<session, seekable, total, complete, debounce, asked, pending,
                 wires, server, nextId, user, history>>

\* Mutant: the session is complete, and the rest comes with the next frame.
EndWithoutFlush ==
  /\ Receive("end")
  /\ complete' = TRUE
  /\ ended' = Len(received)
  /\ UNCHANGED <<session, seekable, total, events, buffer, debounce, asked, pending, open,
                 toServer, server, nextId, user, epoch, windowBy, received,
                 promised>>

\* trace_session_end: what is buffered goes first.
End ==
  /\ Receive("end")
  /\ events' = events \o buffer /\ buffer' = <<>>
  /\ complete' = TRUE
  /\ ended' = Len(received)
  /\ UNCHANGED <<session, seekable, total, debounce, asked, pending, open,
                 toServer, server, nextId, user, epoch, windowBy, received,
                 promised>>

\* A reply settles the request that still has an entry: setTraceWindow.
Window ==
  LET m == Head(toClient) IN
  /\ Receive("window")
  /\ IF m.id \in pending
       THEN \E r \in asked :
              /\ r.id = m.id
              /\ asked' = asked \ {r} /\ pending' = pending \ {r.id}
              /\ events' = m.events /\ total' = m.total
              /\ windowBy' = r
       ELSE UNCHANGED <<asked, pending, events, total, windowBy>>
  /\ UNCHANGED <<session, seekable, complete, buffer, debounce, open, toServer,
                 server, nextId, user, epoch, received, ended, promised>>

SeekError ==
  LET m == Head(toClient) IN
  /\ Receive("error")
  /\ IF m.id \in pending
       THEN \E r \in asked :
              /\ r.id = m.id
              /\ asked' = asked \ {r} /\ pending' = pending \ {r.id}
              /\ Fails(r)
       ELSE UNCHANGED <<asked, pending, seekable, promised>>
  /\ UNCHANGED <<session, total, events, complete, buffer, debounce, open,
                 toServer, server, nextId, user, epoch, windowBy, received,
                 ended>>

Server ==
  \/ ServeSeek \/ ServeLoad
  \/ \E t \in loads : LoadStarts(t) \/ LoadEnds(t) \/ LoadFails(t)
  \/ \E l \in Live : Broadcast(l)
  \/ Close

Tab ==
  \/ \E s \in Stored : ClickLoad(s)
  \/ \E p \in 0 .. total : Scrub(p)
  \/ DebounceFires
  \/ \E r \in asked : Timeout(r)
  \/ Start \/ LiveEvent \/ Frame \/ End \/ Window \/ SeekError

Next == Server \/ Tab

Spec == Init /\ [][Next]_vars
-----------------------------------------------------------------------------
\* The store and the maps keep their types, every entry of the pending map has
\* its timer, and only sessions the server announced are shown.
TypeOK ==
  /\ session \in Sessions \cup {None}
  /\ {seekable, complete, open, promised} \subseteq BOOLEAN
  /\ total \in {0} \cup {TraceLen[s] : s \in Stored}
  /\ \A e \in {events[i] : i \in DOMAIN events} \cup {buffer[i] : i \in DOMAIN buffer} :
       e \in AllEvents
  /\ pending \subseteq {r.id : r \in asked}
  /\ \A r, q \in asked : r.id = q.id => r = q

\* No reply to a request of an earlier session fills the window of this one,
\* however long it has been under way (client.ts clears the map for that).
NoStaleReply == windowBy # None => windowBy.epoch = epoch

\* Windows are shown in the order they were asked for: an early seek never
\* replaces the outcome of a later one.
SeeksApplyInOrder ==
  [][windowBy # None /\ windowBy' # None => windowBy'.id >= windowBy.id]_windowBy

\* A live session shows what was received since its start, each event once and
\* in order, and is complete only with all that came before its end.
LiveIsComplete ==
  windowBy = None /\ ~seekable =>
    /\ events \o buffer = received
    /\ complete => Len(events) >= ended

\* "On session start with seekable=true, auto-fetch the initial window to
\* populate traceTotal": once nothing is under way, a session that was
\* announced seekable, and of which no request failed, is shown.
SessionIsShown ==
  promised /\ open /\ asked = {} /\ debounce = None
    /\ toServer = <<>> /\ toClient = <<>> =>
       /\ seekable /\ total = TraceLen[session]
       /\ windowBy # None /\ windowBy.sid = session
=============================================================================
