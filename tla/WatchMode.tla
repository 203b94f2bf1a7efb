------------------------------ MODULE WatchMode ------------------------------
(***************************************************************************)
(* `grackle serve --watch`: the change detector (watcher.py), the rebuild  *)
(* on its own thread and the connect-time build on the event loop          *)
(* (server.py), which share two bounded caches.  An editor changes the     *)
(* tree between any two steps; both builds read it file by file.           *)
(***************************************************************************)
EXTENDS Integers, Sequences, FiniteSets

CONSTANTS Files, Clients,
          MaxEdits,     \* bound: writes and deletions by the editor
          MaxTrains,    \* bound: `grackle learn` runs beside the server
          CacheMax,     \* _META_CACHE_MAX and _PREDICTED_CACHE_MAX
          Reverts       \* a write may bring back an earlier content

ASSUME WatchAssumption ==
    /\ MaxEdits \in Nat /\ MaxTrains \in Nat /\ CacheMax \in Nat \ {0} /\ Reverts \in BOOLEAN
    /\ IsFiniteSet(Files)

VARIABLES
    disk, stat,         \* content and (mtime, size) of each file
    events,             \* paths reported by the file system since the last batch
    edits, deleted, model,   \* writes so far; files deleted so far; version of heat-model.npz
    backend,            \* "poll" or "events" (watchfiles)
    snapshot, working,  \* the detector's last snapshot and the one being taken
    left,               \* files the scan has still to look at
    wpc,                \* the watch loop: "wait", "scan", "build"
    connections, shown, \* registered clients; the last graph each was sent
    pushing,            \* the client whose connect-time push runs, or None
    job,                \* the build of each thread: "loop" and "watch"
    meta_cache, heat_cache

world == <<disk, stat, events, edits, deleted, model>>
detector == <<backend, snapshot, working, left>>
caches == <<meta_cache, heat_cache>>
vars == <<world, detector, wpc, connections, shown, pushing, job, caches>>

None == "none"
Gone == 0
Contents == 1..(MaxEdits + 1)
Stale == -1                                      \* _STALE_STAT: matches no file
Absent == [stat |-> Stale, hash |-> Gone]        \* no entry in a snapshot

Entry(f) == IF disk[f] = Gone THEN Absent ELSE [stat |-> stat[f], hash |-> disk[f]]

\* What a build keeps: node ids and edges follow the topology, an edit of attributes keeps it.
Topology(content) == IF content = Gone THEN -1 ELSE content \div 2
Analysis(graph) == [f \in Files |-> Topology(graph[f])]        \* hub score and cycles
\* Mutant: the ids alone, without the edges between them.
IdsOnly(graph) == [f \in Files |-> graph[f] # Gone]

\* The key of the analysis cache: node ids and the multiset of edges.
_graph_signature(graph) == [f \in Files |-> Topology(graph[f])]
_predicted_heat_signature(graph) == graph

NoJob == [stage |-> "idle", left |-> {}, graph |-> [f \in Files |-> Gone], since |-> 0, key |-> 0,
          analysis |-> <<>>, heat |-> <<>>]
NoGraph == NoJob

Init ==
    /\ disk = [f \in Files |-> 1] /\ stat = [f \in Files |-> 0] /\ events = {}
    /\ edits = 0 /\ deleted = {} /\ model = 1 /\ backend \in {"poll", "events"}
    /\ snapshot = [f \in Files |-> [stat |-> 0, hash |-> 1]] /\ working = snapshot
    /\ left = {} /\ wpc = "wait" /\ connections = {} /\ pushing = None
    /\ shown = [c \in Clients |-> NoGraph]
    /\ job = [b \in {"loop", "watch"} |-> NoJob] /\ meta_cache = <<>> /\ heat_cache = <<>>
------------------------------------------------------------------------------
(* The world outside the server. *)

\* A save (of the same bytes too: only the mtime moves), a new file, or a deletion.
Edit(f) ==
    /\ edits < MaxEdits /\ edits' = edits + 1
    /\ \E c \in {Gone, disk[f], edits + 2} \cup (IF Reverts THEN Contents ELSE {}) :
          /\ c = Gone /\ f \in deleted => Reverts        \* created and deleted again
          /\ disk' = [disk EXCEPT ![f] = c]
          /\ deleted' = IF c = Gone THEN deleted \cup {f} ELSE deleted
    /\ stat' = [stat EXCEPT ![f] = @ + 1]
    /\ events' = events \cup {f}
    /\ UNCHANGED <<model, detector, wpc, connections, shown, pushing, job, caches>>

Train == /\ model <= MaxTrains /\ model' = model + 1
         /\ UNCHANGED <<disk, stat, events, edits, deleted, detector, wpc, connections, shown, pushing,
                        job, caches>>
------------------------------------------------------------------------------
(* The detector.  It runs on the event loop, as does a connect-time push. *)

LoopFree == pushing = None

\* _watch_poll wakes after the interval; awatch hands over a debounced batch of paths.
Tick ==
    /\ wpc = "wait" /\ LoopFree
    /\ backend = "events" => events # {}
    /\ wpc' = "scan" /\ working' = snapshot
    /\ left' = IF backend = "poll" THEN Files ELSE events
    /\ events' = {}
    /\ UNCHANGED <<disk, stat, edits, deleted, model, backend, snapshot, connections, shown, pushing, job,
                   caches>>

\* Mutant: a failed read keeps the new stat, so the old hash is trusted.
TrustAfterFailure(f, readable) ==
    LET fallback == snapshot[f] IN
    IF ~readable THEN [stat |-> stat[f], hash |-> fallback.hash]
    ELSE IF fallback.stat = stat[f] THEN fallback
    ELSE Entry(f)

\* _stat_and_hash: an unchanged (mtime, size) is trusted; a stat or a read that fails keeps
\* the old hash under a stat that can match nothing, so that the next scan reads the file
\* again.  A file that was deleted is not listed at all.
_stat_and_hash(f, readable) ==
    LET fallback == snapshot[f] IN
    IF ~readable THEN [stat |-> Stale, hash |-> fallback.hash]
    ELSE IF fallback.stat = stat[f] THEN fallback
    ELSE Entry(f)

_diff == {f \in Files : snapshot[f].hash # working'[f].hash}

\* The scan is over: nothing changed, or nobody is connected, or a rebuild.
Decide ==
    /\ snapshot' = working'
    /\ IF _diff = {} \/ connections = {}
       THEN wpc' = "wait" /\ UNCHANGED job
       ELSE wpc' = "build" /\ job' = [job EXCEPT !["watch"] =
               [NoJob EXCEPT !.stage = "detect", !.left = Files, !.since = model]]

\* A failure is retried by the poller only: awatch names the path once (watcher.py:112).
\* Between the last file and the rebuild the loop runs nothing else.
Scan(f) ==
    /\ wpc = "scan" /\ LoopFree /\ f \in left
    /\ \E readable \in IF backend = "poll" /\ snapshot[f].stat # Stale THEN BOOLEAN ELSE {TRUE} :
          working' = [working EXCEPT ![f] = _stat_and_hash(f, readable)]
    /\ left' = left \ {f}
    /\ IF left' = {} THEN Decide ELSE UNCHANGED <<wpc, snapshot, job>>
    /\ UNCHANGED <<world, backend, connections, shown, pushing, caches>>
------------------------------------------------------------------------------
(* _build_static_graph, by the loop for a new client and by the executor for a rebuild. *)

Value(cache, key) == CHOOSE v \in {e[2] : e \in {cache[i] : i \in DOMAIN cache}} :
                        \E i \in DOMAIN cache : cache[i] = <<key, v>>
Cached(cache, key) == \E i \in DOMAIN cache : cache[i][1] = key

\* Insertion order; the oldest entries go first.
_cache_bounded(cache, key, value) ==
    LET all == IF Cached(cache, key)
               THEN [i \in DOMAIN cache |-> IF cache[i][1] = key THEN <<key, value>> ELSE cache[i]]
               ELSE Append(cache, <<key, value>>)
    IN  IF Len(all) > CacheMax THEN Tail(all) ELSE all

\* No language is detected without a file: then there is no graph.
DetectLanguage(b) ==
    /\ job[b].stage = "detect"
    /\ job' = [job EXCEPT ![b].stage = IF \E f \in Files : disk[f] # Gone THEN "read" ELSE "none"]
    /\ UNCHANGED <<world, detector, wpc, connections, shown, pushing, caches>>

Read(b, f) ==
    /\ job[b].stage = "read" /\ f \in job[b].left
    /\ job' = [job EXCEPT ![b].left = @ \ {f}, ![b].graph[f] = disk[f],
                          ![b].stage = IF job[b].left = {f} THEN "stat" ELSE @]
    /\ UNCHANGED <<world, detector, wpc, connections, shown, pushing, caches>>

\* _maybe_inject_predicted_heat: the model's stat makes the key, before the model is read.
StatModel(b) ==
    /\ job[b].stage = "stat"
    /\ LET key == <<_predicted_heat_signature(job[b].graph), model>> IN
       job' = [job EXCEPT ![b].key = model,
                          ![b].stage = IF Cached(heat_cache, key) THEN "meta" ELSE "predict",
                          ![b].heat = IF Cached(heat_cache, key) THEN Value(heat_cache, key) ELSE @]
    /\ UNCHANGED <<world, detector, wpc, connections, shown, pushing, caches>>

Predict(b) ==
    /\ job[b].stage = "predict"
    /\ LET scores == [graph |-> job[b].graph, model |-> model] IN
       /\ job' = [job EXCEPT ![b].heat = scores, ![b].stage = "meta"]
       /\ heat_cache' = _cache_bounded(heat_cache,
                            <<_predicted_heat_signature(job[b].graph), job[b].key>>, scores)
    /\ UNCHANGED <<world, detector, wpc, connections, shown, pushing, meta_cache>>

Enrich(b) ==
    /\ job[b].stage = "meta"
    /\ LET sig == _graph_signature(job[b].graph)
           hit == Cached(meta_cache, sig)
           analysis == IF hit THEN Value(meta_cache, sig) ELSE Analysis(job[b].graph) IN
       /\ job' = [job EXCEPT ![b].analysis = analysis, ![b].stage = "built"]
       /\ meta_cache' = IF hit THEN meta_cache ELSE _cache_bounded(meta_cache, sig, analysis)
    /\ UNCHANGED <<world, detector, wpc, connections, shown, pushing, heat_cache>>
------------------------------------------------------------------------------
(* Clients. *)

\* _handler: registered first, then the graph is built inline; nothing is awaited between.
Connect(c) ==
    /\ LoopFree /\ wpc # "scan" /\ c \notin connections
    /\ connections' = connections \cup {c} /\ pushing' = c
    /\ job' = [job EXCEPT !["loop"] =
                 [NoJob EXCEPT !.stage = "detect", !.left = Files, !.since = model]]
    /\ UNCHANGED <<world, detector, wpc, shown, caches>>

_push_static_graph ==
    /\ pushing # None /\ job["loop"].stage \in {"built", "none"}
    /\ shown' = IF job["loop"].stage = "none" THEN shown
                ELSE [shown EXCEPT ![pushing] = job["loop"]]
    /\ job' = [job EXCEPT !["loop"] = NoJob] /\ pushing' = None
    /\ UNCHANGED <<world, detector, wpc, connections, caches>>

Broadcast ==
    /\ wpc = "build" /\ LoopFree /\ job["watch"].stage \in {"built", "none"}
    /\ shown' = IF job["watch"].stage = "none" THEN shown
                ELSE [c \in Clients |-> IF c \in connections THEN job["watch"] ELSE shown[c]]
    /\ job' = [job EXCEPT !["watch"] = NoJob] /\ wpc' = "wait"
    /\ UNCHANGED <<world, detector, connections, pushing, caches>>

Disconnect(c) ==
    /\ LoopFree /\ wpc # "scan" /\ c \in connections
    /\ connections' = connections \ {c} /\ shown' = [shown EXCEPT ![c] = NoGraph]
    /\ UNCHANGED <<world, detector, wpc, pushing, job, caches>>

Build(b) == DetectLanguage(b) \/ (\E f \in Files : Read(b, f)) \/ StatModel(b) \/ Predict(b) \/ Enrich(b)
Detect == Tick \/ (\E f \in Files : Scan(f)) \/ Broadcast

Next == \/ \E f \in Files : Edit(f)
        \/ Train \/ Detect \/ _push_static_graph
        \/ \E b \in {"loop", "watch"} : Build(b)
        \/ \E c \in Clients : Connect(c) \/ Disconnect(c)

\* The executor thread runs; the event loop serves the watch task however often clients come
\* and go (its ready queue is first in, first out); a file can be read in the end.
Spec == /\ Init /\ [][Next]_vars /\ WF_vars(_push_static_graph)
        /\ \A b \in {"loop", "watch"} : WF_vars(Build(b))
        /\ SF_vars(Detect)
------------------------------------------------------------------------------
(* Properties. *)

Sent == {shown[c] : c \in {c \in Clients : shown[c] # NoGraph}}

\* The analysis and the scores that travel with a graph are those of that graph, and the
\* scores those of a model no older than the build, although two threads fill and evict the
\* caches without a lock and the model may be replaced between its stat and its load.
MetadataMatches ==
    \A g \in Sent : /\ g.analysis = Analysis(g.graph)
                    /\ g.heat.graph = g.graph /\ g.heat.model >= g.since

\* server.py:443: when a source file changes the graph is parsed and broadcast again: once the
\* editor rests, every connected client comes to show the tree as it is, whatever rebuild was
\* under way when it connected, whatever read failed, and whatever was swallowed while nobody
\* was connected; a tree without a source file is no graph, and none is sent.
Converges ==
    LET Source == \E f \in Files : disk[f] # Gone
    IN  <>[](\A c \in connections : pushing # c /\ Source => shown[c].graph = disk)
=============================================================================
