---------------------------- MODULE Graph_proofs ----------------------------
(***************************************************************************)
(* Proofs about the graph and what is made of it.                            *)
(*                                                                         *)
(* WatchMode: what is sent with a graph belongs to it, for any files,       *)
(* clients, edits, trainings and size of the caches.                        *)
(* Attribution: a frame, a code object or a statement is told as the node   *)
(* it is of, for any index and report.                                       *)
(* GraphAnalysis: the search finds the strongly connected components, and   *)
(* what is reported are the cycles, for any graph.                           *)
(* CrossLanguage: the edges between the languages of a project are sound    *)
(* and complete, for any hints and any order of the files.                   *)
(* Aggregates: what is answered from one scan of a trace file is what the   *)
(* file says, for any files, bounds and ranks.                               *)
(* ColdTrace: a coverage trace has the calls of every executed function, for *)
(* any toolchain, project and coverage.                                      *)
(***************************************************************************)
EXTENDS WatchMode, Attribution, GraphAnalysis, CrossLanguage, Aggregates, ColdTrace,
        FiniteSetTheorems, SequenceTheorems, WellFoundedInduction, TLAPS

FileGraphs == [Files -> Nat]
Signatures == [Files -> Int]
Scores == [graph : FileGraphs, model : Nat]

\* An entry answers for its key: the analysis is of every graph with that
\* signature, the scores are of that graph and of that model or a later one.
MetaEntries == {e \in Signatures \X Signatures : e[1] = e[2]}
HeatEntries == {e \in (FileGraphs \X Nat) \X Scores :
                  e[2].graph = e[1][1] /\ e[2].model >= e[1][2]}

HeatFits(j) == j.heat \in Scores /\ j.heat.graph = j.graph /\ j.heat.model >= j.since

\* What a build knows at each stage.
Fields == {"stage", "left", "graph", "since", "key", "analysis", "heat"}
JobSound(j) ==
    /\ DOMAIN j = Fields
    /\ j.graph \in FileGraphs /\ j.since \in Nat /\ j.key \in Nat
    /\ j.stage \in {"idle", "none", "detect", "read", "stat", "predict", "meta", "built"}
    /\ j.since <= model
    /\ j.stage = "predict" => j.since <= j.key /\ j.key <= model
    /\ j.stage \in {"meta", "built"} => HeatFits(j)
    /\ j.stage = "built" => j.analysis = Analysis(j.graph)

GraphSound(g) == g.analysis = Analysis(g.graph) /\ g.heat.graph = g.graph /\ g.heat.model >= g.since

MetadataInv ==
    /\ model \in Nat /\ disk \in FileGraphs /\ edits \in Nat
    /\ meta_cache \in Seq(MetaEntries) /\ heat_cache \in Seq(HeatEntries)
    /\ DOMAIN job = {"loop", "watch"}
    /\ \A b \in {"loop", "watch"} : JobSound(job[b])
    /\ DOMAIN shown = Clients
    /\ \A c \in Clients : shown[c] = NoGraph \/ GraphSound(shown[c])

(***************************************************************************)
(* The caches.                                                               *)
(***************************************************************************)
\* An insertion, with or without an eviction, leaves only entries of the kind.
LEMMA BoundedKeepsType ==
    ASSUME NEW S, NEW cache \in Seq(S), NEW key, NEW value, <<key, value>> \in S
    PROVE  _cache_bounded(cache, key, value) \in Seq(S)
<1> DEFINE all == IF Cached(cache, key)
                  THEN [i \in DOMAIN cache |-> IF cache[i][1] = key THEN <<key, value>> ELSE cache[i]]
                  ELSE Append(cache, <<key, value>>)
<1>1. all \in Seq(S)
  <2>1. [i \in DOMAIN cache |-> IF cache[i][1] = key THEN <<key, value>> ELSE cache[i]] \in Seq(S)
    <3>1. \A i \in DOMAIN cache : cache[i] \in S
      OBVIOUS
    <3>2. [i \in DOMAIN cache |-> IF cache[i][1] = key THEN <<key, value>> ELSE cache[i]]
            \in [1 .. Len(cache) -> S]
      BY <3>1
    <3> QED BY <3>2
  <2>2. Append(cache, <<key, value>>) \in Seq(S)
    OBVIOUS
  <2> QED BY <2>1, <2>2
<1>2. Len(all) > CacheMax => Tail(all) \in Seq(S)
  <2> HIDE DEF all
  <2>1. ASSUME Len(all) > CacheMax PROVE all # <<>>
    BY <2>1, WatchAssumption
  <2> QED BY <1>1, <2>1
<1> QED BY <1>1, <1>2 DEF _cache_bounded

\* A hit gives the value of an entry under that key.
LEMMA HitIsEntry ==
    ASSUME NEW S, NEW K, NEW V, S \subseteq K \X V, NEW cache \in Seq(S), NEW key, Cached(cache, key)
    PROVE  <<key, Value(cache, key)>> \in S
<1>1. PICK i \in DOMAIN cache : cache[i][1] = key
  BY DEF Cached
<1>2. cache[i] \in S /\ cache[i] = <<key, cache[i][2]>>
  BY <1>1
<1> DEFINE Under(v) == \E j \in DOMAIN cache : cache[j] = <<key, v>>
           Values == {e[2] : e \in {cache[j] : j \in DOMAIN cache}}
<1>3. cache[i][2] \in Values /\ Under(cache[i][2])
  BY <1>2
<1>4. Under(CHOOSE v \in Values : Under(v))
  <2> HIDE DEF Under, Values
  <2> QED BY <1>3
<1>5. Under(Value(cache, key))
  BY <1>4 DEF Value
<1> QED BY <1>5

(***************************************************************************)
(* One step of a build.                                                      *)
(***************************************************************************)
\* Only thread b's build changes, and it stays sound.
LEMMA BuildKeeps ==
    ASSUME MetadataInv, NEW b \in {"loop", "watch"}, JobSound(job'[b]),
           DOMAIN job' = {"loop", "watch"}, UNCHANGED <<world, shown>>,
           \A c \in {"loop", "watch"} \ {b} : job'[c] = job[c],
           meta_cache' \in Seq(MetaEntries), heat_cache' \in Seq(HeatEntries)
    PROVE  MetadataInv'
<1>1. \A c \in {"loop", "watch"} : JobSound(job'[c])
  BY DEF MetadataInv
<1>2. \A c \in {"loop", "watch"} : JobSound(job[c])'
  BY <1>1 DEF JobSound, HeatFits, world, FileGraphs, Scores, Analysis, Topology, Fields
<1> QED BY <1>2 DEF MetadataInv, world, GraphSound, Analysis, Topology, NoGraph, NoJob, FileGraphs,
                    MetaEntries, HeatEntries, Signatures, Scores

LEMMA JobFields ==
    ASSUME MetadataInv, NEW b \in {"loop", "watch"}
    PROVE  JobSound(job[b]) /\ DOMAIN job[b] = Fields
BY DEF MetadataInv, JobSound

LEMMA ReadingKeeps ==
    ASSUME MetadataInv, NEW b \in {"loop", "watch"},
           DetectLanguage(b) \/ \E f \in Files : Read(b, f)
    PROVE  MetadataInv'
<1>1. PICK j : /\ job'[b] = j /\ DOMAIN job' = {"loop", "watch"} /\ DOMAIN j = Fields
               /\ \A c \in {"loop", "watch"} \ {b} : job'[c] = job[c]
               /\ j.graph \in FileGraphs /\ UNCHANGED <<world, shown, caches>>
               /\ j.since = job[b].since /\ j.key = job[b].key
               /\ j.stage \in {"read", "none", "stat"}
  <2>1. CASE DetectLanguage(b)
    <3> DEFINE j == [job[b] EXCEPT !.stage =
                       IF \E f \in Files : disk[f] # Gone THEN "read" ELSE "none"]
    <3>1. /\ job' = [job EXCEPT ![b] = j] /\ UNCHANGED <<world, shown, caches>>
          /\ DOMAIN job = {"loop", "watch"}
      BY <2>1 DEF DetectLanguage, MetadataInv
    <3>2. /\ DOMAIN j = Fields /\ j.graph = job[b].graph /\ j.since = job[b].since
          /\ j.key = job[b].key /\ j.stage \in {"read", "none"}
      BY JobFields DEF Fields
    <3> QED BY <3>1, <3>2, JobFields DEF JobSound
  <2>2. CASE \E f \in Files : Read(b, f)
    <3>1. PICK f \in Files : Read(b, f)
      BY <2>2
    <3>2. /\ DOMAIN job' = {"loop", "watch"} /\ \A c \in {"loop", "watch"} \ {b} : job'[c] = job[c]
          /\ UNCHANGED <<world, shown, caches>>
      BY <3>1 DEF Read, MetadataInv
    <3>3. /\ DOMAIN job'[b] = Fields /\ job'[b].graph = [job[b].graph EXCEPT ![f] = disk[f]]
          /\ job'[b].since = job[b].since /\ job'[b].key = job[b].key
          /\ job'[b].stage \in {"read", "stat"}
      BY <3>1, JobFields DEF Read, MetadataInv, Fields
    <3>4. disk[f] \in Nat
      BY DEF MetadataInv, FileGraphs
    <3> QED BY <3>2, <3>3, <3>4, JobFields DEF JobSound, FileGraphs
  <2> QED BY <2>1, <2>2
<1>2. JobSound(j)
  BY <1>1, JobFields DEF JobSound
<1> QED BY <1>1, <1>2, BuildKeeps DEF caches, MetadataInv

LEMMA StatKeeps ==
    ASSUME MetadataInv, NEW b \in {"loop", "watch"}, StatModel(b)
    PROVE  MetadataInv'
<1> DEFINE key == <<_predicted_heat_signature(job[b].graph), model>>
           hit == Cached(heat_cache, key)
           j == [job[b] EXCEPT !.key = model, !.stage = IF hit THEN "meta" ELSE "predict",
                               !.heat = IF hit THEN Value(heat_cache, key) ELSE @]
<1>1. /\ job' = [job EXCEPT ![b] = j] /\ UNCHANGED <<world, shown, caches>>
      /\ DOMAIN job = {"loop", "watch"}
  BY DEF StatModel, MetadataInv
<1>2. /\ DOMAIN j = Fields /\ j.graph = job[b].graph /\ j.since = job[b].since /\ j.key = model
      /\ j.stage = IF hit THEN "meta" ELSE "predict"
      /\ hit => j.heat = Value(heat_cache, key)
  <2> HIDE DEF hit, key
  <2> QED BY JobFields DEF Fields
<1>3. hit => HeatFits(j)
  <2> SUFFICES ASSUME hit PROVE HeatFits(j)
    OBVIOUS
  <2>1. <<key, Value(heat_cache, key)>> \in HeatEntries
    <3>1. HeatEntries \subseteq (FileGraphs \X Nat) \X Scores
      BY DEF HeatEntries
    <3>2. heat_cache \in Seq(HeatEntries)
      BY DEF MetadataInv
    <3> HIDE DEF key
    <3> QED BY <3>1, <3>2, HitIsEntry
  <2> DEFINE v == Value(heat_cache, key)
  <2> HIDE DEF v
  <2>2. v \in Scores /\ v.graph = job[b].graph /\ v.model >= model
    BY <2>1 DEF HeatEntries, _predicted_heat_signature, v
  <2>3. j.heat = v
    BY <1>2 DEF v
  <2>4. job[b].since \in Nat /\ job[b].since <= model /\ model \in Nat /\ v.model \in Nat
    BY <2>2, JobFields DEF JobSound, MetadataInv, Scores
  <2> HIDE DEF j
  <2> QED BY <1>2, <2>2, <2>3, <2>4 DEF HeatFits
<1>4. JobSound(j)
  <2> HIDE DEF j, hit
  <2> QED BY <1>2, <1>3, JobFields DEF JobSound, MetadataInv
<1> QED
  <2> HIDE DEF j
  <2> QED BY <1>1, <1>4, BuildKeeps DEF caches, MetadataInv

LEMMA PredictKeeps ==
    ASSUME MetadataInv, NEW b \in {"loop", "watch"}, Predict(b)
    PROVE  MetadataInv'
<1> DEFINE scores == [graph |-> job[b].graph, model |-> model]
           key == <<_predicted_heat_signature(job[b].graph), job[b].key>>
           j == [job[b] EXCEPT !.heat = scores, !.stage = "meta"]
<1>1. /\ job' = [job EXCEPT ![b] = j] /\ UNCHANGED <<world, shown, meta_cache>>
      /\ DOMAIN job = {"loop", "watch"}
      /\ heat_cache' = _cache_bounded(heat_cache, key, scores)
  BY DEF Predict, MetadataInv
<1>2. /\ job[b].graph \in FileGraphs /\ job[b].key \in Nat /\ model \in Nat /\ job[b].key <= model
      /\ job[b].since \in Nat /\ job[b].since <= model
  BY JobFields DEF Predict, JobSound, MetadataInv
<1>3. /\ DOMAIN j = Fields /\ j.graph = job[b].graph /\ j.since = job[b].since
      /\ j.key = job[b].key /\ j.stage = "meta" /\ j.heat = scores
  BY JobFields DEF Fields
<1>4. JobSound(j)
  <2>1. scores \in Scores /\ scores.graph = job[b].graph /\ scores.model = model
    BY <1>2 DEF Scores
  <2> HIDE DEF j, scores
  <2> QED BY <1>2, <1>3, <2>1 DEF JobSound, HeatFits
<1>5. heat_cache' \in Seq(HeatEntries)
  <2>1. <<key, scores>> \in HeatEntries
    BY <1>2 DEF HeatEntries, Scores, _predicted_heat_signature
  <2> HIDE DEF key, scores
  <2> QED BY <1>1, <2>1, BoundedKeepsType DEF MetadataInv
<1> QED
  <2> HIDE DEF j
  <2> QED BY <1>1, <1>4, <1>5, BuildKeeps DEF MetadataInv

LEMMA EnrichKeeps ==
    ASSUME MetadataInv, NEW b \in {"loop", "watch"}, Enrich(b)
    PROVE  MetadataInv'
<1> DEFINE sig == _graph_signature(job[b].graph)
           hit == Cached(meta_cache, sig)
           analysis == IF hit THEN Value(meta_cache, sig) ELSE Analysis(job[b].graph)
           j == [job[b] EXCEPT !.analysis = analysis, !.stage = "built"]
<1>1. /\ job' = [job EXCEPT ![b] = j] /\ UNCHANGED <<world, shown, heat_cache>>
      /\ DOMAIN job = {"loop", "watch"}
      /\ meta_cache' = IF hit THEN meta_cache ELSE _cache_bounded(meta_cache, sig, analysis)
  BY DEF Enrich, MetadataInv
<1>2. job[b].graph \in FileGraphs /\ job[b].stage = "meta" /\ HeatFits(job[b])
  BY JobFields DEF Enrich, JobSound
<1>3. sig \in Signatures /\ Analysis(job[b].graph) = sig
  <2>1. \A n \in Nat : Topology(n) \in Int
    BY DEF Topology, Gone
  <2> QED BY <1>2, <2>1 DEF _graph_signature, Analysis, Signatures, FileGraphs
<1>4. analysis = Analysis(job[b].graph)
  <2> SUFFICES ASSUME hit PROVE Value(meta_cache, sig) = sig
    BY <1>3
  <2>1. MetaEntries \subseteq Signatures \X Signatures /\ meta_cache \in Seq(MetaEntries)
    BY DEF MetaEntries, MetadataInv
  <2> HIDE DEF sig
  <2>2. <<sig, Value(meta_cache, sig)>> \in MetaEntries
    BY <2>1, HitIsEntry
  <2> QED BY <2>2 DEF MetaEntries
<1>5. /\ DOMAIN j = Fields /\ j.graph = job[b].graph /\ j.since = job[b].since
      /\ j.key = job[b].key /\ j.stage = "built" /\ j.heat = job[b].heat /\ j.analysis = analysis
  <2> HIDE DEF analysis
  <2> QED BY JobFields DEF Fields
<1>6. JobSound(j)
  <2> HIDE DEF j, analysis
  <2> QED BY <1>2, <1>4, <1>5, JobFields DEF JobSound, HeatFits
<1>7. meta_cache' \in Seq(MetaEntries)
  <2>1. <<sig, analysis>> \in MetaEntries
    BY <1>3, <1>4 DEF MetaEntries
  <2> HIDE DEF sig, analysis, hit
  <2> QED BY <1>1, <2>1, BoundedKeepsType DEF MetadataInv
<1> QED
  <2> HIDE DEF j
  <2> QED BY <1>1, <1>6, <1>7, BuildKeeps DEF MetadataInv
(***************************************************************************)
(* The other steps.                                                          *)
(***************************************************************************)
\* A build begins or is put away: nothing is known of it yet.
LEMMA NewJobIsSound ==
    ASSUME MetadataInv
    PROVE  /\ JobSound(NoJob)
           /\ JobSound([NoJob EXCEPT !.stage = "detect", !.left = Files, !.since = model])
<1>1. NoJob.graph \in FileGraphs
  BY DEF NoJob, FileGraphs, Gone
<1>2. DOMAIN NoJob = Fields
  BY DEF NoJob, Fields
<1> QED BY <1>1, <1>2 DEF JobSound, NoJob, MetadataInv, HeatFits

\* The world moves: the files only, or the model, which never goes back.
LEMMA WorldKeeps ==
    ASSUME MetadataInv, disk' \in FileGraphs, model' \in Nat, model' >= model, edits' \in Nat,
           UNCHANGED <<job, shown, caches>>
    PROVE  MetadataInv'
<1>1. ASSUME NEW b \in {"loop", "watch"} PROVE JobSound(job[b])'
  <2>1. /\ JobSound(job[b]) /\ job[b].since \in Nat /\ job[b].key \in Nat /\ model \in Nat
        /\ job'[b] = job[b]
    BY JobFields DEF MetadataInv, JobSound
  <2> QED BY <2>1 DEF JobSound, HeatFits, FileGraphs, Scores, Analysis, Topology, Fields
<1> QED BY <1>1 DEF MetadataInv, caches, GraphSound, Analysis, Topology, NoGraph, NoJob, FileGraphs,
                    MetaEntries, HeatEntries, Signatures, Scores

\* Jobs begin and end, and a finished one is shown: the caches stay.
LEMMA ServeKeeps ==
    ASSUME MetadataInv, UNCHANGED <<world, caches>>, DOMAIN job' = {"loop", "watch"},
           \A b \in {"loop", "watch"} : JobSound(job'[b]),
           DOMAIN shown' = Clients,
           \A c \in Clients : shown'[c] = NoGraph \/ GraphSound(shown'[c])
    PROVE  MetadataInv'
<1>1. \A b \in {"loop", "watch"} : JobSound(job[b])'
  BY DEF JobSound, HeatFits, world, FileGraphs, Scores, Analysis, Topology, Fields
<1>2. \A c \in Clients : (shown[c] = NoGraph \/ GraphSound(shown[c]))'
  BY DEF GraphSound, Analysis, Topology, NoGraph, NoJob
<1> QED BY <1>1, <1>2 DEF MetadataInv, world, caches, MetaEntries, HeatEntries, Signatures, Scores,
                          FileGraphs

LEMMA EditKeeps ==
    ASSUME MetadataInv, NEW f \in Files, Edit(f)
    PROVE  MetadataInv'
<1>1. PICK c \in {Gone, disk[f], edits + 2} \cup (IF Reverts THEN Contents ELSE {}) :
        disk' = [disk EXCEPT ![f] = c]
  BY DEF Edit
<1>2. c \in Nat
  BY WatchAssumption DEF MetadataInv, FileGraphs, Gone, Contents
<1>3. disk' \in FileGraphs /\ edits' \in Nat
  BY <1>1, <1>2 DEF MetadataInv, FileGraphs, Edit
<1> QED BY <1>3, WorldKeeps DEF Edit, MetadataInv, caches

LEMMA DetectKeeps ==
    ASSUME MetadataInv, Tick \/ \E f \in Files : Scan(f)
    PROVE  MetadataInv'
<1>1. /\ UNCHANGED <<shown, caches, disk, model, edits>>
      /\ job' = job \/ job' = [job EXCEPT !["watch"] =
            [NoJob EXCEPT !.stage = "detect", !.left = Files, !.since = model]]
  BY DEF Tick, Scan, Decide, world
<1>2. CASE job' = job
  BY <1>1, <1>2, WorldKeeps DEF MetadataInv
<1>3. CASE job' # job
  <2>1. UNCHANGED world
    BY <1>3 DEF Tick, Scan
  <2>2. /\ DOMAIN job' = {"loop", "watch"} /\ \A b \in {"loop", "watch"} : JobSound(job'[b])
    BY <1>1, <1>3, NewJobIsSound DEF MetadataInv
  <2> QED BY <1>1, <2>1, <2>2, ServeKeeps DEF MetadataInv
<1> QED BY <1>2, <1>3

LEMMA ClientKeeps ==
    ASSUME MetadataInv, NEW c \in Clients, Connect(c) \/ Disconnect(c)
    PROVE  MetadataInv'
<1>1. UNCHANGED <<world, caches>>
  BY DEF Connect, Disconnect
<1>2. DOMAIN job' = {"loop", "watch"} /\ \A b \in {"loop", "watch"} : JobSound(job'[b])
  BY NewJobIsSound DEF Connect, Disconnect, MetadataInv
<1>3. DOMAIN shown' = Clients /\ \A d \in Clients : shown'[d] = NoGraph \/ GraphSound(shown'[d])
  BY DEF Connect, Disconnect, MetadataInv
<1> QED BY <1>1, <1>2, <1>3, ServeKeeps

LEMMA SendKeeps ==
    ASSUME MetadataInv, _push_static_graph \/ Broadcast
    PROVE  MetadataInv'
<1>1. ASSUME NEW b \in {"loop", "watch"}, job[b].stage = "built" PROVE GraphSound(job[b])
  BY <1>1, JobFields DEF JobSound, HeatFits, GraphSound
<1>2. UNCHANGED <<world, caches>>
  BY DEF _push_static_graph, Broadcast
<1>3. DOMAIN job' = {"loop", "watch"} /\ \A b \in {"loop", "watch"} : JobSound(job'[b])
  BY NewJobIsSound DEF _push_static_graph, Broadcast, MetadataInv
<1>4. DOMAIN shown' = Clients /\ \A c \in Clients : shown'[c] = NoGraph \/ GraphSound(shown'[c])
  <2>1. CASE _push_static_graph
    BY <1>1, <2>1 DEF _push_static_graph, MetadataInv
  <2>2. CASE Broadcast
    BY <1>1, <2>2 DEF Broadcast, MetadataInv
  <2> QED BY <2>1, <2>2
<1> QED BY <1>2, <1>3, <1>4, ServeKeeps

LEMMA InitMetadata == ASSUME Init PROVE MetadataInv
<1>1. NoJob.graph \in FileGraphs /\ DOMAIN NoJob = Fields
  BY DEF NoJob, FileGraphs, Gone, Fields
<1>2. model = 1 /\ job = [b \in {"loop", "watch"} |-> NoJob]
  BY DEF Init
<1>3. JobSound(NoJob)
  BY <1>1, <1>2 DEF JobSound, NoJob, HeatFits
<1>4. <<>> \in Seq(MetaEntries) /\ <<>> \in Seq(HeatEntries)
  OBVIOUS
<1> QED BY <1>2, <1>3, <1>4 DEF Init, MetadataInv, FileGraphs

LEMMA NextMetadata == ASSUME MetadataInv, [Next]_vars PROVE MetadataInv'
<1>1. CASE \E f \in Files : Edit(f)
  BY <1>1, EditKeeps
<1>2. CASE Train
  BY <1>2, WorldKeeps DEF Train, MetadataInv, caches
<1>3. CASE Detect
  BY <1>3, DetectKeeps, SendKeeps DEF Detect
<1>4. CASE _push_static_graph
  BY <1>4, SendKeeps
<1>5. CASE \E b \in {"loop", "watch"} : Build(b)
  BY <1>5, ReadingKeeps, StatKeeps, PredictKeeps, EnrichKeeps DEF Build
<1>6. CASE \E c \in Clients : Connect(c) \/ Disconnect(c)
  BY <1>6, ClientKeeps
<1>7. CASE UNCHANGED vars
  BY <1>7, WorldKeeps DEF vars, world, MetadataInv
<1> QED BY <1>1, <1>2, <1>3, <1>4, <1>5, <1>6, <1>7 DEF Next

\* What a client was sent is one build's work: the analysis is of the graph it
\* travels with, and so are the scores, by a model no older than the build.
\* The two threads share both caches without a lock, evict each other's
\* entries, and the editor and `grackle learn` write between any two steps.
THEOREM WhatIsSentBelongsTogether == Spec => []MetadataMatches
<1>1. MetadataInv => MetadataMatches
  BY DEF MetadataInv, MetadataMatches, Sent, GraphSound
<1> QED BY <1>1, InitMetadata, NextMetadata, PTL DEF Spec
-----------------------------------------------------------------------------
(* Attribution. *)
LEMMA Least ==
  ASSUME NEW T \in SUBSET Nat, T # {}
  PROVE  \E x \in T : \A y \in T : x <= y
<1> DEFINE R == OpToRel(<, Nat)
<1>1. IsWellFoundedOn(R, Nat)
  BY NatLessThanWellFounded
<1>2. \A x, y \in Nat : y < x => <<y, x>> \in R
  BY Zenon DEF OpToRel
<1> HIDE DEF R
<1>3. PICK x \in T : \A y \in T : ~ (<<y, x>> \in R)
  BY <1>1, WFMin
<1>4. \A y \in T : ~(y < x)
  BY <1>2, <1>3
<1> QED BY <1>4

LEMMA SetInduction ==
  ASSUME NEW S \in SUBSET Nat, 0 \in S, \A n \in S : n + 1 \in S
  PROVE  S = Nat
<1> SUFFICES ASSUME Nat \ S # {} PROVE FALSE
  OBVIOUS
<1>1. PICK x \in Nat \ S : \A y \in Nat \ S : x <= y
  BY Least
<1>2. x - 1 \in S
  BY <1>1
<1> QED BY <1>1, <1>2

LEMMA Greatest ==
  ASSUME NEW T \in SUBSET Nat, T # {}, IsFiniteSet(T)
  PROVE  \E x \in T : \A y \in T : y <= x
<1> DEFINE Has(U) == U # {} => \E x \in U : \A y \in U : y <= x
           S == {n \in Nat : \A U \in SUBSET Nat : IsFiniteSet(U) /\ Cardinality(U) = n => Has(U)}
<1>1. 0 \in S
  BY FS_EmptySet
<1>2. ASSUME NEW n \in S PROVE n + 1 \in S
  <2> SUFFICES ASSUME NEW U \in SUBSET Nat, IsFiniteSet(U), Cardinality(U) = n + 1 PROVE Has(U)
    OBVIOUS
  <2>1. PICK x : x \in U
    BY FS_EmptySet
  <2>2. IsFiniteSet(U \ {x}) /\ Cardinality(U \ {x}) = Cardinality(U) - 1
    <3> HIDE DEF S
    <3> QED BY <2>1, FS_RemoveElement
  <2>3. n \in Nat /\ Has(U \ {x})
    BY <2>2
  <2>4. CASE U = {x}
    BY <2>1, <2>4
  <2>5. CASE U # {x}
    <3>1. PICK z \in U \ {x} : \A y \in U \ {x} : y <= z
      BY <2>1, <2>3, <2>5
    <3> QED BY <2>1, <3>1
  <2> QED BY <2>4, <2>5
<1>3. S = Nat
  <2> HIDE DEF S
  <2> QED BY <1>1, <1>2, SetInduction DEF S
<1> QED BY <1>3, FS_CardinalityType

(* The path below the root. *)
LEMMA PathBelow ==
  ASSUME NEW root \in Seq(STRING), NEW parts \in Seq(STRING), NEW path \in Seq(STRING)
  PROVE  IsStrictPrefix(root, parts) =>
           /\ ToPosix(root, parts) # NOTPROJECT
           /\ path = ToPosix(root, parts) <=> parts = root \o path
<1> SUFFICES ASSUME IsStrictPrefix(root, parts)
             PROVE  /\ ToPosix(root, parts) # NOTPROJECT
                    /\ path = ToPosix(root, parts) <=> parts = root \o path
  OBVIOUS
<1> DEFINE m == Len(root)
           n == Len(parts)
           below == SubSeq(parts, m + 1, n)
<1>1. m \in Nat /\ n \in Nat /\ m <= n /\ root # parts /\ SubSeq(root, 1, m) = SubSeq(parts, 1, m)
  BY DEF IsStrictPrefix, IsPrefix
<1>2. \A i \in 1 .. m : root[i] = parts[i]
  <2>1. \A i \in 1 .. m : SubSeq(root, 1, m)[i] = root[i] /\ SubSeq(parts, 1, m)[i] = parts[i]
    BY <1>1
  <2> QED BY <1>1, <2>1
<1>3. m < n
  <2>1. m = n => root = parts
    BY <1>2
  <2> QED BY <1>1, <2>1
<1>4. /\ below \in Seq(STRING) /\ Len(below) = n - m
      /\ \A i \in 1 .. n - m : below[i] = parts[m + i]
  BY <1>1, <1>3
<1>5. ToPosix(root, parts) = below
  BY DEF ToPosix
<1> HIDE DEF below
<1>6. below # NOTPROJECT
  BY <1>1, <1>3, <1>4 DEF NOTPROJECT
<1>7. ASSUME path = below PROVE parts = root \o path
  <2>1. Len(root \o path) = n /\ \A i \in 1 .. n : (root \o path)[i] = parts[i]
    BY <1>1, <1>2, <1>3, <1>4, <1>7
  <2>2. root \o path \in Seq(STRING)
    OBVIOUS
  <2>3. \A i \in 1 .. n : parts[i] = (root \o path)[i]
    BY <2>1
  <2> QED BY <2>1, <2>2, <2>3, SeqEqual
<1>8. ASSUME parts = root \o path PROVE path = below
  <2>1. Len(path) = n - m /\ \A i \in 1 .. n - m : path[i] = parts[m + i]
    BY <1>1, <1>3, <1>8
  <2> QED BY <1>4, <2>1
<1> QED BY <1>5, <1>6, <1>7, <1>8

(* An index that declines to guess. *)
Ids(S) == {n.id : n \in S}

LEMMA UniqueOrNone ==
  ASSUME NEW nodes, ProperNodes(nodes), NEW S \in SUBSET nodes
  PROVE  /\ IndexUnique(Ids(S)) \in {NoNode} \cup Ids(S)
         /\ \A x \in S : IndexUnique(Ids(S)) = IF Cardinality(S) > 1 THEN NoNode ELSE x.id
<1>1. IsFiniteSet(S) /\ Cardinality(S) \in Nat
  BY FS_Subset, FS_CardinalityType DEF ProperNodes
<1>2. IsFiniteSet(Ids(S)) /\ Cardinality(Ids(S)) \in Nat
  <2> DEFINE f == [n \in S |-> n.id]
  <2>1. f \in Surjection(S, Ids(S))
    BY DEF Surjection, Ids
  <2> QED BY <1>1, <2>1, FS_Surjection, FS_CardinalityType
<1>3. IndexUnique(Ids(S)) \in {NoNode} \cup Ids(S)
  <2>1. CASE Cardinality(Ids(S)) = 1
    <3>1. \E i : Ids(S) = {i}
      BY <1>2, <2>1, FS_Singleton
    <3> QED BY <2>1, <3>1 DEF IndexUnique
  <2> QED BY <2>1 DEF IndexUnique
<1>4. ASSUME NEW x \in S
      PROVE  IndexUnique(Ids(S)) = IF Cardinality(S) > 1 THEN NoNode ELSE x.id
  <2>1. CASE S = {x}
    <3>1. Ids(S) = {x.id}
      BY <2>1 DEF Ids
    <3>2. Cardinality(S) = 1 /\ Cardinality(Ids(S)) = 1
      BY <2>1, <3>1, FS_Singleton
    <3> QED BY <3>1, <3>2 DEF IndexUnique
  <2>2. CASE S # {x}
    <3>1. PICK y \in S : y # x
      BY <1>4, <2>2
    <3>2. x.id \in Ids(S) /\ y.id \in Ids(S) /\ x.id # y.id
      BY <1>4, <3>1 DEF Ids, ProperNodes
    <3>3. Cardinality(Ids(S)) # 1
      BY <1>2, <3>2, FS_Singleton
    <3>4. Cardinality(S) # 1 /\ Cardinality(S) # 0
      BY <1>1, <1>4, <2>2, FS_Singleton, FS_EmptySet
    <3> QED BY <1>1, <3>3, <3>4 DEF IndexUnique
  <2> QED BY <2>1, <2>2
<1> QED BY <1>3, <1>4
-----------------------------------------------------------------------------
(* What the indexes say of a proper frame.                                   *)

LEMMA Located ==
  ASSUME NEW j, ProperFrame(j), IsStrictPrefix(j.root, j.id.parts), NEW n \in j.nodes
  PROVE  n.path = ToPosix(j.root, j.id.parts) <=> At(j, n)
BY PathBelow DEF ProperFrame, ProperNodes, At

LEMMA InProject ==
  ASSUME NEW j, ProperFrame(j), IsStrictPrefix(j.root, j.id.parts)
  PROVE  ToPosix(j.root, j.id.parts) # NOTPROJECT
<1>1. <<>> \in Seq(STRING)
  OBVIOUS
<1> QED BY <1>1, PathBelow DEF ProperFrame

LEMMA CallablesHere ==
  ASSUME NEW j, ProperFrame(j), IsStrictPrefix(j.root, j.id.parts)
  PROVE  Callables(j.nodes, ToPosix(j.root, j.id.parts)) = Beside(j)
BY Located DEF Callables, Beside, Callable

\* A set of nodes found by an index that declines to guess.
Finds(found, S) ==
  /\ found \in {NoNode} \cup Ids(S)
  /\ \A x \in S : found = IF Cardinality(S) > 1 THEN NoNode ELSE x.id

LEMMA LineIndex ==
  ASSUME NEW j, ProperFrame(j), IsStrictPrefix(j.root, j.id.parts), NEW line
  PROVE  Finds(SymIndex(j.nodes, ToPosix(j.root, j.id.parts), line), Sharing(j, line))
<1>1. ProperNodes(j.nodes) /\ Sharing(j, line) \in SUBSET j.nodes
  BY DEF ProperFrame, Beside, Sharing
<1>2. SymIndex(j.nodes, ToPosix(j.root, j.id.parts), line) = IndexUnique(Ids(Sharing(j, line)))
  BY CallablesHere DEF SymIndex, Ids, Sharing
<1> QED BY <1>1, <1>2, UniqueOrNone DEF Finds

LEMMA NamedIndex ==
  ASSUME NEW j, ProperFrame(j), IsStrictPrefix(j.root, j.id.parts), NEW name
  PROVE  Finds(NameIndex(j.nodes, ToPosix(j.root, j.id.parts), name), Homonyms(j, name))
<1>1. ProperNodes(j.nodes) /\ Homonyms(j, name) \in SUBSET j.nodes
  BY DEF ProperFrame, Beside, Homonyms
<1>2. NameIndex(j.nodes, ToPosix(j.root, j.id.parts), name) = IndexUnique(Ids(Homonyms(j, name)))
  BY CallablesHere DEF NameIndex, Ids, Homonyms
<1> QED BY <1>1, <1>2, UniqueOrNone DEF Finds

(* V8 qualifies a method's name; only its last part can be a callable's.     *)
LEMMA ByName ==
  ASSUME NEW j, ProperFrame(j), IsStrictPrefix(j.root, j.id.parts), j.name # <<>>
  PROVE  Finds(ResolveByName(j.nodes, ToPosix(j.root, j.id.parts), j.name),
               Homonyms(j, <<Last(j.name)>>))
<1> DEFINE path == ToPosix(j.root, j.id.parts)
           whole == NameIndex(j.nodes, path, j.name)
           tail == NameIndex(j.nodes, path, <<j.name[Len(j.name)]>>)
<1>1. j.name \in Seq(STRING) /\ Len(j.name) \in Nat \ {0} /\ Last(j.name) = j.name[Len(j.name)]
  BY DEF ProperFrame, Last
<1>2. Finds(tail, Homonyms(j, <<Last(j.name)>>))
  BY <1>1, NamedIndex
<1>3. Len(j.name) < 2 => j.name = <<j.name[Len(j.name)]>>
  BY <1>1
<1>4. Len(j.name) >= 2 => whole = NoNode
  <2> SUFFICES ASSUME Len(j.name) >= 2 PROVE whole = NoNode
    OBVIOUS
  <2>1. ASSUME NEW n \in Homonyms(j, j.name) PROVE FALSE
    <3>1. n.name = j.name /\ n \in j.nodes /\ Callable(n)
      BY DEF Homonyms, Beside
    <3>2. Len(n.name) = 1
      BY <3>1 DEF ProperFrame, ProperNodes
    <3> QED BY <3>1, <3>2
  <2>2. whole \in {NoNode} \cup Ids(Homonyms(j, j.name))
    BY NamedIndex DEF Finds
  <2> QED BY <2>1, <2>2 DEF Ids
<1>5. ResolveByName(j.nodes, path, j.name) = tail
  <2> HIDE DEF path
  <2> QED BY <1>1, <1>3, <1>4 DEF ResolveByName
<1> QED BY <1>2, <1>5

LEMMA FileFound ==
  ASSUME NEW j, ProperFrame(j), IsStrictPrefix(j.root, j.id.parts)
  PROVE  FileIndex(j.nodes, ToPosix(j.root, j.id.parts)) = FileNode(j)
<1> DEFINE files == {n \in j.nodes : n.kind = "file" /\ At(j, n)}
           here == {m \in j.nodes : m.kind = "file" /\ m.path = ToPosix(j.root, j.id.parts)}
<1>1. here = files
  BY Located
<1>2. \A m, n \in files : m = n
  <2>1. \A m, n \in here : m = n
    BY DEF ProperFrame, ProperNodes
  <2> QED BY <1>1, <2>1
<1>3. FileIndex(j.nodes, ToPosix(j.root, j.id.parts))
        = IF Ids(files) = {} THEN Unresolved ELSE CHOOSE i \in Ids(files) : TRUE
  BY <1>1 DEF FileIndex, Ids
<1>4. FileNode(j) = IF files = {} THEN Unresolved ELSE (CHOOSE n \in files : TRUE).id
  BY DEF FileNode
<1> HIDE DEF files
<1>5. CASE files = {}
  BY <1>3, <1>4, <1>5 DEF Ids
<1>6. CASE files # {}
  <2>1. PICK n \in files : files = {n}
    BY <1>2, <1>6
  <2>2. Ids(files) = {n.id}
    BY <2>1 DEF Ids
  <2> QED BY <1>3, <1>4, <2>1, <2>2
<1> QED BY <1>5, <1>6

(* The last function declared before a statement.                           *)
LEMMA Declared ==
  ASSUME NEW j, ProperFrame(j), IsStrictPrefix(j.root, j.id.parts),
         NEW before, before = {g \in Beside(j) : g.line <= j.line}
  PROVE  LET found == ResolveByDeclLine(j.nodes, ToPosix(j.root, j.id.parts), j.line)
         IN  IF before = {} THEN found = NoNode
             ELSE \E g \in before : found = g.id /\ \A h \in before : h.line <= g.line
<1> DEFINE last == {n \in before : \A m \in before :
                      m.line < n.line \/ (m.line = n.line /\ m.id <= n.id)}
<1>1. ResolveByDeclLine(j.nodes, ToPosix(j.root, j.id.parts), j.line)
        = IF before = {} THEN NoNode ELSE (CHOOSE n \in last : TRUE).id
  <2>1. before = {n \in Callables(j.nodes, ToPosix(j.root, j.id.parts)) : n.line <= j.line}
    BY CallablesHere
  <2> QED BY ONLY <2>1 DEF ResolveByDeclLine
<1>2. /\ before \in SUBSET j.nodes /\ IsFiniteSet(before)
      /\ \A n \in before : n.line \in Nat /\ n.id \in Nat
  BY FS_Subset DEF ProperFrame, ProperNodes, Beside
<1>3. ASSUME before # {} PROVE \E n \in last : TRUE
  <2> DEFINE lines == {n.line : n \in before}
  <2>1. PICK l \in lines : \A k \in lines : k <= l
    <3>1. IsFiniteSet(lines)
      <4> DEFINE f == [n \in before |-> n.line]
      <4>1. f \in Surjection(before, lines)
        BY DEF Surjection
      <4> QED BY <1>2, <4>1, FS_Surjection
    <3>2. lines \in SUBSET Nat /\ lines # {}
      BY <1>2, <1>3
    <3> QED BY <3>1, <3>2, Greatest
  <2> DEFINE ids == {n.id : n \in {m \in before : m.line = l}}
  <2>2. PICK i \in ids : \A k \in ids : k <= i
    <3>1. IsFiniteSet(ids)
      <4> DEFINE B == {m \in before : m.line = l}
                 f == [n \in B |-> n.id]
      <4>1. f \in Surjection(B, ids) /\ B \in SUBSET before
        BY DEF Surjection
      <4> QED BY <1>2, <4>1, FS_Subset, FS_Surjection
    <3>2. ids \in SUBSET Nat /\ ids # {}
      BY <1>2, <2>1
    <3> QED BY <3>1, <3>2, Greatest
  <2>3. PICK n \in before : n.line = l /\ n.id = i
    BY <2>2
  <2>4. n \in last
    BY <1>2, <2>1, <2>2, <2>3
  <2> QED BY <2>4
<1>4. \A n \in last : n \in before /\ \A h \in before : h.line <= n.line
  BY <1>2
<1> HIDE DEF last
<1> QED BY <1>1, <1>3, <1>4

-----------------------------------------------------------------------------
(* Each answer.                                                              *)

LEMMA CodeSound ==
  ASSUME NEW j, ProperFrame(j), j.kind = "code"
  PROVE  CodeIsFound(j, ResolveCode(j.nodes, NormalizeCode(j.root, j.id), j.line, j.module))
<1> DEFINE path == ToPosix(j.root, j.id.parts)
           sym == SymIndex(j.nodes, path, j.line)
<1>1. CASE ~Inside(j)
  <2>1. NormalizeCode(j.root, j.id) = NOTPROJECT
    BY <1>1 DEF ProperFrame, Inside, NormalizeCode, ToPosix
  <2> QED BY <1>1, <2>1 DEF CodeIsFound, ResolveCode
<1>2. CASE Inside(j)
  <2>1. IsStrictPrefix(j.root, j.id.parts) /\ NormalizeCode(j.root, j.id) = path /\ path # NOTPROJECT
    BY <1>2, InProject DEF ProperFrame, Inside, NormalizeCode
  <2>2. Finds(sym, Sharing(j, j.line)) /\ FileIndex(j.nodes, path) = FileNode(j)
    BY <2>1, LineIndex, FileFound
  <2>3. ResolveCode(j.nodes, path, j.line, j.module)
          = IF ~j.module /\ sym # NoNode THEN sym ELSE FileNode(j)
    BY <2>1, <2>2 DEF ResolveCode
  <2>4. CASE j.owner = Nothing
    <3>1. sym # NoNode => \E g \in Sharing(j, j.line) : sym = g.id
      <4> HIDE DEF sym
      <4> QED BY <2>2 DEF Finds, Ids
    <3> DEFINE node == ResolveCode(j.nodes, path, j.line, j.module)
    <3>2. node = FileNode(j) \/ (~j.module /\ \E g \in Sharing(j, j.line) : node = g.id)
      <4> HIDE DEF sym, path
      <4> QED BY <2>3, <3>1
    <3>3. CodeIsFound(j, node)
      <4> HIDE DEF node
      <4> QED BY <1>2, <2>4, <3>2 DEF CodeIsFound
    <3> QED BY <2>1, <3>3
  <2>5. CASE j.owner # Nothing
    <3>1. j.owner \in Sharing(j, j.line) /\ j.module = FALSE /\ j.owner.id # NoNode
      BY <2>5 DEF ProperFrame, ProperNodes, Sharing, Beside
    <3>2. sym = IF Cardinality(Sharing(j, j.line)) > 1 THEN NoNode ELSE j.owner.id
      BY <2>2, <3>1 DEF Finds
    <3> QED BY <1>2, <2>1, <2>3, <2>5, <3>1, <3>2 DEF CodeIsFound
  <2> QED BY <2>4, <2>5
<1> QED BY <1>1, <1>2

LEMMA FrameSound ==
  ASSUME NEW j, ProperFrame(j), j.kind = "frame"
  PROVE  FrameIsFound(j, ResolveFrame(j.nodes, NormalizeUrl(j.root, j.id), j.line, j.name, j.pseudo))
<1> DEFINE path == ToPosix(j.root, j.id.parts)
           sym == SymIndex(j.nodes, path, j.line)
           named == ResolveByName(j.nodes, path, j.name)
           node == ResolveFrame(j.nodes, NormalizeUrl(j.root, j.id), j.line, j.name, j.pseudo)
<1>1. CASE ~Inside(j) \/ j.pseudo
  <2>1. j.pseudo \/ NormalizeUrl(j.root, j.id) = NOTPROJECT
    BY <1>1 DEF ProperFrame, Inside, NormalizeUrl, ToPosix
  <2> QED BY <1>1, <2>1 DEF FrameIsFound, ResolveFrame
<1>2. CASE Inside(j) /\ ~j.pseudo
  <2>1. IsStrictPrefix(j.root, j.id.parts) /\ NormalizeUrl(j.root, j.id) = path /\ path # NOTPROJECT
    BY <1>2, InProject DEF ProperFrame, Inside, NormalizeUrl
  <2>2. Finds(sym, Sharing(j, j.line)) /\ FileIndex(j.nodes, path) = FileNode(j)
    BY <2>1, LineIndex, FileFound
  <2>3. node = IF j.name # <<>> /\ sym # NoNode THEN sym
               ELSE IF named # NoNode THEN named ELSE FileNode(j)
    BY <1>2, <2>1, <2>2 DEF ResolveFrame
  <2>4. CASE j.name = <<>>
    <3>1. Len(j.name) = 0
      BY <2>4
    <3>2. named = NoNode
      BY <2>4, <3>1 DEF ResolveByName
    <3>3. j.owner = Nothing
      BY <2>4 DEF ProperFrame
    <3>4. node = FileNode(j)
      BY <2>3, <2>4, <3>2
    <3> QED BY <1>2, <3>3, <3>4 DEF FrameIsFound
  <2>5. CASE j.name # <<>>
    <3> DEFINE H == Homonyms(j, <<Last(j.name)>>)
    <3>1. Finds(named, H)
      BY <2>1, <2>5, ByName
    <3> HIDE DEF node, sym, named, path
    <3>2. CASE j.owner = Nothing
      <4>1. \/ node = FileNode(j)
            \/ node \in Ids(Sharing(j, j.line)) \union Ids(H)
        BY <2>2, <2>3, <3>1 DEF Finds
      <4> QED BY <1>2, <2>5, <3>2, <4>1 DEF FrameIsFound, Ids, node
    <3>3. CASE j.owner # Nothing
      <4>1. j.owner \in Sharing(j, j.line) /\ j.owner \in H /\ j.owner.id # NoNode
        BY <3>3 DEF ProperFrame, ProperNodes, Sharing, Homonyms, Beside
      <4>2. /\ sym = IF Cardinality(Sharing(j, j.line)) > 1 THEN NoNode ELSE j.owner.id
            /\ named = IF Cardinality(H) > 1 THEN NoNode ELSE j.owner.id
        BY <2>2, <3>1, <4>1 DEF Finds
      <4>3. node = IF Cardinality(Sharing(j, j.line)) > 1 /\ Cardinality(H) > 1
                   THEN FileNode(j) ELSE j.owner.id
        BY <2>3, <2>5, <4>1, <4>2
      <4> QED BY <1>2, <3>3, <4>3 DEF FrameIsFound, node
    <3> QED BY <3>2, <3>3 DEF node
  <2> QED BY <2>4, <2>5
<1> QED BY <1>1, <1>2

LEMMA StatementSound ==
  ASSUME NEW j, ProperFrame(j), j.kind = "statement"
  PROVE  StatementIsFound(j, ResolveStatement(j.nodes, NormalizePath(j.root, j.id), j.line))
<1> DEFINE path == ToPosix(j.root, j.id.parts)
           sym == SymIndex(j.nodes, path, j.line)
           decl == ResolveByDeclLine(j.nodes, path, j.line)
           before == {g \in Beside(j) : g.line <= j.line}
           node == ResolveStatement(j.nodes, NormalizePath(j.root, j.id), j.line)
<1>1. CASE ~Inside(j)
  <2>1. NormalizePath(j.root, j.id) = NOTPROJECT
    BY <1>1 DEF ProperFrame, Inside, NormalizePath, ToPosix
  <2> QED BY <1>1, <2>1 DEF StatementIsFound, ResolveStatement
<1>2. CASE Inside(j)
  <2>1. IsStrictPrefix(j.root, j.id.parts) /\ NormalizePath(j.root, j.id) = path /\ path # NOTPROJECT
    BY <1>2, InProject DEF ProperFrame, Inside, NormalizePath
  <2>2. Finds(sym, Sharing(j, j.line)) /\ FileIndex(j.nodes, path) = FileNode(j)
    BY <2>1, LineIndex, FileFound
  <2>3. IF before = {} THEN decl = NoNode
        ELSE \E g \in before : decl = g.id /\ \A h \in before : h.line <= g.line
    BY <2>1, Declared
  <2>4. node = IF sym # NoNode THEN sym ELSE IF decl # NoNode THEN decl ELSE FileNode(j)
    BY <2>1, <2>2 DEF ResolveStatement
  <2>5. \A g \in before : g.id # NoNode /\ g.line \in Nat /\ j.line \in Nat
    BY DEF ProperFrame, ProperNodes, Beside
  <2>6. \A g \in Sharing(j, j.line) : g \in before /\ \A h \in before : h.line <= g.line
    BY DEF ProperFrame, Sharing
  <2> HIDE DEF node, sym, decl, path
  <2>7. CASE sym # NoNode
    <3>1. PICK g \in Sharing(j, j.line) : sym = g.id
      BY <2>2, <2>7 DEF Finds, Ids
    <3> QED BY <1>2, <2>4, <2>6, <2>7, <3>1 DEF StatementIsFound, node
  <2>8. CASE sym = NoNode
    <3>1. IF before = {} THEN node = FileNode(j)
          ELSE \E g \in before : node = g.id /\ \A h \in before : h.line <= g.line
      BY <2>3, <2>4, <2>5, <2>8
    <3> HIDE DEF before
    <3> QED BY <1>2, <3>1 DEF StatementIsFound, node, before
  <2> QED BY <2>7, <2>8
<1> QED BY <1>1, <1>2

THEOREM FramesAreAttributed == AttributionSpec => []FramesFindTheirNode
<1> DEFINE Inv == asked \in Reports /\ FramesFindTheirNode
<1>1. AnyReport => Inv
  BY DEF AnyReport, FramesFindTheirNode, Answered
<1>2. Inv /\ [Attribute]_questionVars => Inv'
  <2> SUFFICES ASSUME Inv, [Attribute]_questionVars PROVE Inv'
    OBVIOUS
  <2>1. CASE UNCHANGED questionVars
    BY <2>1 DEF questionVars, FramesFindTheirNode, Answered
  <2>2. ProperFrame(asked)
    BY ReportsAreProper
  <2>3. CASE ResolveCodeJob
    BY <2>2, <2>3, CodeSound DEF ResolveCodeJob, Answer, FramesFindTheirNode, Answered
  <2>4. CASE ResolveFrameJob
    BY <2>2, <2>4, FrameSound DEF ResolveFrameJob, Answer, FramesFindTheirNode, Answered
  <2>5. CASE ResolveStatementJob
    BY <2>2, <2>5, StatementSound DEF ResolveStatementJob, Answer, FramesFindTheirNode, Answered
  <2> QED BY <2>1, <2>3, <2>4, <2>5 DEF Attribute
<1>3. Inv => FramesFindTheirNode
  OBVIOUS
<1> QED BY <1>1, <1>2, <1>3, PTL DEF AttributionSpec
-----------------------------------------------------------------------------
(* The search for cycles. *)
LEMMA AppendFacts ==
  ASSUME NEW S, NEW q \in Seq(S), NEW x \in S
  PROVE  /\ Append(q, x) \in Seq(S) /\ Len(Append(q, x)) = Len(q) + 1 /\ Len(q) \in Nat
         /\ DOMAIN Append(q, x) = 1 .. Len(q) + 1
         /\ \A i \in 1 .. Len(q) : Append(q, x)[i] = q[i]
         /\ Append(q, x)[Len(q) + 1] = x
OBVIOUS

(* A search under way over the nodes V. *)
Frames(V) == [node : V, pos : Nat \ {0}]
IsSearch(V, s) ==
  /\ DOMAIN s = {"phase", "read", "adj", "loops", "kinds", "counter", "index", "low",
                 "stack", "onStack", "calls", "sccs", "cycles", "hubs"}
  /\ s.phase \in {"search", "reported"} /\ s.read \in Nat /\ s.counter \in Nat \ {0}
  /\ s.adj \in [V -> Seq(V)] /\ s.loops \in SUBSET V
  /\ s.index \in [V -> Nat] /\ s.low \in [V -> Nat]
  /\ s.stack \in Seq(V) /\ s.onStack \in SUBSET V /\ s.calls \in Seq(Frames(V))
  /\ s.sccs \in SUBSET (SUBSET V)

(* What every step leaves alone while the search runs. *)
SameGraph(s, t) ==
  /\ t.phase = s.phase /\ t.read = s.read /\ t.adj = s.adj /\ t.loops = s.loops
  /\ t.kinds = s.kinds /\ t.cycles = s.cycles /\ t.hubs = s.hubs

Discovered(V, s, t, v) ==
  /\ IsSearch(V, t) /\ SameGraph(s, t)
  /\ t.counter = s.counter + 1 /\ t.index = [s.index EXCEPT ![v] = s.counter]
  /\ t.low = [s.low EXCEPT ![v] = s.counter]
  /\ t.stack = Append(s.stack, v) /\ t.onStack = s.onStack \union {v}
  /\ t.calls = Append(s.calls, [node |-> v, pos |-> 1]) /\ t.sccs = s.sccs

LEMMA DiscoverEffect ==
  ASSUME NEW V, NEW s, IsSearch(V, s), NEW v \in V
  PROVE  Discovered(V, s, Discover(s, v), v)
<1> DEFINE t == Discover(s, v)
<1>1. SameGraph(s, t)
  BY DEF IsSearch, Discover, SameGraph
<1>2. t.counter = s.counter + 1 /\ t.sccs = s.sccs
  BY DEF IsSearch, Discover
<1>3. t.index = [s.index EXCEPT ![v] = s.counter] /\ t.low = [s.low EXCEPT ![v] = s.counter]
  BY DEF IsSearch, Discover
<1>4. t.stack = Append(s.stack, v) /\ t.onStack = s.onStack \union {v}
  BY DEF IsSearch, Discover
<1>5. t.calls = Append(s.calls, [node |-> v, pos |-> 1])
  BY DEF IsSearch, Discover
<1>6. IsSearch(V, t)
  <2>1. t.counter \in Nat \ {0} /\ t.index \in [V -> Nat] /\ t.low \in [V -> Nat]
    BY <1>2, <1>3 DEF IsSearch
  <2>2. t.stack \in Seq(V) /\ t.onStack \in SUBSET V /\ t.calls \in Seq(Frames(V))
    BY <1>4, <1>5 DEF IsSearch, Frames
  <2>3. DOMAIN t = DOMAIN s
    BY DEF Discover
  <2> QED BY <1>1, <1>2, <2>1, <2>2, <2>3 DEF IsSearch, SameGraph
<1> QED BY <1>1, <1>2, <1>3, <1>4, <1>5, <1>6 DEF Discovered

(* Looking at one more neighbour. *)
Moved(s) == [s EXCEPT !.calls[Len(s.calls)].pos = @ + 1]

Turned(V, s, t) ==
  /\ IsSearch(V, t) /\ SameGraph(s, t)
  /\ t.counter = s.counter /\ t.index = s.index /\ t.low = s.low
  /\ t.stack = s.stack /\ t.onStack = s.onStack /\ t.sccs = s.sccs
  /\ Len(t.calls) = Len(s.calls)
  /\ \A i \in 1 .. Len(s.calls) :
       t.calls[i] = IF i = Len(s.calls)
                    THEN [node |-> s.calls[i].node, pos |-> s.calls[i].pos + 1]
                    ELSE s.calls[i]

LEMMA MovedEffect ==
  ASSUME NEW V, NEW s, IsSearch(V, s), s.calls # <<>>
  PROVE  Turned(V, s, Moved(s))
<1> DEFINE t == Moved(s)
<1>1. SameGraph(s, t)
  BY DEF IsSearch, Moved, SameGraph
<1>2. t.counter = s.counter /\ t.index = s.index /\ t.low = s.low
  BY DEF IsSearch, Moved
<1>3. t.stack = s.stack /\ t.onStack = s.onStack /\ t.sccs = s.sccs
  BY DEF IsSearch, Moved
<1>4. t.calls = [s.calls EXCEPT ![Len(s.calls)].pos = @ + 1]
  BY DEF IsSearch, Moved
<1>5. Len(s.calls) \in Nat \ {0} /\ \A i \in 1 .. Len(s.calls) : s.calls[i] \in Frames(V)
  BY DEF IsSearch
<1>6. /\ Len(t.calls) = Len(s.calls)
      /\ \A i \in 1 .. Len(s.calls) :
           t.calls[i] = IF i = Len(s.calls)
                        THEN [node |-> s.calls[i].node, pos |-> s.calls[i].pos + 1]
                        ELSE s.calls[i]
  <2> DEFINE last == s.calls[Len(s.calls)]
             turned == [last EXCEPT !.pos = last.pos + 1]
  <2>1. turned = [node |-> last.node, pos |-> last.pos + 1]
    <3>1. last \in Frames(V)
      BY <1>5
    <3> HIDE DEF last
    <3> QED BY <3>1 DEF Frames
  <2>2. t.calls = [s.calls EXCEPT ![Len(s.calls)] = turned]
    BY <1>4
  <2> HIDE DEF turned
  <2> QED BY <1>5, <2>1, <2>2 DEF IsSearch
<1>7. t.calls \in Seq(Frames(V))
  <2>1. \A i \in 1 .. Len(s.calls) : t.calls[i] \in Frames(V)
    <3> SUFFICES ASSUME NEW i \in 1 .. Len(s.calls) PROVE t.calls[i] \in Frames(V)
      OBVIOUS
    <3>1. s.calls[i] \in Frames(V)
      BY <1>5
    <3>2. s.calls[i].node \in V /\ s.calls[i].pos + 1 \in Nat \ {0}
      BY <3>1 DEF Frames
    <3>3. CASE i = Len(s.calls)
      <4>1. t.calls[i] = [node |-> s.calls[i].node, pos |-> s.calls[i].pos + 1]
        BY <1>6, <3>3
      <4> QED BY <3>2, <4>1 DEF Frames
    <3>4. CASE i # Len(s.calls)
      BY <1>6, <3>1, <3>4
    <3> QED BY <3>3, <3>4
  <2>2. t.calls = [i \in 1 .. Len(s.calls) |-> t.calls[i]]
    <3>1. DOMAIN t.calls = DOMAIN s.calls /\ t.calls = [i \in DOMAIN t.calls |-> t.calls[i]]
      BY <1>4
    <3>2. DOMAIN s.calls = 1 .. Len(s.calls)
      BY DEF IsSearch
    <3> QED BY <3>1, <3>2
  <2> QED BY <1>5, <2>1, <2>2
<1>8. DOMAIN t = DOMAIN s
  BY DEF Moved
<1>9. IsSearch(V, t)
  BY <1>1, <1>2, <1>3, <1>7, <1>8 DEF IsSearch, SameGraph
<1> QED BY <1>1, <1>2, <1>3, <1>6, <1>9 DEF Turned

Lowered(V, s, t, v, l) ==
  /\ IsSearch(V, t) /\ SameGraph(s, t)
  /\ t.counter = s.counter /\ t.index = s.index /\ t.stack = s.stack
  /\ t.onStack = s.onStack /\ t.sccs = s.sccs /\ t.calls = s.calls
  /\ t.low = [s.low EXCEPT ![v] = MinOf(s.low[v], l)]

LEMMA LoweredEffect ==
  ASSUME NEW V, NEW s, IsSearch(V, s), NEW v \in V, NEW l \in Nat
  PROVE  Lowered(V, s, [s EXCEPT !.low[v] = MinOf(@, l)], v, l)
<1> DEFINE t == [s EXCEPT !.low[v] = MinOf(@, l)]
<1>1. SameGraph(s, t)
  BY DEF IsSearch, SameGraph
<1>2. t.counter = s.counter /\ t.index = s.index /\ t.stack = s.stack
  BY DEF IsSearch
<1>3. t.onStack = s.onStack /\ t.sccs = s.sccs /\ t.calls = s.calls
  BY DEF IsSearch
<1>4. t.low = [s.low EXCEPT ![v] = MinOf(s.low[v], l)]
  BY DEF IsSearch
<1>5. t.low \in [V -> Nat]
  BY <1>4 DEF IsSearch, MinOf
<1>6. DOMAIN t = DOMAIN s
  OBVIOUS
<1>7. IsSearch(V, t)
  BY <1>1, <1>2, <1>3, <1>5, <1>6 DEF IsSearch, SameGraph
<1> QED BY <1>1, <1>2, <1>3, <1>4, <1>7 DEF Lowered
-----------------------------------------------------------------------------
(* The search, seen as sets: the nodes under way, the nodes whose component *)
(* is known, the edges it follows and those it has looked at.                *)
Succ(s, v) == {s.adj[v][k] : k \in DOMAIN s.adj[v]}
Gray(s) == {s.calls[i].node : i \in DOMAIN s.calls}
Done(s) == {v \in DOMAIN s.index : s.index[v] > 0 /\ v \notin s.onStack}
Looked(s, x) ==
  {y \in Succ(s, x) : s.index[x] > 0 /\ \A i \in DOMAIN s.calls : s.calls[i].node = x =>
                        \E k \in 1 .. s.calls[i].pos - 1 : s.adj[x][k] = y}

(* Indexes grow along the stack and along the calls; what is on a call is   *)
(* on the stack.                                                             *)
OrderInv(V, s) ==
  /\ \A v \in V : s.index[v] < s.counter
  /\ \A v, w \in V : s.index[v] = s.index[w] /\ s.index[v] > 0 => v = w
  /\ s.onStack = {s.stack[i] : i \in DOMAIN s.stack}
  /\ \A v \in s.onStack : s.index[v] > 0
  /\ \A i, j \in DOMAIN s.stack : i < j => s.index[s.stack[i]] < s.index[s.stack[j]]
  /\ Gray(s) \subseteq s.onStack
  /\ \A i, j \in DOMAIN s.calls : i < j => s.index[s.calls[i].node] < s.index[s.calls[j].node]
  /\ \A i \in DOMAIN s.calls : s.calls[i].pos <= Len(s.adj[s.calls[i].node]) + 1

LEMMA GrayTop ==
  ASSUME NEW V, NEW s, IsSearch(V, s), OrderInv(V, s), s.calls # <<>>, NEW v, v = CallTop(s).node
  PROVE  /\ v \in V /\ v \in Gray(s) /\ CallTop(s).pos \in Nat \ {0}
         /\ \A u \in Gray(s) : u # v => s.index[u] < s.index[v]
         /\ \A i \in DOMAIN s.calls : s.calls[i].node = v <=> i = Len(s.calls)
<1>1. Len(s.calls) \in DOMAIN s.calls /\ DOMAIN s.calls = 1 .. Len(s.calls)
      /\ \A i \in DOMAIN s.calls : s.calls[i] \in Frames(V)
  BY DEF IsSearch
<1>2. \A i \in DOMAIN s.calls : s.calls[i].node \in V /\ s.calls[i].pos \in Nat \ {0}
  BY <1>1 DEF Frames
<1>3. \A i \in DOMAIN s.calls : i # Len(s.calls) => s.index[s.calls[i].node] < s.index[v]
  BY <1>1 DEF OrderInv, CallTop
<1>4. \A w \in V : s.index[w] \in Nat
  BY DEF IsSearch
<1> QED BY <1>1, <1>2, <1>3, <1>4 DEF CallTop, Gray

(* A node is discovered. *)
LEMMA DiscoverOrder ==
  ASSUME NEW V, NEW s, IsSearch(V, s), OrderInv(V, s), NEW w \in V, s.index[w] = 0,
         NEW t, Discovered(V, s, t, w)
  PROVE  OrderInv(V, t)
<1>1. /\ SameGraph(s, t)
      /\ t.counter = s.counter + 1 /\ t.index = [s.index EXCEPT ![w] = s.counter]
      /\ t.stack = Append(s.stack, w) /\ t.onStack = s.onStack \union {w}
      /\ t.calls = Append(s.calls, [node |-> w, pos |-> 1])
  BY DEF Discovered
<1>2. /\ s.counter \in Nat /\ s.index \in [V -> Nat] /\ s.stack \in Seq(V) /\ s.calls \in Seq(Frames(V))
      /\ s.onStack \in SUBSET V /\ s.adj \in [V -> Seq(V)] /\ s.counter > 0
      /\ Len(s.stack) \in Nat /\ DOMAIN s.stack = 1 .. Len(s.stack)
      /\ Len(s.calls) \in Nat /\ DOMAIN s.calls = 1 .. Len(s.calls)
  BY DEF IsSearch
<1>3. /\ \A v \in V : t.index[v] = IF v = w THEN s.counter ELSE s.index[v]
      /\ w \notin s.onStack
  <2>1. w \notin s.onStack
    BY DEF OrderInv
  <2> QED BY <1>1, <1>2, <2>1
<1>4. \A v \in V : t.index[v] < t.counter
  BY <1>1, <1>2, <1>3 DEF OrderInv
<1>5. \A v, u \in V : t.index[v] = t.index[u] /\ t.index[v] > 0 => v = u
  BY <1>1, <1>2, <1>3 DEF OrderInv
<1>6. /\ Len(t.stack) = Len(s.stack) + 1 /\ DOMAIN t.stack = 1 .. Len(s.stack) + 1
      /\ \A i \in 1 .. Len(s.stack) : t.stack[i] = s.stack[i] /\ s.stack[i] \in s.onStack
      /\ t.stack[Len(s.stack) + 1] = w
  <2>1. s.onStack = {s.stack[i] : i \in 1 .. Len(s.stack)}
    BY <1>2 DEF OrderInv
  <2>2. \A i \in 1 .. Len(s.stack) : s.stack[i] \in s.onStack
    BY <2>1
  <2> QED BY <1>1, <1>2, <2>2, AppendFacts
<1>7. t.onStack = {t.stack[i] : i \in DOMAIN t.stack}
  <2>1. s.onStack = {s.stack[i] : i \in 1 .. Len(s.stack)}
    BY <1>2 DEF OrderInv
  <2>2. {t.stack[i] : i \in DOMAIN t.stack} = {s.stack[i] : i \in 1 .. Len(s.stack)} \union {w}
    <3>1. \A i \in DOMAIN t.stack : i \in 1 .. Len(s.stack) \/ i = Len(s.stack) + 1
      BY <1>2, <1>6
    <3>2. Len(s.stack) + 1 \in DOMAIN t.stack /\ \A i \in 1 .. Len(s.stack) : i \in DOMAIN t.stack
      BY <1>2, <1>6
    <3> QED BY <1>6, <3>1, <3>2
  <2> QED BY <1>1, <2>1, <2>2
<1>8. \A v \in t.onStack : t.index[v] > 0
  BY <1>1, <1>2, <1>3 DEF OrderInv
<1>9. \A i, j \in DOMAIN t.stack : i < j => t.index[t.stack[i]] < t.index[t.stack[j]]
  <2> SUFFICES ASSUME NEW i \in DOMAIN t.stack, NEW j \in DOMAIN t.stack, i < j
               PROVE  t.index[t.stack[i]] < t.index[t.stack[j]]
    OBVIOUS
  <2>1. i \in 1 .. Len(s.stack) /\ t.stack[i] = s.stack[i] /\ s.stack[i] \in s.onStack
        /\ t.index[t.stack[i]] = s.index[s.stack[i]]
    <3>1. i \in 1 .. Len(s.stack)
      BY <1>2, <1>6
    <3> QED BY <1>2, <1>3, <1>6, <3>1
  <2>2. CASE j = Len(s.stack) + 1
    BY <1>2, <1>3, <1>6, <2>1, <2>2 DEF OrderInv
  <2>3. CASE j \in 1 .. Len(s.stack)
    <3>1. t.index[t.stack[j]] = s.index[s.stack[j]]
      BY <1>2, <1>3, <1>6, <2>3
    <3> QED BY <1>2, <2>1, <2>3, <3>1 DEF OrderInv
  <2> QED BY <1>2, <1>6, <2>2, <2>3
<1>10. /\ DOMAIN t.calls = 1 .. Len(s.calls) + 1 /\ DOMAIN s.calls = 1 .. Len(s.calls)
       /\ \A i \in 1 .. Len(s.calls) : t.calls[i] = s.calls[i] /\ s.calls[i].node \in s.onStack
       /\ t.calls[Len(s.calls) + 1].node = w /\ t.calls[Len(s.calls) + 1].pos = 1
  <2>1. [node |-> w, pos |-> 1] \in Frames(V)
    BY DEF Frames
  <2>2. \A i \in 1 .. Len(s.calls) : s.calls[i].node \in s.onStack
    <3>1. \A i \in 1 .. Len(s.calls) : s.calls[i].node \in Gray(s)
      BY <1>2 DEF Gray
    <3> QED BY <3>1 DEF OrderInv
  <2> QED BY <1>1, <1>2, <2>1, <2>2
<1>11. Gray(t) \subseteq t.onStack
  BY <1>1, <1>2, <1>10 DEF Gray
<1>12. \A i, j \in DOMAIN t.calls : i < j => t.index[t.calls[i].node] < t.index[t.calls[j].node]
  <2> SUFFICES ASSUME NEW i \in DOMAIN t.calls, NEW j \in DOMAIN t.calls, i < j
               PROVE  t.index[t.calls[i].node] < t.index[t.calls[j].node]
    OBVIOUS
  <2>1. i \in 1 .. Len(s.calls) /\ t.calls[i] = s.calls[i] /\ s.calls[i].node \in s.onStack
        /\ t.index[t.calls[i].node] = s.index[s.calls[i].node]
    <3>1. i \in 1 .. Len(s.calls)
      BY <1>2, <1>10
    <3> QED BY <1>2, <1>3, <1>10, <3>1
  <2>2. CASE j = Len(s.calls) + 1
    BY <1>2, <1>3, <1>10, <2>1, <2>2 DEF OrderInv
  <2>3. CASE j \in 1 .. Len(s.calls)
    <3>1. t.index[t.calls[j].node] = s.index[s.calls[j].node]
      BY <1>2, <1>3, <1>10, <2>3
    <3> QED BY <1>2, <1>10, <2>1, <2>3, <3>1 DEF OrderInv
  <2> QED BY <1>2, <1>10, <2>2, <2>3
<1>13. \A i \in DOMAIN t.calls : t.calls[i].pos <= Len(t.adj[t.calls[i].node]) + 1
  <2>1. Len(s.adj[w]) \in Nat /\ t.adj = s.adj
    BY <1>1, <1>2 DEF SameGraph
  <2>2. \A i \in 1 .. Len(s.calls) : s.calls[i].pos <= Len(s.adj[s.calls[i].node]) + 1
    BY <1>2 DEF OrderInv
  <2>3. \A i \in DOMAIN t.calls : i \in 1 .. Len(s.calls) \/ i = Len(s.calls) + 1
    BY <1>2, <1>10
  <2> SUFFICES ASSUME NEW i \in DOMAIN t.calls
               PROVE  t.calls[i].pos <= Len(t.adj[t.calls[i].node]) + 1
    OBVIOUS
  <2>4. CASE i \in 1 .. Len(s.calls)
    BY <1>10, <2>1, <2>2, <2>4
  <2>5. CASE i = Len(s.calls) + 1
    BY <1>10, <2>1, <2>5
  <2> QED BY <2>3, <2>4, <2>5
<1> QED BY <1>4, <1>5, <1>7, <1>8, <1>9, <1>11, <1>12, <1>13 DEF OrderInv

(* The node on top of the calls is done: v, whose component is what is on   *)
(* the stack from v on.                                                      *)
Segment(s, v) == {x \in s.onStack : s.index[v] <= s.index[x]}
Lowest(s, v) == s.low[v] = s.index[v]
Returned(V, s, t) ==
  LET v == CallTop(s).node
      depth == Len(s.calls)
  IN  /\ IsSearch(V, t) /\ SameGraph(s, t)
      /\ t.counter = s.counter /\ t.index = s.index
      /\ Len(t.calls) = depth - 1 /\ \A i \in 1 .. depth - 1 : t.calls[i] = s.calls[i]
      /\ \A u \in V : t.low[u] = IF depth > 1 /\ u = s.calls[depth - 1].node
                                 THEN MinOf(s.low[u], s.low[v]) ELSE s.low[u]
      /\ t.onStack = IF Lowest(s, v) THEN s.onStack \ Segment(s, v) ELSE s.onStack
      /\ t.sccs = IF Lowest(s, v) THEN s.sccs \union {Segment(s, v)} ELSE s.sccs
      /\ \E k \in 0 .. Len(s.stack) : /\ t.stack = SubSeq(s.stack, 1, k)
                                      /\ t.onStack = {s.stack[i] : i \in 1 .. k}

LEMMA RetreatEffect ==
  ASSUME NEW V, NEW s, IsSearch(V, s), OrderInv(V, s), s.calls # <<>>
  PROVE  Returned(V, s, Retreat(s, CallTop(s).node))
<1> DEFINE v == CallTop(s).node
           depth == Len(s.calls)
           calls == Front(s.calls)
           low == IF calls = <<>> THEN s.low
                  ELSE [s.low EXCEPT ![Last(calls).node] = MinOf(s.low[Last(calls).node], s.low[v])]
           up == [s EXCEPT !.calls = calls, !.low = low]
           at == CHOOSE i \in DOMAIN s.stack : s.stack[i] = v
           scc == {s.stack[i] : i \in at .. Len(s.stack)}
           pop == [up EXCEPT !.sccs = s.sccs \union {scc}, !.onStack = s.onStack \ scc,
                             !.stack = SubSeq(s.stack, 1, at - 1)]
           t == IF s.low[v] # s.index[v] THEN up ELSE pop
<1>1. Retreat(s, v) = t
  <2>1. low = IF calls = <<>> THEN s.low
              ELSE [s.low EXCEPT ![Last(calls).node] = MinOf(@, s.low[v])]
    OBVIOUS
  <2>2. up.sccs = s.sccs /\ up.onStack = s.onStack /\ up.stack = s.stack
    BY DEF IsSearch
  <2>3. [up EXCEPT !.sccs = @ \union {scc}, !.onStack = @ \ scc, !.stack = SubSeq(@, 1, at - 1)] = pop
    <3> HIDE DEF up, scc, at
    <3> QED BY <2>2
  <2> HIDE DEF v
  <2> QED BY <2>1, <2>3 DEF Retreat
<1>2. /\ depth \in Nat \ {0} /\ DOMAIN s.calls = 1 .. depth
      /\ \A i \in 1 .. depth : s.calls[i] \in Frames(V) /\ s.calls[i].node \in V
      /\ v = s.calls[depth].node
      /\ s.stack \in Seq(V) /\ Len(s.stack) \in Nat /\ DOMAIN s.stack = 1 .. Len(s.stack)
      /\ s.low \in [V -> Nat] /\ s.index \in [V -> Nat]
  <2>1. /\ s.calls \in Seq(Frames(V)) /\ s.stack \in Seq(V)
        /\ s.low \in [V -> Nat] /\ s.index \in [V -> Nat]
    BY DEF IsSearch
  <2>2. depth \in Nat \ {0} /\ DOMAIN s.calls = 1 .. depth
        /\ \A i \in 1 .. depth : s.calls[i] \in Frames(V)
    BY <2>1
  <2>3. \A i \in 1 .. depth : s.calls[i].node \in V
    BY <2>2 DEF Frames
  <2> QED BY <2>1, <2>2, <2>3 DEF CallTop
<1>3. /\ calls \in Seq(Frames(V)) /\ Len(calls) = depth - 1
      /\ \A i \in 1 .. depth - 1 : calls[i] = s.calls[i]
      /\ calls = <<>> <=> depth = 1
      /\ depth > 1 => Last(calls) = s.calls[depth - 1]
  <2>1. s.calls \in Seq(Frames(V))
    BY DEF IsSearch
  <2>2. calls = SubSeq(s.calls, 1, depth - 1)
    BY DEF Front
  <2>3. calls \in Seq(Frames(V)) /\ Len(calls) = depth - 1 /\ \A i \in 1 .. depth - 1 : calls[i] = s.calls[i]
    BY <1>2, <2>1, <2>2
  <2> HIDE DEF calls
  <2>4. calls = <<>> <=> Len(calls) = 0
    BY <2>3, EmptySeq
  <2>5. calls = <<>> <=> depth = 1
    BY <1>2, <2>3, <2>4
  <2> QED BY <1>2, <2>3, <2>5 DEF Last
<1>4. /\ low \in [V -> Nat]
      /\ \A u \in V : low[u] = IF depth > 1 /\ u = s.calls[depth - 1].node
                               THEN MinOf(s.low[u], s.low[v]) ELSE s.low[u]
  <2> HIDE DEF calls
  <2>1. CASE depth = 1
    <3>1. low = s.low
      BY <1>3, <2>1
    <3> HIDE DEF low
    <3> QED BY <1>2, <2>1, <3>1
  <2>2. CASE depth > 1
    <3>1. low = [s.low EXCEPT ![s.calls[depth - 1].node]
                                = MinOf(s.low[s.calls[depth - 1].node], s.low[v])]
      BY <1>3, <2>2
    <3>2. \A a, b \in Nat : MinOf(a, b) \in Nat
      BY DEF MinOf
    <3>3. s.calls[depth - 1].node \in V /\ v \in V
      BY <1>2, <2>2
    <3> HIDE DEF low, v
    <3> QED BY <1>2, <2>2, <3>1, <3>2, <3>3
  <2>3. depth = 1 \/ depth > 1
    <3>1. depth \in Nat \ {0}
      BY <1>2
    <3> HIDE DEF depth
    <3> QED BY <3>1
  <2> HIDE DEF low, v, depth
  <2> QED BY <2>1, <2>2, <2>3
<1>5. /\ at \in 1 .. Len(s.stack) /\ s.stack[at] = v
      /\ scc = Segment(s, v)
      /\ s.onStack \ scc = {s.stack[i] : i \in 1 .. at - 1}
  <2>1. v \in s.onStack
    <3>1. depth \in DOMAIN s.calls
      BY <1>2
    <3>2. v \in Gray(s)
      BY <1>2, <3>1 DEF Gray
    <3> QED BY <3>2 DEF OrderInv
  <2>2. s.onStack = {s.stack[i] : i \in 1 .. Len(s.stack)}
    BY <1>2 DEF OrderInv
  <2>3. at \in 1 .. Len(s.stack) /\ s.stack[at] = v
    BY <1>2, <2>1, <2>2
  <2> HIDE DEF at, v
  <2>4. \A i \in 1 .. Len(s.stack) : i < at => s.index[s.stack[i]] < s.index[v]
    BY <1>2, <2>3 DEF OrderInv
  <2>5. \A i \in 1 .. Len(s.stack) : i >= at => s.index[s.stack[i]] >= s.index[v]
    <3>1. \A i \in 1 .. Len(s.stack) : s.index[s.stack[i]] \in Nat
      BY <1>2
    <3>2. \A i \in 1 .. Len(s.stack) : i > at => s.index[v] < s.index[s.stack[i]]
      BY <1>2, <2>3 DEF OrderInv
    <3>3. \A i \in 1 .. Len(s.stack) : i >= at => i = at \/ i > at
      BY <1>2, <2>3
    <3> SUFFICES ASSUME NEW i \in 1 .. Len(s.stack), i >= at
                 PROVE  s.index[s.stack[i]] >= s.index[v]
      OBVIOUS
    <3>4. CASE i = at
      BY <2>3, <3>1, <3>4
    <3>5. CASE i > at
      BY <2>3, <3>1, <3>2, <3>5
    <3> QED BY <3>3, <3>4, <3>5
  <2>6. s.index[v] \in Nat /\ \A i \in 1 .. Len(s.stack) : s.index[s.stack[i]] \in Nat
    <3>1. \A i \in 1 .. Len(s.stack) : s.stack[i] \in V
      BY <1>2
    <3> QED BY <1>2, <2>3, <3>1
  <2>7. \A i \in 1 .. Len(s.stack) : i >= at <=> s.index[v] <= s.index[s.stack[i]]
    <3> SUFFICES ASSUME NEW i \in 1 .. Len(s.stack)
                 PROVE  i >= at <=> s.index[v] <= s.index[s.stack[i]]
      OBVIOUS
    <3>1. i >= at \/ i < at
      BY <2>3
    <3>2. s.index[v] \in Nat /\ s.index[s.stack[i]] \in Nat
      BY <2>6
    <3>3. CASE i >= at
      BY <2>5, <3>2, <3>3
    <3>4. CASE i < at
      BY <2>4, <2>3, <3>2, <3>4
    <3> QED BY <3>1, <3>3, <3>4
  <2>8. scc = {s.stack[i] : i \in {j \in 1 .. Len(s.stack) : j >= at}}
        /\ \A i : i \in 1 .. at - 1 <=> i \in 1 .. Len(s.stack) /\ ~(i >= at)
    BY <1>2, <2>3
  <2>9. Segment(s, v) = {x \in s.onStack : s.index[v] <= s.index[x]}
    BY DEF Segment
  <2> HIDE DEF scc
  <2>10. scc = Segment(s, v)
    BY <2>2, <2>7, <2>8, <2>9
  <2> QED BY <2>2, <2>3, <2>7, <2>8, <2>9, <2>10
<1>6. /\ DOMAIN t = DOMAIN s /\ SameGraph(s, t) /\ t.counter = s.counter /\ t.index = s.index
      /\ t.calls = calls /\ t.low = low
  <2> HIDE DEF calls, low, scc, at
  <2>1. /\ DOMAIN up = DOMAIN s /\ SameGraph(s, up) /\ up.counter = s.counter /\ up.index = s.index
        /\ up.calls = calls /\ up.low = low
    BY DEF IsSearch, SameGraph
  <2>2. /\ DOMAIN pop = DOMAIN up /\ SameGraph(up, pop) /\ pop.counter = up.counter /\ pop.index = up.index
        /\ pop.calls = up.calls /\ pop.low = up.low
    <3> HIDE DEF up
    <3> QED BY <2>1 DEF IsSearch, SameGraph
  <2> HIDE DEF up, pop
  <2> QED BY <2>1, <2>2 DEF SameGraph
<1>7. /\ t.onStack = IF Lowest(s, v) THEN s.onStack \ scc ELSE s.onStack
      /\ t.sccs = IF Lowest(s, v) THEN s.sccs \union {scc} ELSE s.sccs
      /\ t.stack = IF Lowest(s, v) THEN SubSeq(s.stack, 1, at - 1) ELSE s.stack
  <2> HIDE DEF calls, low, scc, at, v
  <2>1. /\ DOMAIN up = DOMAIN s /\ up.sccs = s.sccs /\ up.onStack = s.onStack /\ up.stack = s.stack
    BY DEF IsSearch
  <2>2. /\ pop.onStack = s.onStack \ scc /\ pop.sccs = s.sccs \union {scc}
        /\ pop.stack = SubSeq(s.stack, 1, at - 1)
    <3> HIDE DEF up
    <3> QED BY <2>1 DEF IsSearch
  <2> HIDE DEF up, pop
  <2> QED BY <2>1, <2>2 DEF Lowest
<1> HIDE DEF t, calls, low, scc
<1>8. \E k \in 0 .. Len(s.stack) : /\ t.stack = SubSeq(s.stack, 1, k)
                                   /\ t.onStack = {s.stack[i] : i \in 1 .. k}
  <2>1. CASE Lowest(s, v)
    <3>1. at - 1 \in 0 .. Len(s.stack)
      BY <1>2, <1>5
    <3> HIDE DEF at
    <3> QED BY <1>5, <1>7, <2>1, <3>1
  <2>2. CASE ~Lowest(s, v)
    <3>1. s.stack = SubSeq(s.stack, 1, Len(s.stack))
      BY <1>2
    <3>2. s.onStack = {s.stack[i] : i \in 1 .. Len(s.stack)}
      BY <1>2 DEF OrderInv
    <3>3. Len(s.stack) \in 0 .. Len(s.stack)
      BY <1>2
    <3>4. t.stack = s.stack /\ t.onStack = s.onStack
      BY <1>7, <2>2
    <3> HIDE DEF at, v
    <3> QED BY <3>1, <3>2, <3>3, <3>4
  <2> QED BY <2>1, <2>2
<1>9. IsSearch(V, t)
  <2>1. t.stack \in Seq(V)
    BY <1>2, <1>8
  <2>2. t.onStack \in SUBSET V
    BY <1>7 DEF IsSearch
  <2>3. t.sccs \in SUBSET (SUBSET V)
    BY <1>5, <1>7 DEF IsSearch, Segment
  <2> QED BY <1>3, <1>4, <1>6, <2>1, <2>2, <2>3 DEF IsSearch, SameGraph
<1> QED BY <1>1, <1>3, <1>4, <1>5, <1>6, <1>7, <1>8, <1>9 DEF Returned

LEMMA TurnedOrder ==
  ASSUME NEW V, NEW s, IsSearch(V, s), OrderInv(V, s), s.calls # <<>>,
         CallTop(s).pos <= Len(s.adj[CallTop(s).node]), NEW t, Turned(V, s, t)
  PROVE  OrderInv(V, t) /\ Gray(t) = Gray(s)
<1>1. /\ SameGraph(s, t)
      /\ t.counter = s.counter /\ t.index = s.index /\ t.stack = s.stack /\ t.onStack = s.onStack
  BY DEF Turned
<1>2. /\ DOMAIN s.calls = 1 .. Len(s.calls) /\ DOMAIN t.calls = 1 .. Len(s.calls)
      /\ Len(s.calls) \in Nat /\ s.index \in [V -> Nat]
      /\ \A i \in 1 .. Len(s.calls) : s.calls[i] \in Frames(V)
      /\ \A i \in 1 .. Len(s.calls) :
           t.calls[i] = IF i = Len(s.calls)
                        THEN [node |-> s.calls[i].node, pos |-> s.calls[i].pos + 1]
                        ELSE s.calls[i]
  <2>1. s.calls \in Seq(Frames(V)) /\ s.index \in [V -> Nat]
    BY DEF IsSearch
  <2>2. t.calls \in Seq(Frames(V)) /\ Len(t.calls) = Len(s.calls)
    BY DEF Turned, IsSearch
  <2> QED BY <2>1, <2>2 DEF Turned
<1>3. \A i \in 1 .. Len(s.calls) : /\ t.calls[i].node = s.calls[i].node
                                   /\ t.calls[i].pos = IF i = Len(s.calls) THEN s.calls[i].pos + 1
                                                       ELSE s.calls[i].pos
  <2> SUFFICES ASSUME NEW i \in 1 .. Len(s.calls)
               PROVE  /\ t.calls[i].node = s.calls[i].node
                      /\ t.calls[i].pos = IF i = Len(s.calls) THEN s.calls[i].pos + 1
                                          ELSE s.calls[i].pos
    OBVIOUS
  <2>1. CASE i = Len(s.calls)
    <3>1. t.calls[i] = [node |-> s.calls[i].node, pos |-> s.calls[i].pos + 1]
      BY <1>2, <2>1
    <3> QED BY <2>1, <3>1
  <2>2. CASE i # Len(s.calls)
    BY <1>2, <2>2
  <2> QED BY <2>1, <2>2
<1>4. Gray(t) = Gray(s)
  BY <1>2, <1>3 DEF Gray
<1>5. \A i \in DOMAIN t.calls : t.calls[i].pos <= Len(t.adj[t.calls[i].node]) + 1
  <2> SUFFICES ASSUME NEW i \in 1 .. Len(s.calls)
               PROVE  t.calls[i].pos <= Len(s.adj[s.calls[i].node]) + 1
    BY <1>1, <1>2, <1>3 DEF SameGraph
  <2>1. s.calls[i].node \in V /\ s.calls[i].pos \in Nat
    BY <1>2 DEF Frames
  <2>2. Len(s.adj[s.calls[i].node]) \in Nat
    BY <2>1 DEF IsSearch
  <2>3. CASE i = Len(s.calls)
    <3>1. s.calls[i].pos <= Len(s.adj[s.calls[i].node])
      BY <2>3 DEF CallTop
    <3>2. t.calls[i].pos = s.calls[i].pos + 1
      BY <1>3, <2>3
    <3> QED BY <2>1, <2>2, <3>1, <3>2
  <2>4. CASE i # Len(s.calls)
    BY <1>2, <1>3, <2>4 DEF OrderInv
  <2> QED BY <2>3, <2>4
<1>6. \A i, j \in DOMAIN t.calls : i < j => t.index[t.calls[i].node] < t.index[t.calls[j].node]
  BY <1>1, <1>2, <1>3 DEF OrderInv
<1> QED BY <1>1, <1>4, <1>5, <1>6 DEF OrderInv

LEMMA LoweredOrder ==
  ASSUME NEW V, NEW s, OrderInv(V, s), NEW v, NEW l, NEW t, Lowered(V, s, t, v, l)
  PROVE  OrderInv(V, t) /\ Gray(t) = Gray(s)
<1>1. /\ t.adj = s.adj /\ t.counter = s.counter /\ t.index = s.index /\ t.stack = s.stack
      /\ t.onStack = s.onStack /\ t.calls = s.calls
  BY DEF Lowered, SameGraph
<1>2. Gray(t) = Gray(s)
  BY <1>1 DEF Gray
<1> QED BY <1>1, <1>2 DEF OrderInv

LEMMA ReturnedOrder ==
  ASSUME NEW V, NEW s, IsSearch(V, s), OrderInv(V, s), s.calls # <<>>, NEW t, Returned(V, s, t)
  PROVE  /\ Gray(t) = Gray(s) \ {CallTop(s).node}
         /\ OrderInv(V, t)
<1> DEFINE v == CallTop(s).node
           depth == Len(s.calls)
<1>1. /\ IsSearch(V, t) /\ SameGraph(s, t) /\ t.counter = s.counter /\ t.index = s.index
      /\ Len(t.calls) = depth - 1 /\ \A i \in 1 .. depth - 1 : t.calls[i] = s.calls[i]
      /\ t.onStack = IF Lowest(s, v) THEN s.onStack \ Segment(s, v) ELSE s.onStack
  BY DEF Returned
<1>2. PICK k \in 0 .. Len(s.stack) : /\ t.stack = SubSeq(s.stack, 1, k)
                                     /\ t.onStack = {s.stack[i] : i \in 1 .. k}
  BY DEF Returned
<1>3. /\ s.calls \in Seq(Frames(V)) /\ t.calls \in Seq(Frames(V)) /\ s.stack \in Seq(V)
      /\ s.index \in [V -> Nat]
  BY <1>1 DEF IsSearch
<1>4. /\ depth \in Nat \ {0} /\ DOMAIN s.calls = 1 .. depth /\ DOMAIN t.calls = 1 .. depth - 1
      /\ Len(s.stack) \in Nat /\ DOMAIN s.stack = 1 .. Len(s.stack)
      /\ DOMAIN t.stack = 1 .. k /\ \A i \in 1 .. k : t.stack[i] = s.stack[i]
  BY <1>1, <1>2, <1>3
<1>5. v = s.calls[depth].node /\ v \in Gray(s)
      /\ \A i \in 1 .. depth : s.calls[i].node = v <=> i = depth
  BY <1>4, GrayTop DEF CallTop
<1> HIDE DEF depth, v
<1>6. Gray(t) = Gray(s) \ {v}
  <2>1. Gray(t) = {s.calls[i].node : i \in 1 .. depth - 1}
    BY <1>1, <1>4 DEF Gray
  <2>2. Gray(s) = {s.calls[i].node : i \in 1 .. depth}
    BY <1>4 DEF Gray
  <2>3. \A i : i \in 1 .. depth <=> i \in 1 .. depth - 1 \/ i = depth
    BY <1>4
  <2>4. \A i \in 1 .. depth - 1 : i # depth
    BY <1>4
  <2> QED BY <1>5, <2>1, <2>2, <2>3, <2>4
<1>7. t.onStack = {t.stack[i] : i \in DOMAIN t.stack}
  BY <1>2, <1>4
<1>8. t.onStack \subseteq s.onStack
  BY <1>1
<1>9. \A i, j \in DOMAIN t.stack : i < j => t.index[t.stack[i]] < t.index[t.stack[j]]
  <2>1. \A i \in 1 .. k : i \in DOMAIN s.stack
    BY <1>4
  <2> QED BY <1>1, <1>4, <2>1 DEF OrderInv
<1>10. Gray(t) \subseteq t.onStack
  <2> SUFFICES ASSUME NEW u \in Gray(s), u # v PROVE u \in t.onStack
    BY <1>6
  <2>1. u \in s.onStack /\ s.index[u] < s.index[v] /\ s.index[u] \in Nat /\ s.index[v] \in Nat
    <3>1. u \in s.onStack /\ s.index[u] < s.index[v]
      BY GrayTop DEF OrderInv, v
    <3>2. u \in V /\ v \in V
      BY <1>5, <3>1 DEF OrderInv, IsSearch
    <3> QED BY <1>3, <3>1, <3>2
  <2> QED BY <1>1, <2>1 DEF Segment
<1>11. /\ \A i, j \in DOMAIN t.calls : i < j => t.index[t.calls[i].node] < t.index[t.calls[j].node]
       /\ \A i \in DOMAIN t.calls : t.calls[i].pos <= Len(t.adj[t.calls[i].node]) + 1
  <2>1. \A i \in 1 .. depth - 1 : i \in DOMAIN s.calls /\ t.calls[i] = s.calls[i]
    BY <1>1, <1>4
  <2>2. t.adj = s.adj
    BY <1>1 DEF SameGraph
  <2> QED BY <1>1, <1>4, <2>1, <2>2 DEF OrderInv
<1> QED BY <1>1, <1>6, <1>7, <1>8, <1>9, <1>10, <1>11 DEF OrderInv, v
-----------------------------------------------------------------------------
(* The edges looked at.                                                      *)

LEMMA SuccType ==
  ASSUME NEW V, NEW s, IsSearch(V, s), NEW x \in V
  PROVE  /\ Succ(s, x) \subseteq V /\ Len(s.adj[x]) \in Nat /\ DOMAIN s.adj[x] = 1 .. Len(s.adj[x])
BY DEF IsSearch, Succ

LEMMA DiscoveredLooked ==
  ASSUME NEW V, NEW s, IsSearch(V, s), OrderInv(V, s), NEW w \in V, s.index[w] = 0,
         NEW t, Discovered(V, s, t, w)
  PROVE  Gray(t) = Gray(s) \union {w} /\ \A x \in V : Looked(t, x) = Looked(s, x)
<1>1. /\ SameGraph(s, t) /\ t.index = [s.index EXCEPT ![w] = s.counter]
      /\ t.calls = Append(s.calls, [node |-> w, pos |-> 1])
  BY DEF Discovered
<1>2. /\ s.calls \in Seq(Frames(V)) /\ s.index \in [V -> Nat] /\ s.counter > 0
      /\ [node |-> w, pos |-> 1] \in Frames(V)
  BY DEF IsSearch, Frames
<1>3. /\ DOMAIN s.calls = 1 .. Len(s.calls) /\ Len(s.calls) \in Nat
      /\ DOMAIN t.calls = 1 .. Len(s.calls) + 1
      /\ \A i \in 1 .. Len(s.calls) : t.calls[i] = s.calls[i]
      /\ t.calls[Len(s.calls) + 1] = [node |-> w, pos |-> 1]
  <2>1. DOMAIN s.calls = 1 .. Len(s.calls)
    BY <1>2
  <2> QED BY <1>1, <1>2, <2>1, AppendFacts
<1>4. \A i : i \in DOMAIN t.calls <=> i \in DOMAIN s.calls \/ i = Len(s.calls) + 1
  BY <1>3
<1>5. Gray(t) = Gray(s) \union {w}
  BY <1>3, <1>4 DEF Gray
<1>6. w \notin Gray(s)
  BY DEF OrderInv
<1>7. ASSUME NEW x \in V PROVE Looked(t, x) = Looked(s, x)
  <2>1. Succ(t, x) = Succ(s, x) /\ t.adj = s.adj
    BY <1>1 DEF SameGraph, Succ
  <2>2. CASE x = w
    <3>1. Looked(s, x) = {}
      BY <2>2 DEF Looked
    <3>2. Looked(t, x) = {}
      BY <1>3, <1>4, <2>2 DEF Looked
    <3> QED BY <3>1, <3>2
  <2>3. CASE x # w
    <3>1. t.index[x] = s.index[x]
      BY <1>1, <1>2, <2>3
    <3>2. \A i \in DOMAIN t.calls : t.calls[i].node = x => i \in DOMAIN s.calls
      BY <1>3, <1>4, <2>3
    <3>3. \A i \in DOMAIN s.calls : i \in DOMAIN t.calls /\ t.calls[i] = s.calls[i]
      BY <1>3, <1>4
    <3> QED BY <2>1, <3>1, <3>2, <3>3 DEF Looked
  <2> QED BY <2>2, <2>3
<1> QED BY <1>5, <1>7

LEMMA TurnedLooked ==
  ASSUME NEW V, NEW s, IsSearch(V, s), OrderInv(V, s), s.calls # <<>>, NEW t, Turned(V, s, t),
         NEW v, v = CallTop(s).node, CallTop(s).pos <= Len(s.adj[v])
  PROVE  /\ s.adj[v][CallTop(s).pos] \in Succ(s, v)
         /\ \A x \in V : Looked(t, x) = IF x = v THEN Looked(s, x) \union {s.adj[v][CallTop(s).pos]}
                                        ELSE Looked(s, x)
<1> DEFINE depth == Len(s.calls)
           pos == CallTop(s).pos
<1>1. /\ SameGraph(s, t) /\ t.index = s.index
      /\ \A i \in 1 .. depth :
           t.calls[i] = IF i = depth THEN [node |-> s.calls[i].node, pos |-> s.calls[i].pos + 1]
                        ELSE s.calls[i]
  BY DEF Turned
<1>2. /\ DOMAIN s.calls = 1 .. depth /\ DOMAIN t.calls = 1 .. depth /\ depth \in Nat \ {0}
  BY DEF Turned, IsSearch
<1>3. /\ v \in V /\ pos \in Nat \ {0} /\ v \in s.onStack /\ s.index[v] > 0
      /\ \A i \in DOMAIN s.calls : s.calls[i].node = v <=> i = depth
      /\ v = s.calls[depth].node /\ pos = s.calls[depth].pos
  <2>1. v \in s.onStack
    BY GrayTop DEF OrderInv
  <2> QED BY <2>1, GrayTop DEF OrderInv, CallTop
<1>4. pos \in DOMAIN s.adj[v] /\ DOMAIN s.adj[v] = 1 .. Len(s.adj[v])
  BY <1>3, SuccType
<1>5. depth \in DOMAIN s.calls /\ t.calls[depth].node = v /\ t.calls[depth].pos = pos + 1
  <2>1. depth \in 1 .. depth
    BY <1>2
  <2>2. t.calls[depth] = [node |-> v, pos |-> pos + 1]
    BY <1>1, <1>3, <2>1
  <2> QED BY <1>2, <2>1, <2>2
<1>6. \A i \in DOMAIN s.calls : i # depth => t.calls[i] = s.calls[i]
  BY <1>1, <1>2
<1> HIDE DEF depth, pos
<1>7. ASSUME NEW x \in V, x # v PROVE Looked(t, x) = Looked(s, x)
  <2>1. Succ(t, x) = Succ(s, x) /\ t.adj = s.adj
    BY <1>1 DEF SameGraph, Succ
  <2>2. \A i \in DOMAIN s.calls : s.calls[i].node = x => i # depth
    BY <1>3, <1>7
  <2>3. \A i \in DOMAIN t.calls : t.calls[i].node = x => i # depth
    BY <1>5, <1>7
  <2> QED BY <1>1, <1>2, <1>6, <2>1, <2>2, <2>3 DEF Looked
<1>8. Looked(t, v) = Looked(s, v) \union {s.adj[v][pos]}
  <2>1. Succ(t, v) = Succ(s, v) /\ t.adj = s.adj
    BY <1>1 DEF SameGraph, Succ
  <2>2. Looked(s, v) = {y \in Succ(s, v) : \E k \in 1 .. pos - 1 : s.adj[v][k] = y}
    BY <1>2, <1>3, <1>5 DEF Looked
  <2>3. \A i \in DOMAIN t.calls : t.calls[i].node = v <=> i = depth
    <3>1. \A i \in DOMAIN t.calls : i # depth => t.calls[i].node # v
      BY <1>2, <1>3, <1>6
    <3> QED BY <1>5, <3>1
  <2>4. Looked(t, v) = {y \in Succ(s, v) : \E k \in 1 .. pos : s.adj[v][k] = y}
    <3>1. \A k : k \in 1 .. pos + 1 - 1 <=> k \in 1 .. pos
      BY <1>3
    <3> QED BY <1>1, <1>2, <1>3, <1>5, <2>1, <2>3, <3>1 DEF Looked
  <2>5. \A k : k \in 1 .. pos <=> k \in 1 .. pos - 1 \/ k = pos
    BY <1>3
  <2>6. s.adj[v][pos] \in Succ(s, v)
    BY <1>4 DEF Succ
  <2> QED BY <2>2, <2>4, <2>5, <2>6
<1> QED BY <1>4, <1>7, <1>8 DEF Succ, pos

LEMMA LoweredLooked ==
  ASSUME NEW V, NEW s, NEW v, NEW l, NEW t, Lowered(V, s, t, v, l)
  PROVE  \A x \in V : Looked(t, x) = Looked(s, x)
BY DEF Lowered, SameGraph, Looked, Succ

LEMMA BlackLooked ==
  ASSUME NEW s, NEW x, s.index[x] > 0, x \notin Gray(s)
  PROVE  Looked(s, x) = Succ(s, x)
BY DEF Looked, Gray

LEMMA ReturnedLooked ==
  ASSUME NEW V, NEW s, IsSearch(V, s), OrderInv(V, s), s.calls # <<>>, NEW t, Returned(V, s, t),
         NEW v, v = CallTop(s).node, CallTop(s).pos > Len(s.adj[v])
  PROVE  \A x \in V : Looked(t, x) = Looked(s, x)
<1> DEFINE depth == Len(s.calls)
<1>1. /\ SameGraph(s, t) /\ t.index = s.index /\ IsSearch(V, t)
      /\ Len(t.calls) = depth - 1 /\ \A i \in 1 .. depth - 1 : t.calls[i] = s.calls[i]
  BY DEF Returned
<1>2. /\ DOMAIN s.calls = 1 .. depth /\ DOMAIN t.calls = 1 .. depth - 1 /\ depth \in Nat \ {0}
  BY <1>1 DEF IsSearch
<1>3. /\ v \in V /\ v \in s.onStack /\ s.index[v] > 0 /\ v \in Gray(s)
      /\ \A i \in DOMAIN s.calls : s.calls[i].node = v <=> i = depth
      /\ s.calls[depth].pos > Len(s.adj[v]) /\ s.calls[depth].pos \in Nat
  <2>1. v \in s.onStack
    BY GrayTop DEF OrderInv
  <2> QED BY <2>1, GrayTop DEF OrderInv, CallTop
<1>4. \A i : i \in DOMAIN s.calls /\ i # depth <=> i \in DOMAIN t.calls
  BY <1>2
<1>5. Gray(t) = Gray(s) \ {v}
  BY ReturnedOrder
<1> HIDE DEF depth
<1>6. \A x : Succ(t, x) = Succ(s, x) /\ t.adj = s.adj
  BY <1>1 DEF SameGraph, Succ
<1>7. ASSUME NEW x \in V, x # v PROVE Looked(t, x) = Looked(s, x)
  <2>1. \A i \in DOMAIN s.calls : s.calls[i].node = x => i \in DOMAIN t.calls
    BY <1>3, <1>4, <1>7
  <2>2. \A i \in DOMAIN t.calls : i \in DOMAIN s.calls /\ t.calls[i] = s.calls[i]
    BY <1>1, <1>2, <1>4
  <2> QED BY <1>1, <1>6, <2>1, <2>2 DEF Looked
<1>8. Looked(t, v) = Looked(s, v)
  <2>1. Looked(t, v) = Succ(s, v)
    BY <1>1, <1>3, <1>5, <1>6, BlackLooked
  <2>2. \A k \in DOMAIN s.adj[v] : k \in 1 .. s.calls[depth].pos - 1
    BY <1>3, SuccType
  <2>3. Succ(s, v) \subseteq Looked(s, v)
    BY <1>2, <1>3, <2>2 DEF Looked, Succ
  <2> QED BY <2>1, <2>3 DEF Looked
<1> QED BY <1>7, <1>8
-----------------------------------------------------------------------------
(* The adjacency lists are the graph's edges without its loops.              *)
Faithful(g, s) ==
  \A x, y \in NodesOf(g) : y \in Succ(s, x) <=> x # y /\ <<x, y>> \in Links(g)

(* What is seen is discovered; a node with a known component leads only to  *)
(* such nodes.                                                               *)
Seen(V, s) == \A x \in V : \A y \in Looked(s, x) : s.index[y] > 0
DoneInv(s) == \A x \in Done(s) : Succ(s, x) \subseteq Done(s)

(* A call reaches what was put on the stack after it; everything on the     *)
(* stack reaches a call before it; a low link is the index of a node on the *)
(* stack that is reached.                                                    *)
CallsReach(g, s) ==
  \A u \in Gray(s), v \in s.onStack : s.index[u] <= s.index[v] => v \in Reach(g, u)
ReachesCall(g, s) ==
  \A v \in s.onStack : \E u \in Gray(s) : s.index[u] <= s.index[v] /\ u \in Reach(g, v)
LowIsReached(g, s) ==
  \A v \in s.onStack : /\ s.low[v] <= s.index[v]
                       /\ \E y \in s.onStack : s.index[y] = s.low[v] /\ y \in Reach(g, v)

(* The last call made before x; its low link is below all that x has seen.  *)
Nearest(s, v, x) ==
  /\ v \in Gray(s) /\ s.index[v] <= s.index[x]
  /\ \A u \in Gray(s) : s.index[u] <= s.index[v] \/ s.index[x] < s.index[u]
LowInv(s) ==
  \A v \in Gray(s), x \in s.onStack : Nearest(s, v, x) =>
    \A y \in Looked(s, x) \intersect s.onStack : s.low[v] <= s.index[y]

SccInv(g, s) ==
  /\ UNION s.sccs = Done(s)
  /\ \A c \in s.sccs : \E v \in NodesOf(g) : c = Class(g, v)

(* What is known of the search but for what is seen.                         *)
Known(g, s) ==
  /\ IsSearch(NodesOf(g), s) /\ OrderInv(NodesOf(g), s) /\ DoneInv(s)
  /\ CallsReach(g, s) /\ ReachesCall(g, s) /\ LowIsReached(g, s) /\ SccInv(g, s)

(* The edges read so far.                                                    *)
Taken(g, s, x, y) == \E i \in 1 .. s.read : g.edges[i].source = x /\ g.edges[i].target = y
Untouched(s) ==
  /\ \A v \in DOMAIN s.index : s.index[v] = 0
  /\ s.stack = <<>> /\ s.onStack = {} /\ s.calls = <<>> /\ s.sccs = {} /\ s.phase = "search"
ReadInv(g, s) ==
  /\ s.read <= Len(g.edges)
  /\ \A x, y \in NodesOf(g) : y \in Succ(s, x) <=> x # y /\ Taken(g, s, x, y)
  /\ s.loops = {x \in NodesOf(g) : Taken(g, s, x, x)}
  /\ s.kinds = {<<g.edges[i].source, g.edges[i].target, g.edges[i].kind>> :
                 i \in {j \in 1 .. s.read : {g.edges[j].source, g.edges[j].target} \subseteq NodesOf(g)}}
  /\ s.read < Len(g.edges) => Untouched(s)

ReportInv(g, s) ==
  s.phase = "reported" =>
    /\ s.read = Len(g.edges) /\ s.calls = <<>> /\ \A v \in NodesOf(g) : s.index[v] # 0
    /\ s.cycles = Cycles(s) /\ s.hubs = HubScore(g)

SearchInv(g, s) ==
  Known(g, s) /\ Seen(NodesOf(g), s) /\ LowInv(s) /\ ReadInv(g, s) /\ ReportInv(g, s)
-----------------------------------------------------------------------------
LEMMA ReachRefl ==
  ASSUME NEW g, NEW v \in NodesOf(g)
  PROVE  v \in Reach(g, v)
BY DEF Reach

LEMMA ReachLink ==
  ASSUME NEW g, NEW v, NEW x \in Reach(g, v), NEW y, <<x, y>> \in Links(g)
  PROVE  y \in Reach(g, v)
<1>1. y \in NodesOf(g)
  BY DEF Links
<1>2. ASSUME NEW S \in SUBSET NodesOf(g), v \in S, Closed(g, S) PROVE y \in S
  <2>1. x \in S
    BY <1>2 DEF Reach
  <2>2. \A l \in Links(g) : l[1] \in S => l[2] \in S
    BY <1>2 DEF Closed
  <2>3. <<x, y>>[1] \in S => <<x, y>>[2] \in S
    BY <2>2
  <2> QED BY <2>1, <2>3
<1> QED BY <1>1, <1>2 DEF Reach

LEMMA ReachTrans ==
  ASSUME NEW g, NEW v, NEW x \in Reach(g, v), NEW y \in Reach(g, x)
  PROVE  y \in Reach(g, v)
BY DEF Reach

LEMMA ReachClosed ==
  ASSUME NEW g, NEW S \in SUBSET NodesOf(g), Closed(g, S), NEW v \in S
  PROVE  Reach(g, v) \subseteq S
BY DEF Reach

LEMMA SuccReached ==
  ASSUME NEW g, NEW s, IsSearch(NodesOf(g), s), Faithful(g, s), NEW v \in NodesOf(g), NEW y \in Succ(s, v)
  PROVE  y \in NodesOf(g) /\ <<v, y>> \in Links(g) /\ y \in Reach(g, v)
<1>1. y \in NodesOf(g)
  BY SuccType
<1>2. <<v, y>> \in Links(g)
  BY <1>1 DEF Faithful
<1> QED BY <1>1, <1>2, ReachRefl, ReachLink

LEMMA FollowedClosed ==
  ASSUME NEW g, NEW s, IsSearch(NodesOf(g), s), Faithful(g, s), NEW S \in SUBSET NodesOf(g),
         \A x \in S : Succ(s, x) \subseteq S
  PROVE  Closed(g, S)
<1> SUFFICES ASSUME NEW l \in Links(g), l[1] \in S PROVE l[2] \in S
  BY DEF Closed
<1>1. l[1] \in NodesOf(g) /\ l[2] \in NodesOf(g) /\ l = <<l[1], l[2]>>
  BY DEF Links
<1>2. CASE l[1] = l[2]
  BY <1>2
<1>3. CASE l[1] # l[2]
  BY <1>1, <1>3 DEF Faithful
<1> QED BY <1>2, <1>3

LEMMA Members ==
  ASSUME NEW V, NEW s, IsSearch(V, s), OrderInv(V, s)
  PROVE  /\ Gray(s) \subseteq s.onStack /\ s.onStack \subseteq V /\ Done(s) \subseteq V
         /\ \A x \in V : s.index[x] \in Nat /\ s.low[x] \in Nat
         /\ \A x \in s.onStack : s.index[x] > 0 /\ x \notin Done(s)
         /\ \A x \in V : s.index[x] > 0 => x \in s.onStack \/ x \in Done(s)
         /\ \A x, y \in V : s.index[x] = s.index[y] /\ s.index[x] > 0 => x = y
BY DEF IsSearch, OrderInv, Done

(* A node is discovered which every call under way reaches.                  *)
LEMMA NewNode ==
  ASSUME NEW g, NEW s, Known(g, s), NEW w \in NodesOf(g), s.index[w] = 0,
         \A u \in Gray(s) : w \in Reach(g, u),
         \A x \in NodesOf(g) : \A y \in Looked(s, x) : s.index[y] > 0 \/ y = w,
         \A v \in Gray(s), x \in s.onStack : Nearest(s, v, x) =>
           \A y \in Looked(s, x) \intersect s.onStack : s.low[v] <= s.index[y],
         NEW t, Discovered(NodesOf(g), s, t, w)
  PROVE  Known(g, t) /\ Seen(NodesOf(g), t) /\ LowInv(t)
<1> DEFINE V == NodesOf(g)
<1>1. IsSearch(V, s) /\ OrderInv(V, s) /\ IsSearch(V, t) /\ OrderInv(V, t)
  BY DiscoverOrder DEF Known, Discovered
<1>2. /\ t.adj = s.adj /\ t.index = [s.index EXCEPT ![w] = s.counter]
      /\ t.low = [s.low EXCEPT ![w] = s.counter]
      /\ t.onStack = s.onStack \union {w} /\ t.sccs = s.sccs
  BY DEF Discovered, SameGraph
<1>3. s.counter \in Nat /\ s.counter > 0 /\ s.index \in [V -> Nat] /\ s.low \in [V -> Nat]
  BY <1>1 DEF IsSearch
<1>4. Gray(t) = Gray(s) \union {w} /\ \A x \in V : Looked(t, x) = Looked(s, x) /\ Succ(t, x) = Succ(s, x)
  BY <1>1, <1>2, DiscoveredLooked DEF Succ
<1>5. /\ Gray(s) \subseteq s.onStack /\ s.onStack \subseteq V /\ w \notin s.onStack
      /\ \A x \in V : s.index[x] < s.counter
  BY <1>1, Members DEF OrderInv
<1>6. /\ t.index[w] = s.counter /\ t.low[w] = s.counter
      /\ \A x \in s.onStack : t.index[x] = s.index[x] /\ t.low[x] = s.low[x] /\ s.index[x] \in Nat
                              /\ s.low[x] \in Nat /\ s.index[x] < s.counter
  BY <1>2, <1>3, <1>5
<1>7. Done(t) = Done(s) /\ w \notin Done(s)
  BY <1>2, <1>3, <1>5 DEF Done
<1>8. Looked(s, w) = {}
  BY DEF Looked
<1>9. Seen(V, t)
  <2> SUFFICES ASSUME NEW x \in V, NEW y \in Looked(s, x) PROVE t.index[y] > 0
    BY <1>4 DEF Seen
  <2>1. y \in V
    BY <1>1, SuccType DEF Looked
  <2> QED BY <1>2, <1>3, <2>1
<1>10. DoneInv(t)
  <2>1. Done(s) \subseteq V
    BY <1>1, Members
  <2> QED BY <1>4, <1>7, <2>1 DEF Known, DoneInv
<1>11. CallsReach(g, t)
  <2> SUFFICES ASSUME NEW u \in Gray(t), NEW v \in t.onStack, t.index[u] <= t.index[v]
               PROVE  v \in Reach(g, u)
    BY DEF CallsReach
  <2>1. CASE v = w
    BY <1>4, <2>1, ReachRefl
  <2>2. CASE v # w
    <3>1. v \in s.onStack /\ t.index[v] < s.counter
      BY <1>2, <1>6, <2>2
    <3>2. u # w
      BY <1>3, <1>6, <3>1
    <3>3. u \in Gray(s) /\ u \in s.onStack
      BY <1>4, <1>5, <3>2
    <3> QED BY <1>6, <3>1, <3>3 DEF Known, CallsReach
  <2> QED BY <2>1, <2>2
<1>12. ReachesCall(g, t)
  <2> SUFFICES ASSUME NEW v \in t.onStack
               PROVE  \E u \in Gray(t) : t.index[u] <= t.index[v] /\ u \in Reach(g, v)
    BY DEF ReachesCall
  <2>1. CASE v = w
    BY <1>3, <1>4, <1>6, <2>1, ReachRefl
  <2>2. CASE v # w
    <3>1. v \in s.onStack
      BY <1>2, <2>2
    <3>2. PICK u \in Gray(s) : s.index[u] <= s.index[v] /\ u \in Reach(g, v)
      BY <3>1 DEF Known, ReachesCall
    <3> QED BY <1>4, <1>5, <1>6, <3>1, <3>2
  <2> QED BY <2>1, <2>2
<1>13. LowIsReached(g, t)
  <2> SUFFICES ASSUME NEW v \in t.onStack
               PROVE  /\ t.low[v] <= t.index[v]
                      /\ \E y \in t.onStack : t.index[y] = t.low[v] /\ y \in Reach(g, v)
    BY DEF LowIsReached
  <2>1. CASE v = w
    BY <1>3, <1>6, <2>1, ReachRefl
  <2>2. CASE v # w
    <3>1. v \in s.onStack
      BY <1>2, <2>2
    <3>2. s.low[v] <= s.index[v] /\ \E y \in s.onStack : s.index[y] = s.low[v] /\ y \in Reach(g, v)
      BY <3>1 DEF Known, LowIsReached
    <3> QED BY <1>2, <1>6, <3>1, <3>2
  <2> QED BY <2>1, <2>2
<1>14. LowInv(t)
  <2> SUFFICES ASSUME NEW v \in Gray(t), NEW x \in t.onStack, Nearest(t, v, x),
                      NEW y \in Looked(t, x), y \in t.onStack
               PROVE  t.low[v] <= t.index[y]
    BY DEF LowInv
  <2>1. x \in V /\ y \in Looked(s, x)
    BY <1>2, <1>4, <1>5
  <2>2. x \in s.onStack
    BY <1>2, <1>8, <2>1
  <2>3. t.index[v] <= t.index[x]
    BY DEF Nearest
  <2>4. v # w
    BY <1>3, <1>6, <2>2, <2>3
  <2>5. v \in Gray(s) /\ v \in s.onStack
    BY <1>4, <1>5, <2>4
  <2>6. Nearest(s, v, x)
    <3>1. \A u \in Gray(s) : t.index[u] <= t.index[v] \/ t.index[x] < t.index[u]
      BY <1>4 DEF Nearest
    <3> QED BY <1>5, <1>6, <2>2, <2>3, <2>5, <3>1 DEF Nearest
  <2>7. CASE y = w
    <3>1. s.low[v] <= s.index[v]
      BY <2>5 DEF Known, LowIsReached
    <3> QED BY <1>3, <1>6, <2>5, <2>7, <3>1
  <2>8. CASE y # w
    <3>1. y \in s.onStack
      BY <1>2, <2>8
    <3> QED BY <1>6, <2>1, <2>2, <2>5, <2>6, <3>1
  <2> QED BY <2>7, <2>8
<1>15. SccInv(g, t)
  BY <1>2, <1>7 DEF Known, SccInv
<1> QED BY <1>1, <1>9, <1>10, <1>11, <1>12, <1>13, <1>14, <1>15 DEF Known
-----------------------------------------------------------------------------
LEMMA SameMarks ==
  ASSUME NEW g, NEW s, Known(g, s), NEW t, IsSearch(NodesOf(g), t), OrderInv(NodesOf(g), t),
         t.adj = s.adj, t.index = s.index, t.onStack = s.onStack, t.sccs = s.sccs,
         Gray(t) = Gray(s), LowIsReached(g, t)
  PROVE  Known(g, t)
<1>1. Done(t) = Done(s) /\ \A x : Succ(t, x) = Succ(s, x)
  BY DEF Done, Succ
<1>2. DoneInv(t) /\ SccInv(g, t)
  BY <1>1 DEF Known, DoneInv, SccInv
<1>3. CallsReach(g, t)
  BY DEF Known, CallsReach
<1>4. ReachesCall(g, t)
  BY DEF Known, ReachesCall
<1> QED BY <1>2, <1>3, <1>4 DEF Known

(* A neighbour y of the node on top is looked at; it is new, or on the      *)
(* stack, or neither.                                                        *)
Advanced(s, t) ==
  LET v == CallTop(s).node
  IN  t = Advance(s, v, s.adj[v][CallTop(s).pos])

LEMMA NeighbourSeen ==
  ASSUME NEW g, NEW s, Known(g, s), Seen(NodesOf(g), s), LowInv(s), Faithful(g, s), s.calls # <<>>,
         NEW v, v = CallTop(s).node, CallTop(s).pos <= Len(s.adj[v]),
         NEW t, Advanced(s, t)
  PROVE  Known(g, t) /\ Seen(NodesOf(g), t) /\ LowInv(t)
         /\ SameGraph(s, t) /\ t.calls # <<>>
<1> DEFINE V == NodesOf(g)
           y == s.adj[v][CallTop(s).pos]
           m == Moved(s)
<1>1. IsSearch(V, s) /\ OrderInv(V, s)
  BY DEF Known
<1>2. Turned(V, s, m)
  BY <1>1, MovedEffect
<1>3. /\ IsSearch(V, m) /\ SameGraph(s, m) /\ m.adj = s.adj /\ m.index = s.index /\ m.low = s.low
      /\ m.onStack = s.onStack /\ m.sccs = s.sccs /\ Len(m.calls) = Len(s.calls)
  BY <1>2 DEF Turned, SameGraph
<1>4. OrderInv(V, m) /\ Gray(m) = Gray(s)
  BY <1>1, <1>2, TurnedOrder
<1>5. LowIsReached(g, m)
  BY <1>3 DEF Known, LowIsReached
<1>6. Known(g, m)
  BY <1>3, <1>4, <1>5, SameMarks
<1>7. /\ y \in Succ(s, v)
      /\ \A x \in V : Looked(m, x) = IF x = v THEN Looked(s, x) \union {y} ELSE Looked(s, x)
  BY <1>1, <1>2, TurnedLooked
<1>8. /\ v \in V /\ v \in Gray(s) /\ v \in s.onStack /\ s.onStack \subseteq V /\ Gray(s) \subseteq s.onStack
      /\ \A u \in Gray(s) : u # v => s.index[u] < s.index[v]
      /\ \A x \in V : s.index[x] \in Nat /\ s.low[x] \in Nat
  BY <1>1, GrayTop, Members
<1>9. y \in V /\ <<v, y>> \in Links(g) /\ y \in Reach(g, v)
  BY <1>1, <1>7, <1>8, SuccReached
<1>10. \A x \in V : \A z \in Looked(m, x) : z \in V /\ (m.index[z] > 0 \/ z = y)
  <2> SUFFICES ASSUME NEW x \in V, NEW z \in Looked(m, x) PROVE z \in V /\ (m.index[z] > 0 \/ z = y)
    OBVIOUS
  <2>1. z \in V
    BY <1>3, SuccType DEF Looked
  <2> QED BY <1>3, <1>7, <2>1 DEF Seen
<1>11. \A u, x : Nearest(m, u, x) <=> Nearest(s, u, x)
  BY <1>3, <1>4 DEF Nearest
<1>12. ASSUME NEW u \in Gray(m), NEW x \in m.onStack, Nearest(m, u, x),
              NEW z \in Looked(m, x), z \in m.onStack
       PROVE  m.low[u] <= m.index[z] \/ (u = v /\ z = y)
  <2>1. u \in Gray(s) /\ x \in s.onStack /\ z \in s.onStack /\ Nearest(s, u, x)
    BY <1>3, <1>4, <1>11, <1>12
  <2>2. x \in V
    BY <1>8, <2>1
  <2>3. CASE z \in Looked(s, x)
    BY <1>3, <2>1, <2>3 DEF LowInv
  <2>4. CASE z \notin Looked(s, x)
    <3>1. x = v /\ z = y
      BY <1>7, <2>2, <2>4
    <3>2. u = v
      BY <1>8, <2>1, <3>1 DEF Nearest
    <3> QED BY <3>1, <3>2
  <2> QED BY <2>3, <2>4
<1>13. t = IF s.index[y] = 0 THEN Discover(m, y)
           ELSE IF y \in s.onStack THEN [m EXCEPT !.low[v] = MinOf(@, s.index[y])] ELSE m
  BY DEF Advanced, Advance, Moved
<1>14. s.calls # <<>> /\ s.calls \in Seq(Frames(V)) /\ m.calls \in Seq(Frames(V))
  BY <1>1, <1>3 DEF IsSearch
<1> HIDE DEF m, y
<1>15. m.calls # <<>>
  BY <1>3, <1>14
<1>16. CASE s.index[y] = 0
  <2>1. Discovered(V, m, t, y)
    BY <1>3, <1>9, <1>13, <1>16, DiscoverEffect
  <2>2. y \notin m.onStack
    BY <1>1, <1>3, <1>16 DEF OrderInv
  <2>3. \A u \in Gray(m) : y \in Reach(g, u)
    <3> SUFFICES ASSUME NEW u \in Gray(s) PROVE y \in Reach(g, u)
      BY <1>4
    <3>1. s.index[u] <= s.index[v]
      BY <1>8
    <3>2. v \in Reach(g, u)
      BY <1>8, <3>1 DEF Known, CallsReach
    <3> QED BY <1>9, <3>2, ReachTrans
  <2>4. Known(g, t) /\ Seen(V, t) /\ LowInv(t)
    <3>1. \A x \in V : \A z \in Looked(m, x) : m.index[z] > 0 \/ z = y
      BY <1>10
    <3>2. \A u \in Gray(m), x \in m.onStack : Nearest(m, u, x) =>
            \A z \in Looked(m, x) \intersect m.onStack : m.low[u] <= m.index[z]
      BY <1>12, <2>2
    <3>3. m.index[y] = 0
      BY <1>3, <1>16
    <3> QED BY <1>6, <1>9, <2>1, <2>3, <3>1, <3>2, <3>3, NewNode
  <2>5. t.calls = Append(m.calls, [node |-> y, pos |-> 1]) /\ SameGraph(m, t)
    BY <2>1 DEF Discovered
  <2>6. t.calls # <<>>
    <3>1. [node |-> y, pos |-> 1] \in Frames(V)
      BY <1>9 DEF Frames
    <3>2. Len(t.calls) = Len(m.calls) + 1 /\ Len(m.calls) \in Nat
      BY <1>14, <2>5, <3>1, AppendFacts
    <3> QED BY <3>2
  <2> QED BY <1>3, <2>4, <2>5, <2>6 DEF SameGraph
<1>17. CASE s.index[y] # 0 /\ y \in s.onStack
  <2>1. Lowered(V, m, t, v, s.index[y])
    BY <1>3, <1>8, <1>9, <1>13, <1>17, LoweredEffect
  <2>2. /\ IsSearch(V, t) /\ SameGraph(m, t) /\ t.adj = m.adj /\ t.index = m.index
        /\ t.onStack = m.onStack /\ t.sccs = m.sccs /\ t.calls = m.calls
        /\ t.low = [m.low EXCEPT ![v] = MinOf(m.low[v], s.index[y])]
    BY <2>1 DEF Lowered, SameGraph
  <2>3. OrderInv(V, t) /\ Gray(t) = Gray(m)
    BY <1>4, <2>1, LoweredOrder
  <2>4. \A x \in V : Looked(t, x) = Looked(m, x)
    BY <2>1, LoweredLooked
  <2>5. /\ t.low[v] \in {s.low[v], s.index[y]} /\ t.low[v] <= s.low[v] /\ t.low[v] <= s.index[y]
        /\ \A x \in V : x # v => t.low[x] = s.low[x]
    <3>1. t.low = [s.low EXCEPT ![v] = MinOf(s.low[v], s.index[y])] /\ s.low \in [V -> Nat]
      BY <1>1, <1>3, <2>2 DEF IsSearch
    <3> QED BY <1>8, <1>9, <3>1 DEF MinOf
  <2>6. LowIsReached(g, t)
    <3> SUFFICES ASSUME NEW x \in s.onStack
                 PROVE  /\ t.low[x] <= s.index[x]
                        /\ \E z \in s.onStack : s.index[z] = t.low[x] /\ z \in Reach(g, x)
      BY <1>3, <2>2 DEF LowIsReached
    <3>1. s.low[x] <= s.index[x] /\ \E z \in s.onStack : s.index[z] = s.low[x] /\ z \in Reach(g, x)
      BY DEF Known, LowIsReached
    <3>2. CASE x # v
      BY <1>8, <2>5, <3>1, <3>2
    <3>3. CASE x = v
      <4>1. t.low[v] \in Nat
        BY <1>8, <1>9, <2>5
      <4>2. t.low[v] <= s.index[v]
        BY <1>8, <2>5, <3>1, <3>3, <4>1
      <4>3. \E z \in s.onStack : s.index[z] = t.low[v] /\ z \in Reach(g, v)
        BY <1>9, <1>17, <2>5, <3>1, <3>3
      <4> QED BY <3>3, <4>2, <4>3
    <3> QED BY <3>2, <3>3
  <2>7. Known(g, t)
    BY <1>6, <2>2, <2>3, <2>6, SameMarks
  <2>8. Seen(V, t)
    BY <1>3, <1>10, <1>17, <1>8, <2>2, <2>4 DEF Seen
  <2>9. LowInv(t)
    <3> SUFFICES ASSUME NEW u \in Gray(t), NEW x \in t.onStack, Nearest(t, u, x),
                        NEW z \in Looked(t, x), z \in t.onStack
                 PROVE  t.low[u] <= t.index[z]
      BY DEF LowInv
    <3>1. u \in Gray(m) /\ x \in m.onStack /\ z \in m.onStack /\ Nearest(m, u, x)
      BY <2>2, <2>3 DEF Nearest
    <3>2. x \in V /\ z \in V /\ u \in V /\ z \in Looked(m, x)
      BY <1>3, <1>4, <1>8, <2>4, <3>1
    <3>3. m.low[u] <= m.index[z] \/ (u = v /\ z = y)
      BY <1>12, <3>1, <3>2
    <3>4. t.low[u] \in Nat /\ s.low[u] \in Nat /\ s.index[z] \in Nat
      BY <1>8, <1>9, <2>5, <3>2
    <3>5. t.low[u] <= s.low[u]
      <4>1. CASE u = v
        BY <2>5, <4>1
      <4>2. CASE u # v
        BY <2>5, <3>2, <3>4, <4>2
      <4> QED BY <4>1, <4>2
    <3> QED BY <1>3, <2>2, <2>5, <3>3, <3>4, <3>5
  <2> QED BY <1>3, <1>15, <2>2, <2>7, <2>8, <2>9 DEF SameGraph
<1>18. CASE s.index[y] # 0 /\ y \notin s.onStack
  <2>1. t = m
    BY <1>13, <1>18
  <2>2. Seen(V, m)
    BY <1>3, <1>8, <1>9, <1>10, <1>18 DEF Seen
  <2>3. LowInv(m)
    BY <1>3, <1>12, <1>18 DEF LowInv
  <2> QED BY <1>3, <1>6, <1>15, <2>1, <2>2, <2>3
<1> QED BY <1>16, <1>17, <1>18
-----------------------------------------------------------------------------
(* What is on the stack from the node on top on is a class, and no edge     *)
(* leaves it but to nodes whose component is known.                          *)
LEMMA SegmentIsClass ==
  ASSUME NEW g, NEW s, Known(g, s), Seen(NodesOf(g), s), LowInv(s), Faithful(g, s), s.calls # <<>>,
         NEW v, v = CallTop(s).node, Looked(s, v) = Succ(s, v), Lowest(s, v)
  PROVE  /\ Segment(s, v) = Class(g, v)
         /\ \A x \in Done(s) \union Segment(s, v) : Succ(s, x) \subseteq Done(s) \union Segment(s, v)
<1> DEFINE V == NodesOf(g)
           C == Segment(s, v)
           D == Done(s) \union C
<1>1. IsSearch(V, s) /\ OrderInv(V, s)
  BY DEF Known
<1>2. /\ v \in V /\ v \in Gray(s) /\ v \in s.onStack /\ s.onStack \subseteq V /\ Gray(s) \subseteq s.onStack
      /\ \A u \in Gray(s) : u # v => s.index[u] < s.index[v]
      /\ \A x \in V : s.index[x] \in Nat /\ s.low[x] \in Nat
      /\ \A x \in V : s.index[x] > 0 => x \in s.onStack \/ x \in Done(s)
      /\ \A x \in s.onStack : s.index[x] > 0 /\ x \notin Done(s)
      /\ Done(s) \subseteq V
  BY <1>1, GrayTop, Members
<1>3. C \subseteq s.onStack /\ C \subseteq V /\ v \in C
  BY <1>2 DEF Segment
<1>4. ASSUME NEW x \in C PROVE Succ(s, x) \subseteq D
  <2> SUFFICES ASSUME NEW y \in Succ(s, x) PROVE y \in D
    OBVIOUS
  <2>1. x \in V /\ x \in s.onStack /\ s.index[x] > 0 /\ s.index[v] <= s.index[x]
    BY <1>2, <1>3 DEF Segment
  <2>2. Looked(s, x) = Succ(s, x)
    <3>1. CASE x \in Gray(s)
      <4>1. x = v
        BY <1>2, <2>1, <3>1
      <4> QED BY <4>1
    <3>2. CASE x \notin Gray(s)
      BY <2>1, <3>2, BlackLooked
    <3> QED BY <3>1, <3>2
  <2>3. y \in V /\ s.index[y] > 0
    BY <1>1, <2>1, <2>2, SuccType DEF Seen
  <2>4. Nearest(s, v, x)
    <3>1. \A u \in Gray(s) : s.index[u] <= s.index[v]
      BY <1>2
    <3> QED BY <1>2, <2>1, <3>1 DEF Nearest
  <2>5. CASE y \in s.onStack
    <3>1. s.low[v] <= s.index[y]
      BY <1>2, <2>1, <2>2, <2>4, <2>5 DEF LowInv
    <3> QED BY <2>5, <3>1 DEF Segment, Lowest
  <2> QED BY <1>2, <2>3, <2>5
<1>5. \A x \in D : Succ(s, x) \subseteq D
  BY <1>4 DEF Known, DoneInv
<1>6. Closed(g, D) /\ Closed(g, Done(s))
  <2>1. \A x \in Done(s) : Succ(s, x) \subseteq Done(s)
    BY DEF Known, DoneInv
  <2> QED BY <1>1, <1>2, <1>3, <1>5, <2>1, FollowedClosed
<1>7. C \subseteq Class(g, v)
  <2> SUFFICES ASSUME NEW x \in C PROVE x \in Class(g, v)
    OBVIOUS
  <2>1. x \in s.onStack /\ s.index[v] <= s.index[x]
    BY DEF Segment
  <2>2. x \in Reach(g, v)
    BY <1>2, <2>1 DEF Known, CallsReach
  <2>3. PICK u \in Gray(s) : s.index[u] <= s.index[x] /\ u \in Reach(g, x)
    BY <2>1 DEF Known, ReachesCall
  <2>4. s.index[u] <= s.index[v]
    BY <1>2
  <2>5. v \in Reach(g, u)
    BY <1>2, <2>4 DEF Known, CallsReach
  <2>6. v \in Reach(g, x)
    BY <2>3, <2>5, ReachTrans
  <2> QED BY <2>2, <2>6 DEF Class
<1>8. Class(g, v) \subseteq C
  <2> SUFFICES ASSUME NEW x \in Class(g, v), x \notin C PROVE FALSE
    OBVIOUS
  <2>1. x \in Reach(g, v) /\ v \in Reach(g, x)
    BY DEF Class
  <2>2. x \in D
    BY <1>2, <1>3, <1>6, <2>1, ReachClosed
  <2>3. x \in Done(s)
    BY <2>2
  <2>4. v \in Done(s)
    BY <1>2, <1>6, <2>1, <2>3, ReachClosed
  <2> QED BY <1>2, <2>4
<1> QED BY <1>5, <1>7, <1>8

LEMMA NodeFinished ==
  ASSUME NEW g, NEW s, Known(g, s), Seen(NodesOf(g), s), LowInv(s), Faithful(g, s), s.calls # <<>>,
         CallTop(s).pos > Len(s.adj[CallTop(s).node]), NEW t, Returned(NodesOf(g), s, t)
  PROVE  Known(g, t) /\ Seen(NodesOf(g), t) /\ LowInv(t)
<1> DEFINE V == NodesOf(g)
           v == CallTop(s).node
           depth == Len(s.calls)
           p == s.calls[depth - 1].node
<1>1. IsSearch(V, s) /\ OrderInv(V, s)
  BY DEF Known
<1>2. /\ IsSearch(V, t) /\ SameGraph(s, t) /\ t.adj = s.adj /\ t.index = s.index
      /\ Len(t.calls) = depth - 1 /\ \A i \in 1 .. depth - 1 : t.calls[i] = s.calls[i]
      /\ \A u \in V : t.low[u] = IF depth > 1 /\ u = p THEN MinOf(s.low[u], s.low[v]) ELSE s.low[u]
      /\ t.onStack = IF Lowest(s, v) THEN s.onStack \ Segment(s, v) ELSE s.onStack
      /\ t.sccs = IF Lowest(s, v) THEN s.sccs \union {Segment(s, v)} ELSE s.sccs
  BY DEF Returned, SameGraph
<1>3. OrderInv(V, t) /\ Gray(t) = Gray(s) \ {v} /\ \A x \in V : Looked(t, x) = Looked(s, x)
  BY <1>1, ReturnedOrder, ReturnedLooked
<1>4. /\ v \in V /\ v \in Gray(s) /\ v \in s.onStack /\ s.onStack \subseteq V /\ Gray(s) \subseteq s.onStack
      /\ \A u \in Gray(s) : u # v => s.index[u] < s.index[v]
      /\ \A x \in V : s.index[x] \in Nat /\ s.low[x] \in Nat
      /\ Done(s) \subseteq V
      /\ \A x \in s.onStack : s.index[x] > 0 /\ x \notin Done(s)
  BY <1>1, GrayTop, Members
<1>5. /\ depth \in Nat \ {0}
      /\ depth > 1 => p \in Gray(s) /\ p # v /\ \A u \in Gray(t) : u # p => s.index[u] < s.index[p]
      /\ Gray(t) # {} => depth > 1
  <2>1. /\ depth \in Nat \ {0} /\ DOMAIN s.calls = 1 .. depth /\ DOMAIN t.calls = 1 .. depth - 1
        /\ v = s.calls[depth].node
    BY <1>1, <1>2 DEF IsSearch, CallTop
  <2>2. \A i \in DOMAIN s.calls : s.calls[i].node = v <=> i = depth
    BY <1>1, GrayTop
  <2> HIDE DEF depth, v
  <2>3. Gray(t) # {} => depth > 1
    BY <2>1 DEF Gray
  <2>4. ASSUME depth > 1
        PROVE  p \in Gray(s) /\ p # v /\ \A u \in Gray(t) : u # p => s.index[u] < s.index[p]
    <3>1. depth - 1 \in DOMAIN s.calls /\ depth - 1 # depth /\ depth - 1 \in 1 .. depth - 1
      BY <2>1, <2>4
    <3>2. CallTop(t).node = p /\ t.calls # <<>>
      <4>1. Len(t.calls) = depth - 1 /\ t.calls[depth - 1] = s.calls[depth - 1]
        BY <1>2, <3>1 DEF depth
      <4>2. t.calls # <<>>
        BY <2>1, <3>1
      <4> QED BY <4>1, <4>2 DEF CallTop
    <3>3. \A u \in Gray(t) : u # p => t.index[u] < t.index[p]
      BY <1>2, <1>3, <3>2, GrayTop
    <3> QED BY <1>2, <2>2, <3>1, <3>3 DEF Gray
  <2> QED BY <2>1, <2>3, <2>4 DEF depth, v
<1>6. \A u \in V : t.low[u] \in Nat /\ t.low[u] <= s.low[u]
                   /\ (t.low[u] = s.low[u] \/ (depth > 1 /\ u = p /\ t.low[u] = s.low[v]))
                   /\ (depth > 1 /\ u = p => t.low[u] <= s.low[v])
  BY <1>2, <1>4 DEF MinOf
<1>7. /\ Seen(V, t)
      /\ \A x \in V : Succ(t, x) = Succ(s, x)
  BY <1>2, <1>3 DEF Seen, Succ
<1>8. Looked(s, v) = Succ(s, v)
  <2>1. v \notin Gray(t) /\ t.index[v] > 0
    BY <1>2, <1>3, <1>4
  <2> QED BY <1>3, <1>4, <1>7, <2>1, BlackLooked
<1>9. \A x \in s.onStack : /\ s.low[x] <= s.index[x]
                           /\ \E y \in s.onStack : s.index[y] = s.low[x] /\ y \in Reach(g, x)
  BY DEF Known, LowIsReached
<1> HIDE DEF v, p, depth
<1>10. CASE ~Lowest(s, v)
  <2>1. t.onStack = s.onStack /\ t.sccs = s.sccs /\ Done(t) = Done(s)
    BY <1>2, <1>10 DEF Done
  <2>2. PICK y \in s.onStack : s.index[y] = s.low[v] /\ y \in Reach(g, v)
    BY <1>4, <1>9
  <2>3. s.low[v] < s.index[v]
    BY <1>4, <1>9, <1>10 DEF Lowest
  <2>4. PICK u \in Gray(s) : s.index[u] <= s.index[y] /\ u \in Reach(g, y)
    BY DEF Known, ReachesCall
  <2>5. s.index[u] < s.index[v] /\ u \in Gray(t) /\ u \in Reach(g, v)
    <3>1. s.index[u] < s.index[v]
      BY <1>4, <2>2, <2>3, <2>4
    <3>2. u \in Reach(g, v)
      BY <2>2, <2>4, ReachTrans
    <3> QED BY <1>3, <1>4, <3>1, <3>2
  <2>6. /\ depth > 1 /\ p \in Gray(s) /\ p # v /\ s.index[p] < s.index[v] /\ p \in Gray(t)
        /\ \A z \in Gray(t) : z # p => s.index[z] < s.index[p]
    BY <1>3, <1>4, <1>5, <2>5
  <2>7. DoneInv(t) /\ SccInv(g, t)
    BY <1>4, <1>7, <2>1 DEF Known, DoneInv, SccInv
  <2>8. CallsReach(g, t)
    BY <1>2, <1>3, <2>1 DEF Known, CallsReach
  <2>9. ReachesCall(g, t)
    <3> SUFFICES ASSUME NEW x \in s.onStack
                 PROVE  \E w \in Gray(t) : s.index[w] <= s.index[x] /\ w \in Reach(g, x)
      BY <1>2, <2>1 DEF ReachesCall
    <3>1. PICK w \in Gray(s) : s.index[w] <= s.index[x] /\ w \in Reach(g, x)
      BY DEF Known, ReachesCall
    <3>2. CASE w # v
      BY <1>3, <3>1, <3>2
    <3>3. CASE w = v
      <4>1. u \in Reach(g, x)
        BY <2>5, <3>1, <3>3, ReachTrans
      <4>2. s.index[u] <= s.index[x]
        BY <1>4, <2>5, <3>1, <3>3
      <4> QED BY <2>5, <4>1, <4>2
    <3> QED BY <3>2, <3>3
  <2>10. LowIsReached(g, t)
    <3> SUFFICES ASSUME NEW x \in s.onStack
                 PROVE  /\ t.low[x] <= s.index[x]
                        /\ \E z \in s.onStack : s.index[z] = t.low[x] /\ z \in Reach(g, x)
      BY <1>2, <2>1 DEF LowIsReached
    <3>1. t.low[x] <= s.index[x]
      BY <1>4, <1>6, <1>9
    <3>2. CASE t.low[x] = s.low[x]
      BY <1>9, <3>1, <3>2
    <3>3. CASE x = p /\ t.low[x] = s.low[v]
      <4>1. v \in Reach(g, p)
        BY <1>4, <2>6 DEF Known, CallsReach
      <4>2. y \in Reach(g, p)
        BY <2>2, <4>1, ReachTrans
      <4> QED BY <2>2, <3>1, <3>3, <4>2
    <3> QED BY <1>4, <1>6, <3>2, <3>3
  <2>11. LowInv(t)
    <3> SUFFICES ASSUME NEW w \in Gray(t), NEW x \in t.onStack, Nearest(t, w, x),
                        NEW z \in Looked(t, x), z \in t.onStack
                 PROVE  t.low[w] <= t.index[z]
      BY DEF LowInv
    <3>1. w \in Gray(s) /\ x \in s.onStack /\ z \in s.onStack /\ w \in V /\ x \in V /\ z \in V
          /\ z \in Looked(s, x) /\ w # v
      BY <1>3, <1>4, <2>1
    <3>2. /\ s.index[w] <= s.index[x]
          /\ \A r \in Gray(s) : r # v => s.index[r] <= s.index[w] \/ s.index[x] < s.index[r]
      BY <1>2, <1>3 DEF Nearest
    <3>3. CASE s.index[x] < s.index[v]
      <4>1. Nearest(s, w, x)
        BY <3>1, <3>2, <3>3 DEF Nearest
      <4>2. s.low[w] <= s.index[z]
        BY <3>1, <4>1 DEF LowInv
      <4> QED BY <1>2, <1>4, <1>6, <3>1, <4>2
    <3>4. CASE s.index[v] <= s.index[x]
      <4>1. Nearest(s, v, x)
        <5>1. \A r \in Gray(s) : s.index[r] <= s.index[v]
          BY <1>4
        <5> QED BY <1>4, <3>4, <5>1 DEF Nearest
      <4>2. s.low[v] <= s.index[z]
        BY <1>4, <3>1, <4>1 DEF LowInv
      <4>3. w = p
        <5>1. s.index[p] <= s.index[w] \/ s.index[x] < s.index[p]
          BY <2>6, <3>2
        <5>2. s.index[p] <= s.index[w]
          BY <1>4, <2>6, <3>1, <3>4, <5>1
        <5>3. w # p => s.index[w] < s.index[p]
          BY <2>6
        <5> QED BY <1>4, <2>6, <3>1, <5>2, <5>3
      <4>4. t.low[w] <= s.low[v]
        BY <1>6, <2>6, <3>1, <4>3
      <4> QED BY <1>2, <1>4, <1>6, <3>1, <4>2, <4>4
    <3> QED BY <1>4, <3>1, <3>3, <3>4
  <2> QED BY <1>2, <1>3, <1>7, <2>7, <2>8, <2>9, <2>10, <2>11 DEF Known
<1>11. CASE Lowest(s, v)
  <2> DEFINE C == Segment(s, v)
  <2>1. /\ C = Class(g, v)
        /\ \A x \in Done(s) \union C : Succ(s, x) \subseteq Done(s) \union C
    BY <1>8, <1>11, SegmentIsClass DEF v
  <2>2. /\ t.onStack = s.onStack \ C /\ t.sccs = s.sccs \union {C}
        /\ \A x \in t.onStack : x \in s.onStack /\ s.index[x] < s.index[v]
        /\ \A x \in s.onStack : s.index[x] < s.index[v] => x \in t.onStack
    BY <1>2, <1>4, <1>11 DEF Segment
  <2>3. Done(t) = Done(s) \union C
    <3>1. DOMAIN t.index = V /\ DOMAIN s.index = V /\ C \subseteq s.onStack
      BY <1>1, <1>2 DEF IsSearch, Segment
    <3> QED BY <1>2, <1>4, <2>2, <3>1 DEF Done
  <2>4. C \subseteq V
    BY <1>4 DEF Segment
  <2> HIDE DEF C
  <2>5. DoneInv(t)
    BY <1>4, <1>7, <2>1, <2>3, <2>4 DEF DoneInv
  <2>6. SccInv(g, t)
    <3>1. UNION t.sccs = (UNION s.sccs) \union C
      BY <2>2
    <3> QED BY <1>4, <2>1, <2>2, <2>3, <3>1 DEF Known, SccInv
  <2>7. CallsReach(g, t)
    BY <1>2, <1>3, <2>2 DEF Known, CallsReach
  <2>8. ReachesCall(g, t)
    <3> SUFFICES ASSUME NEW x \in t.onStack
                 PROVE  \E w \in Gray(t) : s.index[w] <= s.index[x] /\ w \in Reach(g, x)
      BY <1>2 DEF ReachesCall
    <3>1. x \in s.onStack /\ s.index[x] < s.index[v]
      BY <2>2
    <3>2. PICK w \in Gray(s) : s.index[w] <= s.index[x] /\ w \in Reach(g, x)
      BY <3>1 DEF Known, ReachesCall
    <3>3. w # v
      BY <1>4, <3>1, <3>2
    <3> QED BY <1>3, <3>2, <3>3
  <2>9. \A u \in V : t.low[u] \in Nat /\ t.low[u] = s.low[u]
    <3>1. CASE depth > 1
      <4>1. s.low[p] <= s.index[p] /\ s.index[p] < s.index[v] /\ p \in V
        BY <1>4, <1>5, <1>9, <3>1
      <4>2. s.low[p] < s.low[v]
        BY <1>4, <1>11, <4>1 DEF Lowest
      <4> QED BY <1>4, <1>6, <4>1, <4>2
    <3>2. CASE ~(depth > 1)
      BY <1>4, <1>6, <3>2
    <3> QED BY <3>1, <3>2
  <2>10. LowIsReached(g, t)
    <3> SUFFICES ASSUME NEW x \in t.onStack
                 PROVE  /\ t.low[x] <= s.index[x]
                        /\ \E z \in t.onStack : s.index[z] = t.low[x] /\ z \in Reach(g, x)
      BY <1>2 DEF LowIsReached
    <3>1. x \in s.onStack /\ s.index[x] < s.index[v] /\ x \in V
      BY <1>4, <2>2
    <3>2. s.low[x] <= s.index[x]
      BY <1>9, <3>1
    <3>3. PICK z \in s.onStack : s.index[z] = s.low[x] /\ z \in Reach(g, x)
      BY <1>9, <3>1
    <3>4. s.index[z] < s.index[v]
      BY <1>4, <3>1, <3>2, <3>3
    <3> QED BY <2>2, <2>9, <3>1, <3>2, <3>3, <3>4
  <2>11. LowInv(t)
    <3> SUFFICES ASSUME NEW w \in Gray(t), NEW x \in t.onStack, Nearest(t, w, x),
                        NEW z \in Looked(t, x), z \in t.onStack
                 PROVE  t.low[w] <= t.index[z]
      BY DEF LowInv
    <3>1. w \in Gray(s) /\ x \in s.onStack /\ z \in s.onStack /\ w \in V /\ x \in V /\ z \in V
          /\ z \in Looked(s, x) /\ s.index[x] < s.index[v]
      BY <1>3, <1>4, <2>2
    <3>2. Nearest(s, w, x)
      <4>1. \A r \in Gray(s) : r # v => s.index[r] <= s.index[w] \/ s.index[x] < s.index[r]
        BY <1>2, <1>3 DEF Nearest
      <4>2. s.index[w] <= s.index[x]
        BY <1>2 DEF Nearest
      <4> QED BY <3>1, <4>1, <4>2 DEF Nearest
    <3> QED BY <1>2, <2>9, <3>1, <3>2 DEF LowInv
  <2> QED BY <1>2, <1>3, <1>7, <2>5, <2>6, <2>7, <2>8, <2>10, <2>11 DEF Known
<1> QED BY <1>10, <1>11
-----------------------------------------------------------------------------
LEMMA UntouchedKnown ==
  ASSUME NEW g, NEW s, IsSearch(NodesOf(g), s), Untouched(s)
  PROVE  Known(g, s) /\ Seen(NodesOf(g), s) /\ LowInv(s)
<1> DEFINE V == NodesOf(g)
<1>1. /\ \A v \in V : s.index[v] = 0
      /\ s.stack = <<>> /\ s.onStack = {} /\ s.calls = <<>> /\ s.sccs = {} /\ s.counter \in Nat \ {0}
  BY DEF Untouched, IsSearch
<1>2. Gray(s) = {} /\ Done(s) = {} /\ \A x \in V : Looked(s, x) = {}
  BY <1>1 DEF Gray, Done, Looked, IsSearch
<1>3. OrderInv(V, s)
  BY <1>1, <1>2 DEF OrderInv
<1>4. DoneInv(s) /\ CallsReach(g, s) /\ ReachesCall(g, s) /\ LowIsReached(g, s) /\ SccInv(g, s)
  BY <1>1, <1>2 DEF DoneInv, CallsReach, ReachesCall, LowIsReached, SccInv
<1> QED BY <1>2, <1>3, <1>4 DEF Known, Seen, LowInv

LEMMA FreshRead ==
  ASSUME NEW g, ProperGraph(g)
  PROVE  SearchInv(g, Fresh(NodesOf(g)))
<1> DEFINE V == NodesOf(g)
           s == Fresh(V)
<1>1. /\ s.phase = "search" /\ s.read = 0 /\ s.adj = [v \in V |-> <<>>] /\ s.loops = {} /\ s.kinds = {}
      /\ s.counter = 1 /\ s.index = [v \in V |-> 0] /\ s.low = [v \in V |-> 0]
      /\ s.stack = <<>> /\ s.onStack = {} /\ s.calls = <<>> /\ s.sccs = {}
      /\ DOMAIN s = {"phase", "read", "adj", "loops", "kinds", "counter", "index", "low",
                     "stack", "onStack", "calls", "sccs", "cycles", "hubs"}
  BY DEF Fresh
<1> HIDE DEF s, V
<1>2. IsSearch(V, s)
  BY <1>1 DEF IsSearch
<1>3. Untouched(s)
  BY <1>1 DEF Untouched
<1>4. \A x \in V : Succ(s, x) = {}
  BY <1>1 DEF Succ
<1>5. Len(g.edges) \in Nat
  BY DEF ProperGraph
<1>6. \A x, y : ~Taken(g, s, x, y)
  BY <1>1 DEF Taken
<1>7. ReadInv(g, s)
  BY <1>1, <1>3, <1>4, <1>5, <1>6 DEF ReadInv, V
<1> QED BY <1>1, <1>2, <1>3, <1>7, UntouchedKnown DEF SearchInv, ReportInv, V, s

(* One more edge is read.                                                    *)
ReadOne(g, s, t) ==
  LET e == g.edges[s.read + 1]
      loop == e.source = e.target
      inside == {e.source, e.target} \subseteq NodesOf(g)
  IN  /\ DOMAIN t = DOMAIN s
      /\ t.phase = s.phase /\ t.counter = s.counter /\ t.index = s.index /\ t.low = s.low
      /\ t.stack = s.stack /\ t.onStack = s.onStack /\ t.calls = s.calls /\ t.sccs = s.sccs
      /\ t.read = s.read + 1
      /\ t.loops = IF inside /\ loop THEN s.loops \union {e.source} ELSE s.loops
      /\ t.adj = IF ~inside THEN s.adj
                 ELSE [s.adj EXCEPT ![e.source] = IF loop THEN s.adj[e.source]
                                                  ELSE Append(s.adj[e.source], e.target)]
      /\ t.kinds = IF inside THEN s.kinds \union {<<e.source, e.target, e.kind>>} ELSE s.kinds

LEMMA ReadEdgeEffect ==
  ASSUME IsSearch(NodesOf(asked), answer), ReadEdge
  PROVE  ReadOne(asked, answer, answer')
<1> DEFINE e == asked.edges[answer.read + 1]
           loop == e.source = e.target
           read == [answer EXCEPT !.read = @ + 1]
           inside == {e.source, e.target} \subseteq NodesOf(asked)
<1>1. answer' = IF ~inside THEN read
                ELSE [read EXCEPT
                        !.loops = IF loop THEN @ \union {e.source} ELSE @,
                        !.adj[e.source] = IF loop THEN @ ELSE Append(@, e.target),
                        !.kinds = @ \union {<<e.source, e.target, e.kind>>}]
  BY DEF ReadEdge
<1> HIDE DEF e
<1>2. CASE ~inside
  <2>1. answer' = [answer EXCEPT !.read = @ + 1]
    BY <1>1, <1>2
  <2> QED BY <1>2, <2>1 DEF ReadOne, IsSearch, e
<1>3. CASE inside
  <2>1. /\ DOMAIN read = DOMAIN answer /\ read.read = answer.read + 1 /\ read.adj = answer.adj
        /\ read.loops = answer.loops /\ read.kinds = answer.kinds /\ read.phase = answer.phase
        /\ read.counter = answer.counter /\ read.index = answer.index /\ read.low = answer.low
        /\ read.stack = answer.stack /\ read.onStack = answer.onStack
        /\ read.calls = answer.calls /\ read.sccs = answer.sccs
    BY DEF IsSearch
  <2>2. DOMAIN answer = {"phase", "read", "adj", "loops", "kinds", "counter", "index", "low",
                         "stack", "onStack", "calls", "sccs", "cycles", "hubs"}
    BY DEF IsSearch
  <2> HIDE DEF read
  <2>3. answer' = [read EXCEPT !.loops = IF loop THEN @ \union {e.source} ELSE @,
                               !.adj[e.source] = IF loop THEN @ ELSE Append(@, e.target),
                               !.kinds = @ \union {<<e.source, e.target, e.kind>>}]
    BY <1>1, <1>3
  <2> QED BY <1>3, <2>1, <2>2, <2>3 DEF ReadOne, e
<1> QED BY <1>2, <1>3

LEMMA EdgeRead ==
  ASSUME NEW g, ProperGraph(g), NEW s, IsSearch(NodesOf(g), s), ReadInv(g, s), s.read < Len(g.edges),
         NEW t, ReadOne(g, s, t)
  PROVE  IsSearch(NodesOf(g), t) /\ Untouched(t) /\ ReadInv(g, t)
<1> DEFINE V == NodesOf(g)
           e == g.edges[s.read + 1]
           inside == e.source \in V /\ e.target \in V
<1>1. /\ DOMAIN t = DOMAIN s
      /\ t.phase = s.phase /\ t.counter = s.counter /\ t.index = s.index /\ t.low = s.low
      /\ t.stack = s.stack /\ t.onStack = s.onStack /\ t.calls = s.calls /\ t.sccs = s.sccs
      /\ t.read = s.read + 1
  BY DEF ReadOne
<1>2. /\ t.loops = IF inside /\ e.source = e.target THEN s.loops \union {e.source} ELSE s.loops
      /\ t.adj = IF inside /\ e.source # e.target
                 THEN [s.adj EXCEPT ![e.source] = Append(s.adj[e.source], e.target)] ELSE s.adj
      /\ t.kinds = IF inside THEN s.kinds \union {<<e.source, e.target, e.kind>>} ELSE s.kinds
  <2>1. s.adj \in [V -> Seq(V)]
    BY DEF IsSearch
  <2>2. /\ t.loops = IF inside /\ e.source = e.target THEN s.loops \union {e.source} ELSE s.loops
        /\ t.kinds = IF inside THEN s.kinds \union {<<e.source, e.target, e.kind>>} ELSE s.kinds
    BY DEF ReadOne
  <2>3. t.adj = IF ~inside THEN s.adj
                ELSE [s.adj EXCEPT ![e.source] = IF e.source = e.target THEN s.adj[e.source]
                                                 ELSE Append(s.adj[e.source], e.target)]
    BY DEF ReadOne
  <2> HIDE DEF e, V
  <2>4. CASE inside /\ e.source = e.target
    <3>1. t.adj = [s.adj EXCEPT ![e.source] = s.adj[e.source]]
      BY <2>3, <2>4
    <3> QED BY <2>1, <2>2, <2>4, <3>1
  <2> QED BY <2>2, <2>3, <2>4
<1>3. s.read \in Nat /\ Len(g.edges) \in Nat /\ s.adj \in [V -> Seq(V)] /\ s.loops \in SUBSET V
  BY DEF IsSearch, ProperGraph
<1>4. \A i : i \in 1 .. t.read <=> i \in 1 .. s.read \/ i = s.read + 1
  BY <1>1, <1>3
<1> HIDE DEF e
<1>5. Untouched(t)
  BY <1>1 DEF ReadInv, Untouched
<1>6. t.adj \in [V -> Seq(V)] /\ t.loops \in SUBSET V
  BY <1>2, <1>3
<1>7. IsSearch(V, t)
  BY <1>1, <1>3, <1>6 DEF IsSearch
<1>8. \A x, y : Taken(g, t, x, y) <=> Taken(g, s, x, y) \/ (e.source = x /\ e.target = y)
  BY <1>4 DEF Taken, e
<1>9. t.read <= Len(g.edges)
  BY <1>1, <1>3
<1>10. t.loops = {x \in V : Taken(g, t, x, x)}
  BY <1>2, <1>8 DEF ReadInv
<1>11. t.kinds = {<<g.edges[i].source, g.edges[i].target, g.edges[i].kind>> :
                   i \in {j \in 1 .. t.read : {g.edges[j].source, g.edges[j].target} \subseteq V}}
  <2> DEFINE Triple(i) == <<g.edges[i].source, g.edges[i].target, g.edges[i].kind>>
             In(i) == {g.edges[i].source, g.edges[i].target} \subseteq V
  <2>1. s.kinds = {Triple(i) : i \in {j \in 1 .. s.read : In(j)}}
    BY DEF ReadInv
  <2>2. In(s.read + 1) <=> inside
    BY DEF e
  <2>3. Triple(s.read + 1) = <<e.source, e.target, e.kind>>
    BY DEF e
  <2> HIDE DEF Triple, In, V
  <2>4. CASE inside
    <3>1. \A i : i \in {j \in 1 .. t.read : In(j)} <=> i \in {j \in 1 .. s.read : In(j)} \/ i = s.read + 1
      BY <1>4, <2>2, <2>4
    <3>2. {Triple(i) : i \in {j \in 1 .. t.read : In(j)}}
            = {Triple(i) : i \in {j \in 1 .. s.read : In(j)}} \union {Triple(s.read + 1)}
      BY <3>1
    <3> QED BY <1>2, <2>1, <2>3, <2>4, <3>2 DEF Triple, In
  <2>5. CASE ~inside
    <3>1. {j \in 1 .. t.read : In(j)} = {j \in 1 .. s.read : In(j)}
      BY <1>4, <2>2, <2>5
    <3> QED BY <1>2, <2>1, <2>5, <3>1 DEF Triple, In
  <2> QED BY <2>4, <2>5
<1>12. \A x, y \in V : y \in Succ(t, x) <=> x # y /\ Taken(g, t, x, y)
  <2> SUFFICES ASSUME NEW x \in V, NEW y \in V
               PROVE  y \in Succ(t, x) <=> x # y /\ Taken(g, t, x, y)
    OBVIOUS
  <2>1. y \in Succ(s, x) <=> x # y /\ Taken(g, s, x, y)
    BY DEF ReadInv
  <2>2. CASE inside /\ e.source # e.target /\ x = e.source
    <3>1. t.adj[x] = Append(s.adj[x], e.target) /\ s.adj[x] \in Seq(V) /\ e.target \in V
      BY <1>2, <1>3, <2>2
    <3>2. /\ DOMAIN t.adj[x] = 1 .. Len(s.adj[x]) + 1 /\ DOMAIN s.adj[x] = 1 .. Len(s.adj[x])
          /\ Len(s.adj[x]) \in Nat
          /\ \A i \in 1 .. Len(s.adj[x]) : t.adj[x][i] = s.adj[x][i]
          /\ t.adj[x][Len(s.adj[x]) + 1] = e.target
      BY <3>1, AppendFacts
    <3>3. \A i : i \in DOMAIN t.adj[x] <=> i \in DOMAIN s.adj[x] \/ i = Len(s.adj[x]) + 1
      BY <3>2
    <3>4. Succ(t, x) = Succ(s, x) \union {e.target}
      BY <3>2, <3>3 DEF Succ
    <3> QED BY <1>8, <2>1, <2>2, <3>4
  <2>3. CASE ~(inside /\ e.source # e.target /\ x = e.source)
    <3>1. t.adj[x] = s.adj[x]
      BY <1>2, <1>3, <2>3
    <3>2. Succ(t, x) = Succ(s, x)
      BY <3>1 DEF Succ
    <3> QED BY <1>8, <2>1, <2>3, <3>2
  <2> QED BY <2>2, <2>3
<1> QED BY <1>5, <1>7, <1>9, <1>10, <1>11, <1>12 DEF ReadInv

LEMMA AllTaken ==
  ASSUME NEW g, ProperGraph(g), NEW s, ReadInv(g, s), s.read = Len(g.edges)
  PROVE  /\ \A x, y \in NodesOf(g) : Taken(g, s, x, y) <=> <<x, y>> \in Links(g)
         /\ Faithful(g, s)
<1>1. DOMAIN g.edges = 1 .. s.read
  BY DEF ProperGraph
<1>2. \A x, y \in NodesOf(g) : Taken(g, s, x, y) <=> <<x, y>> \in Links(g)
  BY <1>1 DEF Taken, Links, Range
<1> QED BY <1>2 DEF ReadInv, Faithful

LEMMA SameRead ==
  ASSUME NEW g, NEW s, ReadInv(g, s), s.read = Len(g.edges), Len(g.edges) \in Nat, NEW t, SameGraph(s, t)
  PROVE  ReadInv(g, t)
<1>1. t.read = s.read /\ t.adj = s.adj /\ t.loops = s.loops /\ t.kinds = s.kinds
  BY DEF SameGraph
<1>2. (\A x, y : Taken(g, t, x, y) <=> Taken(g, s, x, y)) /\ \A x : Succ(t, x) = Succ(s, x)
  BY <1>1 DEF Taken, Succ
<1>3. ~(t.read < Len(g.edges))
  BY <1>1
<1> QED BY <1>1, <1>2, <1>3 DEF ReadInv

GraphInv == asked \in Graphs /\ (answer # Nothing => SearchInv(asked, answer))

LEMMA AnalysisKeeps ==
  ASSUME GraphInv, Analyse
  PROVE  GraphInv'
<1> DEFINE g == asked
           V == NodesOf(g)
<1>1. asked \in Graphs /\ asked' = asked /\ ProperGraph(g)
  BY GraphsAreProper DEF GraphInv, Analyse, BeginAnalysis, Answer, ReadEdge, StartNode, VisitNeighbour,
                        FinishNode, ReportCycles
<1>2. Len(g.edges) \in Nat
  BY <1>1 DEF ProperGraph
<1>3. SUFFICES SearchInv(g, answer')
  BY <1>1 DEF GraphInv
<1>4. CASE BeginAnalysis
  <2>1. answer' = Fresh(V)
    BY <1>4 DEF BeginAnalysis, Answer
  <2> QED BY <1>1, <2>1, FreshRead
<1>5. ASSUME Searching
      PROVE  /\ Known(g, answer) /\ Seen(V, answer) /\ LowInv(answer) /\ ReadInv(g, answer)
             /\ ReportInv(g, answer) /\ answer.phase = "search"
             /\ IsSearch(V, answer) /\ OrderInv(V, answer) /\ answer.read \in Nat
             /\ answer.read <= Len(g.edges)
  <2>1. SearchInv(g, answer) /\ answer.phase = "search"
    BY <1>5 DEF GraphInv, Searching
  <2> QED BY <2>1 DEF SearchInv, Known, IsSearch, ReadInv
<1>6. CASE ReadEdge
  <2>1. Searching /\ answer.read # Len(g.edges)
    BY <1>6 DEF ReadEdge, AllRead
  <2>2. ReadOne(g, answer, answer')
    BY <1>5, <1>6, <2>1, ReadEdgeEffect
  <2>3. IsSearch(V, answer') /\ Untouched(answer') /\ ReadInv(g, answer')
    <3>1. answer.read < Len(g.edges)
      BY <1>2, <1>5, <2>1
    <3> QED BY <1>1, <1>5, <2>1, <2>2, <3>1, EdgeRead
  <2>4. Known(g, answer') /\ Seen(V, answer') /\ LowInv(answer')
    BY <2>3, UntouchedKnown
  <2>5. ReportInv(g, answer')
    BY <2>3 DEF Untouched, ReportInv
  <2> QED BY <2>3, <2>4, <2>5 DEF SearchInv
<1>7. ASSUME Searching, AllRead PROVE Faithful(g, answer) /\ answer.read = Len(g.edges)
  BY <1>1, <1>5, <1>7, AllTaken DEF AllRead
<1>8. ASSUME Searching, AllRead, SameGraph(answer, answer'),
             Known(g, answer'), Seen(V, answer'), LowInv(answer')
      PROVE  SearchInv(g, answer')
  <2>1. ReadInv(g, answer')
    BY <1>2, <1>5, <1>7, <1>8, SameRead
  <2>2. answer'.phase = "search"
    BY <1>5, <1>8 DEF SameGraph
  <2> QED BY <1>8, <2>1, <2>2 DEF SearchInv, ReportInv
<1>9. CASE StartNode
  <2>1. Searching /\ AllRead /\ answer.calls = <<>>
    BY <1>9 DEF StartNode
  <2>2. PICK v \in V : answer.index[v] = 0 /\ answer' = Discover(answer, v)
    BY <1>9 DEF StartNode
  <2>3. Discovered(V, answer, answer', v)
    BY <1>5, <2>1, <2>2, DiscoverEffect
  <2>4. Gray(answer) = {}
    BY <2>1 DEF Gray
  <2>5. Known(g, answer') /\ Seen(V, answer') /\ LowInv(answer')
    <3>1. \A u \in Gray(answer) : v \in Reach(g, u)
      BY <2>4
    <3>2. \A x \in V : \A y \in Looked(answer, x) : answer.index[y] > 0 \/ y = v
      BY <1>5, <2>1 DEF Seen
    <3>3. \A u \in Gray(answer), x \in answer.onStack : Nearest(answer, u, x) =>
            \A y \in Looked(answer, x) \intersect answer.onStack : answer.low[u] <= answer.index[y]
      BY <2>4
    <3> QED BY <1>5, <2>1, <2>2, <2>3, <3>1, <3>2, <3>3, NewNode
  <2>6. SameGraph(answer, answer')
    BY <2>3 DEF Discovered
  <2> QED BY <1>8, <2>1, <2>5, <2>6
<1>10. CASE VisitNeighbour
  <2>1. /\ Searching /\ AllRead /\ answer.calls # <<>>
        /\ CallTop(answer).pos <= Len(answer.adj[CallTop(answer).node])
        /\ Advanced(answer, answer')
    BY <1>10 DEF VisitNeighbour, Advanced
  <2>2. Known(g, answer') /\ Seen(V, answer') /\ LowInv(answer') /\ SameGraph(answer, answer')
    BY <1>5, <1>7, <2>1, NeighbourSeen
  <2> QED BY <1>8, <2>1, <2>2
<1>11. CASE FinishNode
  <2>1. /\ Searching /\ AllRead /\ answer.calls # <<>>
        /\ CallTop(answer).pos > Len(answer.adj[CallTop(answer).node])
        /\ answer' = Retreat(answer, CallTop(answer).node)
    BY <1>11 DEF FinishNode
  <2>2. Returned(V, answer, answer')
    BY <1>5, <2>1, RetreatEffect
  <2>3. SameGraph(answer, answer')
    BY <2>2 DEF Returned
  <2>4. Known(g, answer') /\ Seen(V, answer') /\ LowInv(answer')
    BY <1>5, <1>7, <2>1, <2>2, NodeFinished
  <2> QED BY <1>8, <2>1, <2>3, <2>4
<1>12. CASE ReportCycles
  <2> DEFINE s == answer
             t == answer'
  <2>1. /\ Searching /\ AllRead /\ s.calls = <<>> /\ \A v \in V : s.index[v] # 0
        /\ t = [s EXCEPT !.phase = "reported", !.cycles = Cycles(s), !.hubs = HubScore(g)]
    BY <1>12 DEF ReportCycles
  <2>2. IsSearch(V, s) /\ Known(g, s) /\ Seen(V, s) /\ LowInv(s) /\ ReadInv(g, s)
        /\ s.read = Len(g.edges)
    BY <1>5, <1>7, <2>1
  <2>3. /\ DOMAIN t = DOMAIN s /\ t.phase = "reported" /\ t.cycles = Cycles(s) /\ t.hubs = HubScore(g)
        /\ t.read = s.read /\ t.adj = s.adj /\ t.loops = s.loops /\ t.kinds = s.kinds
        /\ t.counter = s.counter /\ t.index = s.index /\ t.low = s.low /\ t.stack = s.stack
        /\ t.onStack = s.onStack /\ t.calls = s.calls /\ t.sccs = s.sccs
    BY <2>1, <2>2 DEF IsSearch
  <2> HIDE DEF s, t
  <2>4. IsSearch(V, t)
    BY <2>2, <2>3 DEF IsSearch
  <2>5. Gray(t) = Gray(s) /\ Done(t) = Done(s) /\ (\A x : Succ(t, x) = Succ(s, x))
        /\ (\A x : Looked(t, x) = Looked(s, x)) /\ (\A x, y : Taken(g, t, x, y) = Taken(g, s, x, y))
    BY <2>3 DEF Gray, Done, Succ, Looked, Taken
  <2>6. OrderInv(V, t)
    BY <2>2, <2>3, <2>5 DEF Known, OrderInv
  <2>7. LowIsReached(g, t)
    BY <2>2, <2>3 DEF Known, LowIsReached
  <2>8. Known(g, t)
    BY <2>2, <2>3, <2>4, <2>5, <2>6, <2>7, SameMarks
  <2>9. Seen(V, t)
    BY <2>2, <2>3, <2>5 DEF Seen
  <2>10. LowInv(t)
    BY <2>2, <2>3, <2>5 DEF LowInv, Nearest
  <2>11. ReadInv(g, t)
    BY <1>2, <2>2, <2>3, <2>5 DEF ReadInv
  <2>12. Cycles(t) = Cycles(s)
    BY <2>3 DEF Cycles
  <2>13. ReportInv(g, t)
    BY <2>1, <2>2, <2>3, <2>12 DEF ReportInv, s
  <2> QED BY <2>8, <2>9, <2>10, <2>11, <2>13 DEF SearchInv, t
<1> QED BY <1>4, <1>6, <1>9, <1>10, <1>11, <1>12 DEF Analyse, GraphInv

LEMMA GraphInvariant == AnalysisSpec => []GraphInv
<1>1. AnyGraph => GraphInv
  BY DEF AnyGraph, GraphInv
<1>2. GraphInv /\ [Analyse]_questionVars => GraphInv'
  <2> SUFFICES ASSUME GraphInv, [Analyse]_questionVars PROVE GraphInv'
    OBVIOUS
  <2>1. CASE Analyse
    BY <2>1, AnalysisKeeps
  <2>2. CASE UNCHANGED questionVars
    BY <2>2 DEF questionVars, GraphInv
  <2> QED BY <2>1, <2>2
<1> QED BY <1>1, <1>2, PTL DEF AnalysisSpec
-----------------------------------------------------------------------------
LEMMA DisjointUnion ==
  ASSUME NEW A, NEW B, IsFiniteSet(A), IsFiniteSet(B), A \intersect B = {}
  PROVE  Cardinality(A \union B) = Cardinality(A) + Cardinality(B)
         /\ Cardinality(A) \in Nat /\ Cardinality(B) \in Nat
<1>1. Cardinality(A \union B) = Cardinality(A) + Cardinality(B) - Cardinality(A \intersect B)
  BY FS_Union
<1>2. Cardinality(A) \in Nat /\ Cardinality(B) \in Nat
  BY FS_CardinalityType
<1>3. Cardinality(A \intersect B) = 0
  BY Zenon, FS_EmptySet
<1> QED BY <1>1, <1>2, <1>3

(* A sum over a finite set, from how one element changes it.                 *)
LEMMA SumIs ==
  ASSUME NEW D, IsFiniteSet(D), NEW h \in [D -> Int], NEW b \in [SUBSET D -> Int], b[{}] = 0,
         \A s \in SUBSET D : \A x \in s : b[s] = h[x] + b[s \ {x}]
  PROVE  SumFunction(h) = b[D]
<1> DEFINE One(s) == CHOOSE x \in s : TRUE
           Sums(i) == i = [s \in SUBSET D |-> IF s = {} THEN 0 ELSE h[One(s)] + i[s \ {One(s)}]]
           sum == CHOOSE i : Sums(i)
<1>1. DOMAIN h = D
  OBVIOUS
<1>2. SumFunction(h) = sum[D]
  BY <1>1 DEF SumFunction, SumFunctionOnSet, FoldFunctionOnSet, MapThenFoldSet
<1>3. \A s : s # {} => One(s) \in s
  OBVIOUS
<1> HIDE DEF One
<1>4. Sums(b)
  BY <1>3
<1>5. Sums(sum)
  <2> HIDE DEF Sums
  <2> QED BY <1>4
<1> HIDE DEF sum
<1> DEFINE N == {n \in Nat : \A s \in SUBSET D : Cardinality(s) = n => sum[s] = b[s]}
<1>6. 0 \in N
  <2> SUFFICES ASSUME NEW s \in SUBSET D, Cardinality(s) = 0 PROVE sum[s] = b[s]
    OBVIOUS
  <2>1. s = {}
    BY FS_Subset, FS_EmptySet
  <2> QED BY <1>5, <2>1
<1>7. ASSUME NEW n \in N PROVE n + 1 \in N
  <2> SUFFICES ASSUME NEW s \in SUBSET D, Cardinality(s) = n + 1 PROVE sum[s] = b[s]
    OBVIOUS
  <2>1. IsFiniteSet(s) /\ s # {}
    BY FS_Subset, FS_EmptySet
  <2>2. One(s) \in s
    BY <1>3, <2>1
  <2>3. Cardinality(s \ {One(s)}) = n
    <3>1. Cardinality(s \ {One(s)}) = Cardinality(s) - 1 /\ n \in Nat
      BY <2>1, <2>2, FS_RemoveElement
    <3> QED BY <3>1
  <2>4. s \ {One(s)} \in SUBSET D
    OBVIOUS
  <2>5. sum[s \ {One(s)}] = b[s \ {One(s)}]
    BY <2>3, <2>4
  <2>6. sum[s] = h[One(s)] + sum[s \ {One(s)}]
    BY <1>5, <2>1
  <2> QED BY <2>2, <2>5, <2>6
<1>8. N = Nat
  <2> HIDE DEF N
  <2>1. N \in SUBSET Nat
    BY DEF N
  <2> QED BY <1>6, <1>7, <2>1, SetInduction
<1>9. Cardinality(D) \in N
  BY <1>8, FS_CardinalityType
<1> QED BY <1>2, <1>9

(* Every edge counts once for its target and once against its source.        *)
LEMMA HubsBalance ==
  ASSUME NEW g, ProperGraph(g)
  PROVE  SumFunction(HubScore(g))
           = Cardinality({i \in DOMAIN g.edges : g.edges[i].source \notin DOMAIN HubScore(g)})
<1> DEFINE h == HubScore(g)
           D == NodesOf(g) \union {e.target : e \in Range(g.edges)}
           E == DOMAIN g.edges
           To(s) == {i \in E : g.edges[i].target \in s}
           From(s) == {i \in E : g.edges[i].source \in s}
           b == [s \in SUBSET D |-> Cardinality(To(s)) - Cardinality(From(s))]
<1>1. E = 1 .. Len(g.edges) /\ Len(g.edges) \in Nat /\ IsFiniteSet(E)
  <2>1. E = 1 .. Len(g.edges) /\ Len(g.edges) \in Nat
    BY DEF ProperGraph
  <2> QED BY <2>1, FS_Interval
<1>2. IsFiniteSet(D)
  <2> DEFINE T == {e.target : e \in Range(g.edges)}
             f == [i \in E |-> g.edges[i].target]
  <2>1. f \in Surjection(E, T)
    BY DEF Surjection, Range
  <2>2. IsFiniteSet(T)
    <3> HIDE DEF f, T, E
    <3> QED BY <1>1, <2>1, FS_Surjection
  <2>3. IsFiniteSet(NodesOf(g))
    BY FS_Interval DEF NodesOf, ProperGraph
  <2> HIDE DEF T
  <2> QED BY <2>2, <2>3, FS_Union DEF T
<1>3. h = [x \in D |-> Cardinality(To({x})) - Cardinality(From({x}))]
  BY DEF HubScore
<1>4. \A s : IsFiniteSet(To(s)) /\ IsFiniteSet(From(s)) /\ Cardinality(To(s)) \in Nat /\ Cardinality(From(s)) \in Nat
  <2> SUFFICES ASSUME NEW s
               PROVE  IsFiniteSet(To(s)) /\ IsFiniteSet(From(s))
                      /\ Cardinality(To(s)) \in Nat /\ Cardinality(From(s)) \in Nat
    OBVIOUS
  <2>1. To(s) \in SUBSET E /\ From(s) \in SUBSET E
    OBVIOUS
  <2> QED BY <1>1, <2>1, FS_Subset, FS_CardinalityType
<1>5. ASSUME NEW s, NEW x \in s
      PROVE  /\ Cardinality(To(s)) = Cardinality(To({x})) + Cardinality(To(s \ {x}))
             /\ Cardinality(From(s)) = Cardinality(From({x})) + Cardinality(From(s \ {x}))
  <2>1. To(s) = To({x}) \union To(s \ {x}) /\ To({x}) \intersect To(s \ {x}) = {}
    OBVIOUS
  <2>2. From(s) = From({x}) \union From(s \ {x}) /\ From({x}) \intersect From(s \ {x}) = {}
    OBVIOUS
  <2> HIDE DEF To, From
  <2>3. Cardinality(To(s)) = Cardinality(To({x})) + Cardinality(To(s \ {x}))
    BY <1>4, <2>1, DisjointUnion
  <2>4. Cardinality(From(s)) = Cardinality(From({x})) + Cardinality(From(s \ {x}))
    BY <1>4, <2>2, DisjointUnion
  <2> QED BY <2>3, <2>4
<1>6. To({}) = {} /\ From({}) = {}
  OBVIOUS
<1>7. To(D) = E
  BY DEF Range
<1>8. E = From(D) \union {i \in E : g.edges[i].source \notin D}
      /\ From(D) \intersect {i \in E : g.edges[i].source \notin D} = {}
  OBVIOUS
<1>9. IsFiniteSet({i \in E : g.edges[i].source \notin D})
  BY <1>1, FS_Subset
<1> HIDE DEF To, From, D, h
<1>10. h \in [D -> Int]
  BY <1>3, <1>4
<1>11. b \in [SUBSET D -> Int]
  BY <1>4
<1>12. b[{}] = 0
  BY <1>6, FS_EmptySet
<1>13. \A s \in SUBSET D : \A x \in s : b[s] = h[x] + b[s \ {x}]
  <2> SUFFICES ASSUME NEW s \in SUBSET D, NEW x \in s PROVE b[s] = h[x] + b[s \ {x}]
    OBVIOUS
  <2>1. x \in D /\ s \ {x} \in SUBSET D
    OBVIOUS
  <2>2. h[x] = Cardinality(To({x})) - Cardinality(From({x}))
    BY <1>3, <2>1
  <2>3. b[s] = Cardinality(To(s)) - Cardinality(From(s))
        /\ b[s \ {x}] = Cardinality(To(s \ {x})) - Cardinality(From(s \ {x}))
    BY <2>1
  <2>4. /\ Cardinality(To(s)) = Cardinality(To({x})) + Cardinality(To(s \ {x}))
        /\ Cardinality(From(s)) = Cardinality(From({x})) + Cardinality(From(s \ {x}))
    BY <1>5
  <2>5. /\ Cardinality(To({x})) \in Nat /\ Cardinality(To(s \ {x})) \in Nat
        /\ Cardinality(From({x})) \in Nat /\ Cardinality(From(s \ {x})) \in Nat
    BY <1>4
  <2> HIDE DEF b
  <2> QED BY <2>2, <2>3, <2>4, <2>5
<1>14. SumFunction(h) = Cardinality(To(D)) - Cardinality(From(D))
  <2> HIDE DEF b
  <2>1. SumFunction(h) = b[D]
    BY <1>2, <1>10, <1>11, <1>12, <1>13, SumIs
  <2> QED BY <2>1 DEF b
<1>15. Cardinality(E) = Cardinality(From(D)) + Cardinality({i \in E : g.edges[i].source \notin D})
  BY <1>4, <1>8, <1>9, DisjointUnion
<1>16. Cardinality({i \in E : g.edges[i].source \notin D}) \in Nat
  BY <1>9, FS_CardinalityType
<1>17. DOMAIN h = D
  BY <1>10
<1> QED BY <1>4, <1>7, <1>14, <1>15, <1>16, <1>17 DEF h
-----------------------------------------------------------------------------
LEMMA ClassFacts ==
  ASSUME NEW g, ProperGraph(g), NEW v \in NodesOf(g)
  PROVE  /\ v \in Class(g, v) /\ Class(g, v) \subseteq NodesOf(g) /\ IsFiniteSet(Class(g, v))
         /\ Cardinality(Class(g, v)) \in Nat
<1>1. v \in Class(g, v)
  BY ReachRefl DEF Class
<1>2. Class(g, v) \subseteq NodesOf(g)
  BY DEF Class, Reach
<1>3. g.n \in Nat
  BY DEF ProperGraph
<1>4. IsFiniteSet(NodesOf(g))
  BY <1>3, FS_Interval DEF NodesOf
<1> QED BY <1>1, <1>2, <1>4, FS_Subset, FS_CardinalityType

LEMMA SameClass ==
  ASSUME NEW g, NEW v \in NodesOf(g), NEW w \in Class(g, v)
  PROVE  Class(g, w) = Class(g, v) /\ w \in NodesOf(g)
<1>1. w \in Reach(g, v) /\ v \in Reach(g, w) /\ w \in NodesOf(g)
  BY DEF Class, Reach
<1>2. \A x : x \in Class(g, w) => x \in Class(g, v)
  BY <1>1, ReachTrans DEF Class
<1>3. \A x : x \in Class(g, v) => x \in Class(g, w)
  BY <1>1, ReachTrans DEF Class
<1> QED BY <1>1, <1>2, <1>3

(* In a class of two nodes an edge leads from one to another that leads     *)
(* back.                                                                     *)
LEMMA FirstLink ==
  ASSUME NEW g, NEW v \in NodesOf(g), NEW w \in Class(g, v), w # v
  PROVE  \E y \in NodesOf(g) : <<v, y>> \in Links(g) /\ y # v /\ v \in Reach(g, y) /\ y \in Class(g, v)
<1> DEFINE V == NodesOf(g)
           S == {y \in V : y = v \/ v \notin Reach(g, y)}
<1>1. w \in Reach(g, v) /\ v \in Reach(g, w)
  BY DEF Class
<1> SUFFICES ASSUME \A y \in V : <<v, y>> \in Links(g) /\ y # v => v \notin Reach(g, y) PROVE FALSE
  <2>1. ASSUME NEW y \in V, <<v, y>> \in Links(g), v \in Reach(g, y) PROVE y \in Class(g, v)
    <3>1. y \in Reach(g, v)
      BY <2>1, ReachRefl, ReachLink
    <3> QED BY <2>1, <3>1 DEF Class
  <2> QED BY <2>1
<1>2. Closed(g, S)
  <2> SUFFICES ASSUME NEW l \in Links(g), l[1] \in S PROVE l[2] \in S
    BY DEF Closed
  <2>1. l = <<l[1], l[2]>> /\ l[1] \in V /\ l[2] \in V
    BY DEF Links
  <2>2. CASE l[1] = v
    BY <2>1, <2>2
  <2>3. CASE l[1] # v
    <3>1. v \notin Reach(g, l[1])
      BY <2>3
    <3>2. l[2] \in Reach(g, l[1])
      BY <2>1, ReachRefl, ReachLink
    <3>3. v \notin Reach(g, l[2])
      BY <3>1, <3>2, ReachTrans
    <3> QED BY <2>1, <3>3
  <2> QED BY <2>2, <2>3
<1>3. v \in S
  OBVIOUS
<1>4. Reach(g, v) \subseteq S
  BY <1>2, <1>3, ReachClosed
<1> QED BY <1>1, <1>4

(* The components that are reported.                                         *)
Kept(s) == {c \in s.sccs : Cardinality(c) > 1 \/ c \subseteq s.loops}

LEMMA KeptAreCycles ==
  ASSUME NEW g, ProperGraph(g), NEW s, SearchInv(g, s), s.read = Len(g.edges), s.calls = <<>>,
         \A v \in NodesOf(g) : s.index[v] # 0
  PROVE  /\ Kept(s) = {Class(g, v) : v \in OnCycle(g)}
         /\ \A c \in Kept(s) : KindsIn(g, c) # {}
<1> DEFINE V == NodesOf(g)
<1>1. /\ IsSearch(V, s) /\ OrderInv(V, s) /\ ReadInv(g, s) /\ ReachesCall(g, s) /\ SccInv(g, s)
  BY DEF SearchInv, Known
<1>2. \A x, y \in V : Taken(g, s, x, y) <=> <<x, y>> \in Links(g)
  BY <1>1, AllTaken
<1>3. s.loops = {x \in V : <<x, x>> \in Links(g)}
  BY <1>1, <1>2 DEF ReadInv
<1>4. s.onStack = {}
  <2>1. Gray(s) = {}
    BY DEF Gray
  <2> QED BY <1>1, <2>1 DEF ReachesCall
<1>5. Done(s) = V
  <2>1. \A x \in V : s.index[x] > 0
    BY <1>1 DEF IsSearch
  <2>2. DOMAIN s.index = V
    BY <1>1 DEF IsSearch
  <2> QED BY <1>4, <2>1, <2>2 DEF Done
<1>6. \A v \in V : Class(g, v) \in s.sccs
  <2> SUFFICES ASSUME NEW v \in V PROVE Class(g, v) \in s.sccs
    OBVIOUS
  <2>1. PICK c \in s.sccs : v \in c
    BY <1>1, <1>5 DEF SccInv
  <2>2. PICK u \in V : c = Class(g, u)
    BY <1>1 DEF SccInv
  <2> QED BY <2>1, <2>2, SameClass
<1>7. ASSUME NEW c, NEW v \in V, c = Class(g, v)
      PROVE  /\ v \in c /\ c \subseteq V /\ Cardinality(c) \in Nat
             /\ Cardinality(c) > 1 <=> \E w \in c : w # v
             /\ Cardinality(c) = 1 <=> c = {v}
  <2>1. v \in c /\ c \subseteq V /\ IsFiniteSet(c) /\ Cardinality(c) \in Nat
    BY <1>7, ClassFacts
  <2>2. Cardinality(c) # 0
    BY <2>1, FS_EmptySet
  <2>3. Cardinality(c) = 1 <=> c = {v}
    <3>1. Cardinality(c) = 1 <=> \E x : c = {x}
      BY <2>1, FS_Singleton
    <3> QED BY <2>1, <3>1
  <2>4. c # {v} <=> \E w \in c : w # v
    BY <2>1
  <2>5. Cardinality(c) > 1 <=> Cardinality(c) # 1
    BY <2>1, <2>2
  <2> QED BY <2>1, <2>3, <2>4, <2>5
<1>8. ASSUME NEW c \in Kept(s) PROVE \E v \in OnCycle(g) : c = Class(g, v)
  <2>1. c \in s.sccs /\ (Cardinality(c) > 1 \/ c \subseteq s.loops)
    BY DEF Kept
  <2>2. PICK v \in V : c = Class(g, v)
    BY <1>1, <2>1 DEF SccInv
  <2>3. \E y \in V : <<v, y>> \in Links(g) /\ v \in Reach(g, y)
    <3>1. CASE Cardinality(c) > 1
      <4>1. PICK w \in c : w # v
        BY <1>7, <2>2, <3>1
      <4> QED BY <2>2, <4>1, FirstLink
    <3>2. CASE c \subseteq s.loops
      <4>1. <<v, v>> \in Links(g)
        BY <1>3, <1>7, <2>2, <3>2
      <4> QED BY <4>1, ReachRefl
    <3> QED BY <2>1, <3>1, <3>2
  <2>4. v \in OnCycle(g)
    <3>1. PICK y \in V : <<v, y>> \in Links(g) /\ v \in Reach(g, y)
      BY <2>3
    <3>2. <<v, y>>[1] = v /\ <<v, y>>[2] = y
      OBVIOUS
    <3> QED BY <3>1, <3>2 DEF OnCycle
  <2> QED BY <2>2, <2>4
<1>9. ASSUME NEW v \in OnCycle(g) PROVE Class(g, v) \in Kept(s)
  <2>1. v \in V /\ \E l \in Links(g) : l[1] = v /\ v \in Reach(g, l[2])
    BY DEF OnCycle
  <2>2. PICK l \in Links(g) : l[1] = v /\ v \in Reach(g, l[2])
    BY <2>1
  <2>3. l = <<v, l[2]>> /\ l[2] \in V
    BY <2>2 DEF Links
  <2>4. l[2] \in Class(g, v)
    <3>1. l[2] \in Reach(g, v)
      BY <2>1, <2>3, ReachRefl, ReachLink
    <3> QED BY <2>2, <3>1 DEF Class
  <2>5. CASE l[2] # v
    BY <1>6, <1>7, <2>1, <2>4, <2>5 DEF Kept
  <2>6. CASE l[2] = v
    <3>1. v \in s.loops
      BY <1>3, <2>1, <2>3, <2>6
    <3>2. Cardinality(Class(g, v)) > 1 \/ Class(g, v) = {v}
      BY <1>7, <2>1
    <3> QED BY <1>6, <2>1, <3>1, <3>2 DEF Kept
  <2> QED BY <2>5, <2>6
<1>10. ASSUME NEW c \in Kept(s) PROVE KindsIn(g, c) # {}
  <2>1. PICK v \in OnCycle(g) : c = Class(g, v)
    BY <1>8
  <2>2. v \in V
    BY <2>1 DEF OnCycle
  <2>3. v \in c /\ c \subseteq V
    BY <1>7, <2>1, <2>2
  <2>4. \E y \in c : <<v, y>> \in Links(g) /\ (v # y \/ Cardinality(c) = 1)
    <3>1. CASE \E w \in c : w # v
      BY <2>1, <2>2, <3>1, FirstLink
    <3>2. CASE ~ \E w \in c : w # v
      <4>1. c = {v} /\ Cardinality(c) = 1
        <5>1. c = {v}
          BY <2>3, <3>2
        <5> QED BY <5>1, FS_Singleton
      <4>2. PICK l \in Links(g) : l[1] = v /\ v \in Reach(g, l[2])
        BY <2>1 DEF OnCycle
      <4>3. l = <<v, l[2]>> /\ l[2] \in V
        BY <4>2 DEF Links
      <4>4. l[2] \in Class(g, v)
        <5>1. l[2] \in Reach(g, v)
          BY <2>2, <4>3, ReachRefl, ReachLink
        <5> QED BY <4>2, <5>1 DEF Class
      <4> QED BY <2>1, <4>1, <4>3, <4>4
    <3> QED BY <3>1, <3>2
  <2>5. PICK y \in c : <<v, y>> \in Links(g) /\ (v # y \/ Cardinality(c) = 1)
    BY <2>4
  <2>6. PICK e \in Range(g.edges) : e.source = v /\ e.target = y
    BY <2>5 DEF Links
  <2> QED BY <2>3, <2>5, <2>6 DEF KindsIn
<1> QED BY <1>8, <1>9, <1>10

LEMMA KindsAreExact ==
  ASSUME NEW g, ProperGraph(g), NEW s, ReadInv(g, s), s.read = Len(g.edges),
         NEW c, c \subseteq NodesOf(g)
  PROVE  {k[3] : k \in {l \in s.kinds : /\ {l[1], l[2]} \subseteq c
                                        /\ (l[1] # l[2] \/ Cardinality(c) = 1)}} = KindsIn(g, c)
<1> DEFINE V == NodesOf(g)
           K == {l \in s.kinds : {l[1], l[2]} \subseteq c /\ (l[1] # l[2] \/ Cardinality(c) = 1)}
           F == {f \in Range(g.edges) : /\ {f.source, f.target} \subseteq c
                                        /\ (f.source # f.target \/ Cardinality(c) = 1)}
<1>1. DOMAIN g.edges = 1 .. s.read
  BY DEF ProperGraph
<1>2. s.kinds = {<<g.edges[i].source, g.edges[i].target, g.edges[i].kind>> :
                  i \in {j \in 1 .. s.read : {g.edges[j].source, g.edges[j].target} \subseteq V}}
  BY DEF ReadInv
<1>3. \A l \in K : \E f \in F : l[3] = f.kind
  <2> SUFFICES ASSUME NEW l \in K PROVE \E f \in F : l[3] = f.kind
    OBVIOUS
  <2>1. PICK i \in 1 .. s.read : l = <<g.edges[i].source, g.edges[i].target, g.edges[i].kind>>
    BY <1>2
  <2>2. l[1] = g.edges[i].source /\ l[2] = g.edges[i].target /\ l[3] = g.edges[i].kind
    BY <2>1
  <2>3. g.edges[i] \in Range(g.edges)
    BY <1>1 DEF Range
  <2> QED BY <2>2, <2>3
<1>4. \A f \in F : \E l \in K : l[3] = f.kind
  <2> SUFFICES ASSUME NEW f \in F PROVE \E l \in K : l[3] = f.kind
    OBVIOUS
  <2>1. PICK i \in 1 .. s.read : f = g.edges[i]
    BY <1>1 DEF Range
  <2> DEFINE l == <<f.source, f.target, f.kind>>
  <2>2. l \in s.kinds
    BY <1>2, <2>1
  <2>3. l[1] = f.source /\ l[2] = f.target /\ l[3] = f.kind
    OBVIOUS
  <2> HIDE DEF l
  <2>4. l \in K
    BY <2>2, <2>3
  <2> QED BY <2>3, <2>4
<1>5. KindsIn(g, c) = {f.kind : f \in F}
  BY DEF KindsIn
<1> HIDE DEF K, F
<1>6. {k[3] : k \in K} = {f.kind : f \in F}
  BY <1>3, <1>4
<1> QED BY <1>5, <1>6 DEF K

THEOREM CyclesAreExactHolds == AnalysisSpec => []CyclesAreExact
<1> SUFFICES ASSUME GraphInv PROVE CyclesAreExact
  BY GraphInvariant, PTL
<1> SUFFICES ASSUME Answered("cycles") PROVE CyclesAreExact!2
  BY DEF CyclesAreExact
<1> DEFINE g == asked
           s == answer
<1>1. ProperGraph(g) /\ SearchInv(g, s)
  BY GraphsAreProper DEF GraphInv, Answered
<1>2. \A c \in s.sccs : \E v \in NodesOf(g) : c = Class(g, v)
  BY <1>1 DEF SearchInv, Known, SccInv
<1>3. ASSUME s.phase = "reported"
      PROVE  /\ {c.nodes : c \in s.cycles} = {Class(g, v) : v \in OnCycle(g)}
             /\ \A c \in s.cycles : c.kinds # {} /\ c.kinds = KindsIn(g, c.nodes)
             /\ SumFunction(s.hubs)
                  = Cardinality({i \in DOMAIN g.edges : g.edges[i].source \notin DOMAIN s.hubs})
  <2>1. /\ s.read = Len(g.edges) /\ s.calls = <<>> /\ \A v \in NodesOf(g) : s.index[v] # 0
        /\ s.cycles = Cycles(s) /\ s.hubs = HubScore(g)
    BY <1>1, <1>3 DEF SearchInv, ReportInv
  <2>2. ReadInv(g, s)
    BY <1>1 DEF SearchInv
  <2> HIDE DEF g, s
  <2>3. Kept(s) = {Class(g, v) : v \in OnCycle(g)} /\ \A c \in Kept(s) : KindsIn(g, c) # {}
    BY <1>1, <2>1, KeptAreCycles
  <2>4. \A c \in Kept(s) : c \subseteq NodesOf(g)
    <3>1. \A v \in OnCycle(g) : Class(g, v) \subseteq NodesOf(g)
      BY DEF Class, Reach
    <3> QED BY <2>3, <3>1
  <2> DEFINE Kinds(c) == {k[3] : k \in {l \in s.kinds : /\ {l[1], l[2]} \subseteq c
                                                        /\ (l[1] # l[2] \/ Cardinality(c) = 1)}}
  <2>5. s.cycles = {[nodes |-> c, kinds |-> Kinds(c)] : c \in Kept(s)}
    BY <2>1 DEF Cycles, Kept
  <2>6. \A c \in Kept(s) : Kinds(c) = KindsIn(g, c)
    BY <1>1, <2>1, <2>2, <2>4, KindsAreExact
  <2> HIDE DEF Kinds
  <2>7. {c.nodes : c \in s.cycles} = Kept(s)
    <3>1. \A d \in s.cycles : d.nodes \in Kept(s)
      BY <2>5
    <3>2. \A c \in Kept(s) : \E d \in s.cycles : d.nodes = c
      <4> SUFFICES ASSUME NEW c \in Kept(s) PROVE \E d \in s.cycles : d.nodes = c
        OBVIOUS
      <4>1. [nodes |-> c, kinds |-> Kinds(c)] \in s.cycles
        BY <2>5
      <4> QED BY <4>1
    <3> QED BY <3>1, <3>2
  <2>8. \A c \in s.cycles : c.kinds # {} /\ c.kinds = KindsIn(g, c.nodes)
    BY <2>3, <2>5, <2>6
  <2>9. SumFunction(s.hubs)
          = Cardinality({i \in DOMAIN g.edges : g.edges[i].source \notin DOMAIN s.hubs})
    BY <1>1, <2>1, HubsBalance
  <2> QED BY <2>3, <2>7, <2>8, <2>9
<1> QED BY <1>2, <1>3
-----------------------------------------------------------------------------
(* The links between the languages of a project: sequences, routes and     *)
(* commands first, then what each turn of a loop adds, then LinkInv.          *)
Listing(s) == s \in Seq(Range(s))

LEMMA ListingIs ==
  ASSUME NEW s, Listing(s)
  PROVE  Len(s) \in Nat /\ DOMAIN s = 1 .. Len(s)
BY DEF Listing

LEMMA Concatenated ==
  ASSUME NEW a, NEW b, Listing(a), Listing(b)
  PROVE  /\ Listing(a \o b) /\ Range(a \o b) = Range(a) \union Range(b)
         /\ Len(a \o b) = Len(a) + Len(b) /\ Len(a) \in Nat /\ Len(b) \in Nat
         /\ \A i \in 1 .. Len(a) : (a \o b)[i] = a[i]
<1> DEFINE S == Range(a) \union Range(b)
           c == a \o b
<1>1. a \in Seq(S) /\ b \in Seq(S)
  BY DEF Listing
<1>2. Len(a) \in Nat /\ Len(b) \in Nat /\ DOMAIN a = 1 .. Len(a) /\ DOMAIN b = 1 .. Len(b)
  BY <1>1
<1>3. /\ c \in Seq(S) /\ Len(c) = Len(a) + Len(b)
      /\ \A i \in 1 .. Len(a) + Len(b) : c[i] = IF i <= Len(a) THEN a[i] ELSE b[i - Len(a)]
  BY <1>1, ConcatProperties
<1>4. DOMAIN c = 1 .. Len(a) + Len(b)
  BY <1>3
<1>5. \A i \in 1 .. Len(a) : c[i] = a[i] /\ i \in DOMAIN c
  BY <1>2, <1>3, <1>4
<1>6. \A i \in 1 .. Len(b) : c[Len(a) + i] = b[i] /\ Len(a) + i \in DOMAIN c
  <2> TAKE i \in 1 .. Len(b)
  <2>1. Len(a) + i \in 1 .. Len(a) + Len(b) /\ ~(Len(a) + i <= Len(a)) /\ (Len(a) + i) - Len(a) = i
    BY <1>2
  <2> QED BY <2>1, <1>3, <1>4
<1>7. Range(c) \subseteq S
  BY <1>3 DEF Range
<1> HIDE DEF c
<1>8. Range(a) \subseteq Range(c)
  BY <1>2, <1>5 DEF Range
<1>9. Range(b) \subseteq Range(c)
  BY <1>2, <1>6 DEF Range
<1>10. Range(c) = S
  BY <1>7, <1>8, <1>9
<1> QED BY <1>2, <1>3, <1>5, <1>10 DEF c, Listing

LEMMA Appended ==
  ASSUME NEW a, NEW x, Listing(a)
  PROVE  /\ Listing(Append(a, x)) /\ Range(Append(a, x)) = Range(a) \union {x}
         /\ Len(Append(a, x)) = Len(a) + 1 /\ Len(a) \in Nat
<1> DEFINE S == Range(a) \union {x}
           c == Append(a, x)
<1>1. a \in Seq(S) /\ x \in S
  BY DEF Listing
<1>2. /\ c \in Seq(S) /\ Len(c) = Len(a) + 1 /\ Len(a) \in Nat
      /\ DOMAIN c = 1 .. Len(a) + 1 /\ DOMAIN a = 1 .. Len(a)
      /\ \A i \in 1 .. Len(a) : c[i] = a[i]
      /\ c[Len(a) + 1] = x
  BY <1>1
<1>3. Range(c) = S
  <2> HIDE DEF c
  <2>1. Range(c) \subseteq S
    BY <1>2 DEF Range
  <2>2. Range(a) \subseteq Range(c)
    BY <1>2 DEF Range
  <2>3. Len(a) + 1 \in DOMAIN c /\ c[Len(a) + 1] = x
    BY <1>2
  <2>4. x \in Range(c)
    BY <2>3 DEF Range
  <2> QED BY <2>1, <2>2, <2>4
<1> QED BY <1>2, <1>3 DEF Listing

(* The places of the hints of one kind among the first n. *)
Places(hints, kind, n) == {i \in 1 .. n : hints[i].kind = kind}

LEMMA OneMore ==
  ASSUME NEW hints, NEW kind, NEW n \in Nat
  PROVE  /\ IsFiniteSet(Places(hints, kind, n)) /\ Cardinality(Places(hints, kind, n)) \in Nat
         /\ Cardinality(Places(hints, kind, n + 1))
              = Cardinality(Places(hints, kind, n)) + (IF hints[n + 1].kind = kind THEN 1 ELSE 0)
<1> DEFINE before == Places(hints, kind, n)
           after == Places(hints, kind, n + 1)
<1>1. IsFiniteSet(1 .. n) /\ before \subseteq 1 .. n
  BY FS_Interval DEF Places
<1>2. IsFiniteSet(before) /\ Cardinality(before) \in Nat /\ n + 1 \notin before
  BY <1>1, FS_Subset, FS_CardinalityType
<1>3. hints[n + 1].kind = kind => after = before \union {n + 1}
  BY DEF Places
<1>4. hints[n + 1].kind # kind => after = before
  BY DEF Places
<1> HIDE DEF before, after
<1>5. Cardinality(before \union {n + 1}) = Cardinality(before) + 1
  BY <1>2, FS_AddElement
<1>6. CASE hints[n + 1].kind = kind
  BY <1>2, <1>3, <1>5, <1>6 DEF before, after
<1>7. CASE hints[n + 1].kind # kind
  BY <1>2, <1>4, <1>7 DEF before, after
<1> QED BY <1>6, <1>7

LEMMA RouteIs ==
  ASSUME NEW p, NEW r, Listing(p.segments), Listing(r.segments)
  PROVE  /\ SameRoute(p, r) <=> Normalize(p) = Normalize(r)
         /\ Len(Normalize(p)) = Len(p.segments) /\ Len(p.segments) \in Nat
<1> DEFINE blank == [style |-> "param", text |-> ""]
<1>1. \A a, b : Token(a) = Token(b) <=> (IF a.style = "text" \/ b.style = "text" THEN a = b ELSE TRUE)
  <2>1. blank.style # "text"
    OBVIOUS
  <2>2. \A a : Token(a) = (IF a.style = "text" THEN a ELSE blank)
    BY DEF Token
  <2> HIDE DEF blank
  <2> QED BY <2>1, <2>2
<1>2. /\ DOMAIN p.segments = 1 .. Len(p.segments) /\ Len(p.segments) \in Nat
      /\ DOMAIN r.segments = 1 .. Len(r.segments) /\ Len(r.segments) \in Nat
  BY DEF Listing
<1>3. /\ Normalize(p) = [i \in 1 .. Len(p.segments) |-> Token(p.segments[i])]
      /\ Normalize(r) = [i \in 1 .. Len(r.segments) |-> Token(r.segments[i])]
  BY <1>2 DEF Normalize
<1>4. Len(Normalize(p)) = Len(p.segments)
  <2> DEFINE n == Len(p.segments)
             f == [i \in 1 .. n |-> Token(p.segments[i])]
             T == {f[i] : i \in 1 .. n}
  <2>1. f \in [1 .. n -> T] /\ n \in Nat
    BY <1>2
  <2>2. Len(f) = n
    <3> HIDE DEF f, n, T
    <3> QED BY <2>1
  <2> QED BY <1>3, <2>2
<1>5. ASSUME SameRoute(p, r) PROVE Normalize(p) = Normalize(r)
  <2>1. Len(p.segments) = Len(r.segments)
    BY <1>5 DEF SameRoute
  <2>2. \A i \in 1 .. Len(p.segments) : Token(p.segments[i]) = Token(r.segments[i])
    BY <1>5, <1>1, <1>2, <2>1 DEF SameRoute
  <2> QED BY <1>3, <2>1, <2>2
<1>6. ASSUME Normalize(p) = Normalize(r) PROVE SameRoute(p, r)
  <2>1. 1 .. Len(p.segments) = 1 .. Len(r.segments)
    BY <1>3, <1>6
  <2>2. Len(p.segments) = Len(r.segments)
    BY <1>2, <2>1
  <2>3. \A i \in 1 .. Len(p.segments) : Normalize(p)[i] = Token(p.segments[i]) /\ Normalize(r)[i] = Token(r.segments[i])
    BY <1>3, <2>2
  <2>4. \A i \in 1 .. Len(p.segments) : Token(p.segments[i]) = Token(r.segments[i])
    BY <1>6, <2>3
  <2> QED BY <1>1, <1>2, <2>2, <2>4 DEF SameRoute
<1> QED BY <1>2, <1>4, <1>5, <1>6

LEMMA Stripped ==
  ASSUME NEW command \in Seq(STRING), NEW file, file.path \in Seq(STRING)
  PROVE  Names(command, file) <=> StripDots(command) # <<>> /\ IsSuffix(StripDots(command), file.path)
<1> DEFINE named == {i \in DOMAIN command : command[i] \notin {".", ".."}}
           first == CHOOSE i \in named : \A j \in named : i <= j
           n == Len(command)
           m == Len(file.path)
           rest == SubSeq(command, first, n)
<1>1. /\ n \in Nat /\ m \in Nat /\ DOMAIN command = 1 .. n /\ DOMAIN file.path = 1 .. m
      /\ \A i \in 1 .. n : command[i] \in STRING
      /\ named \subseteq 1 .. n
  OBVIOUS
<1>2. CASE named = {}
  <2>1. StripDots(command) = <<>>
    BY <1>2 DEF StripDots
  <2>2. \A d \in 0 .. n - 1 : d + 1 \in DOMAIN command
    BY <1>1
  <2>3. ~Names(command, file)
    BY <1>2, <2>2 DEF Names
  <2> QED BY <2>1, <2>3
<1>3. CASE named # {}
  <2>1. \E i \in named : \A j \in named : i <= j
    <3> HIDE DEF named
    <3>1. named \in SUBSET Nat
      BY <1>1
    <3> QED BY <1>3, <3>1, Least
  <2>2. first \in named /\ \A j \in named : first <= j
    BY <2>1
  <2>3. StripDots(command) = rest
    BY <1>3 DEF StripDots
  <2>4. first \in 1 .. n /\ command[first] \notin {".", ".."}
    BY <2>2, <1>1
  <2>5. \A i \in 1 .. n : i < first => command[i] \in {".", ".."}
    BY <2>2, <1>1, <2>4
  <2> HIDE DEF first, named
  <2>6. /\ rest \in Seq(STRING) /\ Len(rest) = n - first + 1
        /\ \A i \in 1 .. n - first + 1 : rest[i] = command[first + i - 1]
    <3>1. \A i \in first .. n : command[i] \in STRING
      BY <1>1, <2>4
    <3>2. first \in Int /\ n \in Int /\ first <= n
      BY <1>1, <2>4
    <3> HIDE DEF n
    <3> QED BY <3>1, <3>2, SubSeqProperties
  <2> DEFINE k == n - first + 1
  <2>7. k \in Nat \ {0} /\ Len(rest) = k /\ rest # <<>>
    <3>1. k \in Nat \ {0} /\ Len(rest) = k
      BY <2>4, <2>6, <1>1
    <3> QED BY <3>1
  <2> HIDE DEF rest
  <2>8. IsSuffix(rest, file.path) <=> k <= m /\ \A i \in 1 .. k : rest[k - i + 1] = file.path[m - i + 1]
    <3> DEFINE a == Reverse(rest)
               b == Reverse(file.path)
    <3>1. /\ a = [i \in 1 .. k |-> rest[(k - i) + 1]]
          /\ b = [i \in 1 .. m |-> file.path[(m - i) + 1]]
      BY <2>7, <1>1 DEF Reverse
    <3>2. \A i \in 1 .. k : rest[(k - i) + 1] \in STRING
      <4>1. \A i \in 1 .. k : (k - i) + 1 \in 1 .. Len(rest)
        BY <2>7
      <4> QED BY <2>6, <4>1
    <3>3. \A i \in 1 .. m : file.path[(m - i) + 1] \in STRING
      BY <1>1
    <3>4. a \in Seq(STRING) /\ Len(a) = k /\ b \in Seq(STRING) /\ Len(b) = m
      <4>1. a \in [1 .. k -> STRING] /\ b \in [1 .. m -> STRING]
        BY <3>1, <3>2, <3>3
      <4>2. k \in Nat /\ m \in Nat
        BY <2>7, <1>1
      <4> HIDE DEF a, b, k, m
      <4> QED BY <4>1, <4>2
    <3>5. \A i \in 1 .. k : a[i] = rest[k - i + 1]
      BY <3>1
    <3>6. \A i \in 1 .. m : b[i] = file.path[m - i + 1]
      BY <3>1
    <3> HIDE DEF a, b
    <3>7. CASE k <= m
      <4>1. \A i \in 1 .. k : a[i] \in STRING /\ b[i] \in STRING
        BY <3>4, <3>7, <2>7, <1>1
      <4>2. /\ SubSeq(a, 1, k) \in Seq(STRING) /\ Len(SubSeq(a, 1, k)) = k
            /\ \A i \in 1 .. k : SubSeq(a, 1, k)[i] = a[i]
        BY <4>1, <2>7, <3>4
      <4>3. /\ SubSeq(b, 1, k) \in Seq(STRING) /\ Len(SubSeq(b, 1, k)) = k
            /\ \A i \in 1 .. k : SubSeq(b, 1, k)[i] = b[i]
        BY <4>1, <2>7, <3>4, <3>7
      <4>4. SubSeq(a, 1, k) = SubSeq(b, 1, k) <=> \A i \in 1 .. k : a[i] = b[i]
        BY <4>2, <4>3, SeqEqual, <2>7
      <4>5. \A i \in 1 .. k : a[i] = b[i] <=> rest[k - i + 1] = file.path[m - i + 1]
        BY <3>5, <3>6, <3>7, <2>7, <1>1
      <4>6. IsSuffix(rest, file.path) <=> SubSeq(a, 1, k) = SubSeq(b, 1, k)
        BY <3>4, <3>7 DEF IsSuffix, IsPrefix, a, b
      <4> QED BY <4>4, <4>5, <4>6, <3>7
    <3>8. CASE ~(k <= m)
      BY <3>4, <3>8 DEF IsSuffix, IsPrefix, a, b
    <3> QED BY <3>7, <3>8
  <2>9. ASSUME NEW d \in 0 .. n - 1, \A i \in 1 .. d : command[i] \in {".", ".."},
               command[d + 1] \notin {".", ".."}
        PROVE  d = first - 1
    <3>1. d + 1 \in 1 .. n /\ first \in 1 .. n
      BY <1>1, <2>4
    <3>2. ~(d + 1 < first)
      BY <2>5, <2>9, <3>1
    <3>3. ~(first \in 1 .. d)
      BY <2>4, <2>9
    <3> QED BY <3>1, <3>2, <3>3
  <2> DEFINE Same(d) == \A i \in d + 1 .. n : command[i] = file.path[m - n + i]
  <2>10. Names(command, file) <=> k <= m /\ Same(first - 1)
    <3>1. first - 1 \in 0 .. n - 1 /\ n - (first - 1) = k
      BY <1>1, <2>4
    <3>2. \A i \in 1 .. first - 1 : command[i] \in {".", ".."}
      BY <2>5, <2>4, <1>1
    <3>3. (first - 1) + 1 = first
      BY <1>1, <2>4
    <3>4. ASSUME Names(command, file) PROVE k <= m /\ Same(first - 1)
      <4>1. PICK d \in 0 .. n - 1 :
              /\ \A i \in 1 .. d : command[i] \in {".", ".."}
              /\ command[d + 1] \notin {".", ".."}
              /\ n - d <= m /\ Same(d)
        BY <3>4 DEF Names
      <4>2. d = first - 1
        BY <2>9, <4>1
      <4> QED BY <4>1, <4>2, <3>1
    <3>5. ASSUME k <= m, Same(first - 1) PROVE Names(command, file)
      <4>1. command[(first - 1) + 1] \notin {".", ".."} /\ n - (first - 1) <= m
        BY <3>1, <3>3, <3>5, <2>4
      <4> QED BY <3>1, <3>2, <3>5, <4>1 DEF Names
    <3> QED BY <3>4, <3>5
  <2>11. Same(first - 1) <=> \A i \in 1 .. k : rest[k - i + 1] = file.path[m - i + 1]
    <3>1. \A i \in 1 .. k : rest[k - i + 1] = command[n - i + 1] /\ m - n + (n - i + 1) = m - i + 1
      <4> TAKE i \in 1 .. k
      <4>1. k - i + 1 \in 1 .. n - first + 1 /\ first + (k - i + 1) - 1 = n - i + 1
        BY <2>4, <2>7, <1>1
      <4>2. rest[k - i + 1] = command[first + (k - i + 1) - 1]
        BY <2>6, <4>1
      <4>3. rest[k - i + 1] = command[n - i + 1]
        BY <4>1, <4>2
      <4>4. m - n + (n - i + 1) = m - i + 1
        <5>1. m \in Nat /\ n \in Nat /\ i \in Int
          BY <1>1, <2>7
        <5> HIDE DEF m, n
        <5> QED BY <5>1
      <4> QED BY <4>3, <4>4
    <3>2. ASSUME Same(first - 1), NEW i \in 1 .. k PROVE rest[k - i + 1] = file.path[m - i + 1]
      <4>1. n - i + 1 \in (first - 1) + 1 .. n
        BY <2>4, <2>7, <1>1
      <4>2. command[n - i + 1] = file.path[m - n + (n - i + 1)]
        BY <3>2, <4>1
      <4> QED BY <4>2, <3>1
    <3>3. ASSUME \A i \in 1 .. k : rest[k - i + 1] = file.path[m - i + 1] PROVE Same(first - 1)
      <4> SUFFICES ASSUME NEW j \in (first - 1) + 1 .. n PROVE command[j] = file.path[m - n + j]
        OBVIOUS
      <4>1. n - j + 1 \in 1 .. k /\ n - (n - j + 1) + 1 = j /\ m - (n - j + 1) + 1 = m - n + j
        BY <2>4, <2>7, <1>1
      <4>2. rest[k - (n - j + 1) + 1] = command[j]
        BY <3>1, <4>1
      <4> QED BY <3>3, <4>1, <4>2
    <3> QED BY <3>2, <3>3
  <2> QED BY <2>3, <2>7, <2>8, <2>10, <2>11
<1> QED BY <1>2, <1>3

HttpClients(q) == OfKind(q, "http_client")
SpawnCallers(q) == OfKind(q, "subprocess")

(* Every route kept is served, by the node it is kept with.                  *)
Served(q, servers) ==
  \A r \in DOMAIN servers :
    Len(r) > 1 /\ \E h \in OfKind(q, "http_server") : Normalize(h.path) = r /\ servers[r] = h.node

CallIsSound(q, e) ==
  /\ e.kind = "cross_language_call" /\ e.source # e.target
  /\ \E c \in HttpClients(q) :
       c.node = e.source /\ e.target \in Serving(q, c) /\ Len(c.path.segments) > 1
SpawnIsSound(q, e) ==
  /\ e.kind = "cross_language_spawn" /\ e.source # e.target
  /\ \E h \in SpawnCallers(q) : h.node = e.source /\ e.target \in NamedBy(q, h)

CallIsMade(servers, cross, h) ==
  h.kind = "http_client" /\ Normalize(h.path) \in DOMAIN servers /\ servers[Normalize(h.path)] # h.node
    => CrossEdge(h, servers[Normalize(h.path)], "cross_language_call") \in Range(cross)
SpawnIsMade(q, cross, h) ==
  h.kind = "subprocess" /\ NamedBy(q, h) # {}
    => \/ h.node \in NamedBy(q, h)
       \/ \E t \in NamedBy(q, h) : CrossEdge(h, t, "cross_language_spawn") \in Range(cross)

(* What a turn adds to the edges.                                            *)
Extends(q, a, b, n) ==
  /\ Listing(b) /\ Range(a) \subseteq Range(b) /\ Len(b) \in Nat /\ Len(b) <= Len(a) + n
  /\ \A e \in Range(b) \ Range(a) : CallIsSound(q, e) \/ SpawnIsSound(q, e)

LEMMA ServeEffect ==
  ASSUME NEW q, ProperProject(q), NEW h \in HintsOf(q), NEW servers, Served(q, servers)
  PROVE  /\ Served(q, Serve(servers, h)) /\ DOMAIN servers \subseteq DOMAIN Serve(servers, h)
         /\ h.kind = "http_server" /\ Len(Normalize(h.path)) > 1
              => Normalize(h.path) \in DOMAIN Serve(servers, h)
<1> DEFINE route == Normalize(h.path)
           t == Serve(servers, h)
<1>1. CASE h.kind # "http_server" \/ Len(route) < 2
  <2>1. t = servers
    BY <1>1 DEF Serve
  <2>2. CASE h.kind # "http_server"
    BY <2>1, <2>2
  <2>3. CASE h.kind = "http_server" /\ Len(route) < 2
    <3>1. Listing(h.path.segments)
      BY <2>3 DEF ProperProject, ProperHint, Listing
    <3>2. Len(route) \in Nat
      BY <3>1, RouteIs
    <3>3. ~(Len(route) > 1)
      BY <2>3, <3>2
    <3> QED BY <2>1, <3>3
  <2> QED BY <1>1, <2>2, <2>3
<1>2. CASE ~(h.kind # "http_server" \/ Len(route) < 2)
  <2>1. t = [r \in DOMAIN servers \union {route} |-> IF r = route THEN h.node ELSE servers[r]]
    BY <1>2 DEF Serve
  <2>2. Listing(h.path.segments) /\ h \in OfKind(q, "http_server")
    BY <1>2 DEF ProperProject, ProperHint, Listing, OfKind
  <2>3. Len(route) \in Nat
    BY <2>2, RouteIs
  <2>4. Len(route) > 1
    BY <1>2, <2>3
  <2> HIDE DEF t, route
  <2>5. ASSUME NEW r \in DOMAIN t
        PROVE  Len(r) > 1 /\ \E g \in OfKind(q, "http_server") : Normalize(g.path) = r /\ t[r] = g.node
    <3>1. CASE r = route
      <4>1. t[r] = h.node /\ Normalize(h.path) = r
        BY <2>1, <2>5, <3>1 DEF route
      <4> QED BY <2>2, <2>4, <3>1, <4>1
    <3>2. CASE r # route
      <4>1. r \in DOMAIN servers /\ t[r] = servers[r]
        BY <2>1, <2>5, <3>2
      <4> QED BY <4>1 DEF Served
    <3> QED BY <3>1, <3>2
  <2>6. Served(q, t)
    BY <2>5 DEF Served
  <2>7. DOMAIN servers \subseteq DOMAIN t /\ route \in DOMAIN t
    BY <2>1
  <2> QED BY <2>6, <2>7 DEF t, route
<1> QED BY <1>1, <1>2

LEMMA CallEffect ==
  ASSUME NEW q, ProperProject(q), NEW h \in HintsOf(q), NEW servers, Served(q, servers),
         NEW cross, Listing(cross), NEW t, t = Call(cross, h, servers)
  PROVE  Extends(q, cross, t, IF h.kind = "http_client" THEN 1 ELSE 0) /\ CallIsMade(servers, t, h)
<1> DEFINE route == Normalize(h.path)
           e == CrossEdge(h, servers[route], "cross_language_call")
<1>1. Len(cross) \in Nat
  BY DEF Listing
<1>2. CASE h.kind # "http_client" \/ route \notin DOMAIN servers \/ servers[route] = h.node
  <2>1. t = cross
    BY <1>2 DEF Call
  <2> QED BY <1>1, <1>2, <2>1 DEF Extends, CallIsMade
<1>3. CASE ~(h.kind # "http_client" \/ route \notin DOMAIN servers \/ servers[route] = h.node)
  <2>1. t = Append(cross, e)
    BY <1>3 DEF Call
  <2>2. /\ e.source = h.node /\ e.target = servers[route] /\ e.kind = "cross_language_call"
    BY DEF CrossEdge
  <2>3. Listing(h.path.segments) /\ h \in HttpClients(q)
    BY <1>3 DEF ProperProject, ProperHint, Listing, OfKind, HttpClients
  <2>4. PICK s \in OfKind(q, "http_server") : Normalize(s.path) = route /\ servers[route] = s.node
    BY <1>3 DEF Served
  <2>5. Len(route) > 1
    BY <1>3 DEF Served
  <2>6. Listing(s.path.segments)
    BY <2>4 DEF ProperProject, ProperHint, Listing, OfKind
  <2>7. SameRoute(s.path, h.path) /\ Len(h.path.segments) > 1
    BY <2>3, <2>4, <2>5, <2>6, RouteIs
  <2>8. servers[route] \in Serving(q, h)
    BY <2>4, <2>7 DEF Serving
  <2> HIDE DEF e, route
  <2>9. CallIsSound(q, e)
    BY <1>3, <2>2, <2>3, <2>7, <2>8 DEF CallIsSound
  <2>10. Listing(t) /\ Range(t) = Range(cross) \union {e} /\ Len(t) = Len(cross) + 1
    BY <2>1, Appended
  <2>11. CallIsMade(servers, t, h)
    BY <2>10 DEF CallIsMade, e, route
  <2>12. Extends(q, cross, t, 1)
    BY <1>1, <2>9, <2>10 DEF Extends
  <2> QED BY <1>3, <2>11, <2>12
<1> QED BY <1>2, <1>3

LEMMA SpawnEffect ==
  ASSUME NEW q, ProperProject(q), NEW h \in HintsOf(q),
         NEW cross, Listing(cross), NEW t, t = Spawn(cross, h, q.order)
  PROVE  Extends(q, cross, t, IF h.kind = "subprocess" THEN 1 ELSE 0) /\ SpawnIsMade(q, t, h)
<1> DEFINE order == q.order
           command == StripDots(h.path)
           matches == {i \in DOMAIN order : IsSuffix(command, order[i].path)}
           first == CHOOSE i \in matches : \A j \in matches : i <= j
           file == order[first]
           e == CrossEdge(h, file.id, "cross_language_spawn")
<1>1. Len(cross) \in Nat /\ DOMAIN order \subseteq Nat
  BY DEF Listing, ProperProject
<1>2. CASE h.kind # "subprocess"
  <2>1. t = cross
    BY <1>2 DEF Spawn
  <2> QED BY <1>1, <1>2, <2>1 DEF Extends, SpawnIsMade
<1>3. CASE h.kind = "subprocess"
  <2>1. h.path \in Seq(STRING) /\ h \in SpawnCallers(q)
    BY <1>3 DEF ProperProject, ProperHint, OfKind, SpawnCallers
  <2>2. \A i \in DOMAIN order : order[i] \in Range(order) /\ order[i].path \in Seq(STRING)
    BY DEF ProperProject, Range
  <2>3. \A i \in DOMAIN order : Names(h.path, order[i]) <=> command # <<>> /\ i \in matches
    BY <2>1, <2>2, Stripped
  <2>4. CASE command = <<>> \/ matches = {}
    <3>1. t = cross
      BY <2>4 DEF Spawn
    <3>2. \A i \in DOMAIN order : ~Names(h.path, order[i])
      BY <2>3, <2>4
    <3>3. NamedBy(q, h) = {}
      BY <3>2 DEF NamedBy, Range
    <3> QED BY <1>1, <1>3, <3>1, <3>3 DEF Extends, SpawnIsMade
  <2>5. CASE ~(command = <<>> \/ matches = {})
    <3>1. \E i \in matches : \A j \in matches : i <= j
      <4> HIDE DEF matches
      <4>1. matches \in SUBSET Nat
        BY <1>1 DEF matches
      <4> QED BY <4>1, <2>5, Least
    <3>2. first \in matches
      BY <3>1
    <3> HIDE DEF first
    <3>3. first \in DOMAIN order /\ Names(h.path, file) /\ file \in Range(order)
      BY <2>2, <2>3, <2>5, <3>2
    <3>4. file.id \in NamedBy(q, h)
      BY <3>3 DEF NamedBy
    <3>5. CASE file.id = h.node
      <4>1. t = cross
        BY <3>5 DEF Spawn, first
      <4> QED BY <1>1, <1>3, <3>4, <3>5, <4>1 DEF Extends, SpawnIsMade
    <3>6. CASE file.id # h.node
      <4>1. t = Append(cross, e)
        BY <1>3, <2>5, <3>6 DEF Spawn, first
      <4>2. e.source = h.node /\ e.target = file.id /\ e.kind = "cross_language_spawn"
        BY DEF CrossEdge
      <4> HIDE DEF e
      <4>3. SpawnIsSound(q, e)
        BY <2>1, <3>4, <3>6, <4>2 DEF SpawnIsSound
      <4>4. Listing(t) /\ Range(t) = Range(cross) \union {e} /\ Len(t) = Len(cross) + 1
        BY <4>1, Appended
      <4>5. SpawnIsMade(q, t, h)
        BY <3>4, <4>4 DEF SpawnIsMade, e
      <4>6. Extends(q, cross, t, 1)
        BY <1>1, <4>3, <4>4 DEF Extends
      <4> QED BY <1>3, <4>5, <4>6
    <3> QED BY <3>5, <3>6
  <2> QED BY <2>4, <2>5
<1> QED BY <1>2, <1>3

-----------------------------------------------------------------------------
(* How many graphs are merged, and how many hints the n-th loop after that   *)
(* has had.                                                                   *)
Rank == [merge |-> 0, serve |-> 1, call |-> 2, spawn |-> 3, parsed |-> 4]
Merged(q, s) == IF s.status = "merge" THEN s.at ELSE Len(q.graphs)
Turns(s, n) == IF Rank[s.status] < n THEN 0
               ELSE IF Rank[s.status] = n THEN s.at ELSE Len(s.hints)

LinkTypes(q, s) ==
  /\ DOMAIN s = {"status", "at", "languages", "nodes", "edges", "hints", "servers", "cross"}
  /\ s.status \in DOMAIN Rank /\ s.at \in Nat
  /\ Listing(s.hints) /\ Listing(s.edges) /\ Listing(s.cross)
  /\ s.status = "merge" => s.at <= Len(q.graphs)
  /\ s.status \in {"serve", "call", "spawn"} => s.at <= Len(s.hints)

MergeInv(q, s) ==
  LET graphs == {q.graphs[i] : i \in 1 .. Merged(q, s)}
  IN  /\ s.nodes = UNION {g.nodes : g \in graphs}
      /\ Range(s.hints) = UNION {Range(g.hints) : g \in graphs}
      /\ Range(s.edges) = (UNION {Range(g.edges) : g \in graphs})
                          \union (IF s.status = "parsed" THEN Range(s.cross) ELSE {})

ServersInv(q, s) ==
  /\ Served(q, s.servers)
  /\ \A i \in 1 .. Turns(s, 1) :
       s.hints[i].kind = "http_server" /\ Len(Normalize(s.hints[i].path)) > 1
         => Normalize(s.hints[i].path) \in DOMAIN s.servers

CrossInv(q, s) ==
  /\ \A e \in Range(s.cross) : CallIsSound(q, e) \/ SpawnIsSound(q, e)
  /\ \A i \in 1 .. Turns(s, 2) : CallIsMade(s.servers, s.cross, s.hints[i])
  /\ \A i \in 1 .. Turns(s, 3) : SpawnIsMade(q, s.cross, s.hints[i])
  /\ Len(s.cross) <= Cardinality(Places(s.hints, "http_client", Turns(s, 2)))
                     + Cardinality(Places(s.hints, "subprocess", Turns(s, 3)))

LinkInv(q, s) ==
  s.status # "no parser" => LinkTypes(q, s) /\ MergeInv(q, s) /\ ServersInv(q, s) /\ CrossInv(q, s)

LEMMA GraphFacts ==
  ASSUME NEW q, ProperProject(q)
  PROVE  /\ Len(q.graphs) \in Nat /\ DOMAIN q.graphs = 1 .. Len(q.graphs)
         /\ \A i \in 1 .. Len(q.graphs) : Listing(q.graphs[i].hints) /\ Listing(q.graphs[i].edges)
BY DEF ProperProject, Listing

LEMMA NoPlaces ==
  ASSUME NEW hints, NEW kind PROVE Cardinality(Places(hints, kind, 0)) = 0
<1>1. Places(hints, kind, 0) = {}
  BY DEF Places
<1> QED BY <1>1, FS_EmptySet

LEMMA TurnsAre ==
  ASSUME NEW s
  PROVE  /\ s.status = "merge" => Turns(s, 1) = 0 /\ Turns(s, 2) = 0 /\ Turns(s, 3) = 0
         /\ s.status = "serve" => Turns(s, 1) = s.at /\ Turns(s, 2) = 0 /\ Turns(s, 3) = 0
         /\ s.status = "call" => Turns(s, 1) = Len(s.hints) /\ Turns(s, 2) = s.at /\ Turns(s, 3) = 0
         /\ s.status = "spawn" => Turns(s, 1) = Len(s.hints) /\ Turns(s, 2) = Len(s.hints) /\ Turns(s, 3) = s.at
         /\ s.status = "parsed" =>
              Turns(s, 1) = Len(s.hints) /\ Turns(s, 2) = Len(s.hints) /\ Turns(s, 3) = Len(s.hints)
<1>1. Rank["merge"] = 0 /\ Rank["serve"] = 1 /\ Rank["call"] = 2 /\ Rank["spawn"] = 3 /\ Rank["parsed"] = 4
  BY DEF Rank
<1> QED BY <1>1 DEF Turns

LEMMA BeginLink ==
  ASSUME NEW q, ProperProject(q),
         NEW s, s = [status |-> "merge", at |-> 0, languages |-> <<>>, nodes |-> {}, edges |-> <<>>,
                     hints |-> <<>>, servers |-> [r \in {} |-> 0], cross |-> <<>>]
  PROVE  LinkInv(q, s)
<1>1. /\ DOMAIN s = {"status", "at", "languages", "nodes", "edges", "hints", "servers", "cross"}
      /\ s.status = "merge" /\ s.at = 0 /\ s.nodes = {} /\ s.edges = <<>> /\ s.hints = <<>>
      /\ DOMAIN s.servers = {} /\ s.cross = <<>>
  OBVIOUS
<1>2. Listing(<<>>) /\ Range(<<>>) = {} /\ Len(<<>>) = 0
  BY DEF Listing, Range
<1>3. Rank.merge = 0 /\ "merge" \in DOMAIN Rank
  BY DEF Rank
<1>4. Merged(q, s) = 0 /\ Turns(s, 1) = 0 /\ Turns(s, 2) = 0 /\ Turns(s, 3) = 0
  BY <1>1, TurnsAre DEF Merged
<1>5. LinkTypes(q, s)
  BY <1>1, <1>2, <1>3, GraphFacts DEF LinkTypes
<1>6. MergeInv(q, s)
  <2>1. {q.graphs[i] : i \in 1 .. Merged(q, s)} = {}
    BY <1>4
  <2> QED BY <1>1, <1>2, <2>1 DEF MergeInv
<1>7. ServersInv(q, s)
  BY <1>1, <1>4 DEF ServersInv, Served
<1>8. CrossInv(q, s)
  BY <1>1, <1>2, <1>4, NoPlaces DEF CrossInv
<1> QED BY <1>5, <1>6, <1>7, <1>8 DEF LinkInv

OneMerged(s, g, t) ==
  /\ DOMAIN t = DOMAIN s /\ t.status = s.status /\ t.at = s.at + 1 /\ t.nodes = s.nodes \union g.nodes
  /\ t.edges = s.edges \o g.edges /\ t.hints = s.hints \o g.hints
  /\ t.servers = s.servers /\ t.cross = s.cross

LEMMA MergeKeeps ==
  ASSUME NEW q, ProperProject(q), NEW s, LinkInv(q, s), s.status = "merge", s.at < Len(q.graphs),
         NEW g, g = q.graphs[s.at + 1], NEW t, OneMerged(s, g, t)
  PROVE  LinkInv(q, t)
<1>1. LinkTypes(q, s) /\ MergeInv(q, s) /\ ServersInv(q, s) /\ CrossInv(q, s)
  BY DEF LinkInv
<1>2. /\ DOMAIN t = DOMAIN s /\ t.status = "merge" /\ t.at = s.at + 1 /\ t.nodes = s.nodes \union g.nodes
      /\ t.edges = s.edges \o g.edges /\ t.hints = s.hints \o g.hints
      /\ t.servers = s.servers /\ t.cross = s.cross
  BY DEF OneMerged
<1>3. s.at \in Nat /\ Listing(s.hints) /\ Listing(s.edges) /\ Listing(s.cross) /\ Len(q.graphs) \in Nat
  BY <1>1, GraphFacts DEF LinkTypes
<1>4. Listing(g.hints) /\ Listing(g.edges)
  <2>1. s.at + 1 \in 1 .. Len(q.graphs)
    BY <1>3
  <2> QED BY <2>1, GraphFacts
<1>5. /\ Listing(t.hints) /\ Range(t.hints) = Range(s.hints) \union Range(g.hints)
      /\ Listing(t.edges) /\ Range(t.edges) = Range(s.edges) \union Range(g.edges)
  <2>1. Listing(s.hints \o g.hints) /\ Range(s.hints \o g.hints) = Range(s.hints) \union Range(g.hints)
    BY <1>3, <1>4, Concatenated
  <2>2. Listing(s.edges \o g.edges) /\ Range(s.edges \o g.edges) = Range(s.edges) \union Range(g.edges)
    BY <1>3, <1>4, Concatenated
  <2> QED BY <1>2, <2>1, <2>2
<1>6. LinkTypes(q, t)
  BY <1>1, <1>2, <1>3, <1>5 DEF LinkTypes
<1>7. Merged(q, s) = s.at /\ Merged(q, t) = s.at + 1
  BY <1>2 DEF Merged
<1>8. MergeInv(q, t)
  <2> DEFINE before == {q.graphs[i] : i \in 1 .. s.at}
             after == {q.graphs[i] : i \in 1 .. s.at + 1}
  <2>1. after = before \union {g}
    <3>1. 1 .. s.at + 1 = (1 .. s.at) \union {s.at + 1}
      BY <1>3
    <3> QED BY <3>1
  <2>2. /\ s.nodes = UNION {h.nodes : h \in before}
        /\ Range(s.hints) = UNION {Range(h.hints) : h \in before}
        /\ Range(s.edges) = UNION {Range(h.edges) : h \in before}
    BY <1>1, <1>7 DEF MergeInv
  <2> HIDE DEF before, after
  <2>3. /\ t.nodes = UNION {h.nodes : h \in after}
        /\ Range(t.hints) = UNION {Range(h.hints) : h \in after}
        /\ Range(t.edges) = UNION {Range(h.edges) : h \in after}
    BY <1>2, <1>5, <2>1, <2>2
  <2> QED BY <1>2, <1>7, <2>3 DEF MergeInv, after
<1>9. /\ Turns(s, 1) = 0 /\ Turns(s, 2) = 0 /\ Turns(s, 3) = 0
      /\ Turns(t, 1) = 0 /\ Turns(t, 2) = 0 /\ Turns(t, 3) = 0
  BY <1>2, TurnsAre
<1>10. ServersInv(q, t)
  <2>1. \A i : ~(i \in 1 .. Turns(t, 1))
    BY <1>9
  <2>2. Served(q, t.servers)
    BY <1>1, <1>2 DEF ServersInv
  <2> QED BY <2>1, <2>2 DEF ServersInv
<1>11. CrossInv(q, t)
  <2>1. Len(s.cross) <= 0 + 0
    BY <1>1, <1>9, NoPlaces DEF CrossInv
  <2>2. \A i : ~(i \in 1 .. Turns(t, 2)) /\ ~(i \in 1 .. Turns(t, 3))
    BY <1>9
  <2>3. \A e \in Range(t.cross) : CallIsSound(q, e) \/ SpawnIsSound(q, e)
    BY <1>1, <1>2 DEF CrossInv
  <2>4. Len(t.cross) <= Cardinality(Places(t.hints, "http_client", Turns(t, 2)))
                        + Cardinality(Places(t.hints, "subprocess", Turns(t, 3)))
    BY <1>2, <1>9, <2>1, NoPlaces
  <2> QED BY <2>2, <2>3, <2>4 DEF CrossInv
<1> QED BY <1>6, <1>8, <1>10, <1>11 DEF LinkInv

(* The next loop, or the end of the last, with the edges it returns.         *)
LoopEnded(q, s, t) ==
  /\ DOMAIN t = DOMAIN s /\ t.nodes = s.nodes /\ t.hints = s.hints
  /\ t.servers = s.servers /\ t.cross = s.cross
  /\ \/ /\ s.status = "merge" /\ t.status = "serve" /\ t.at = 0 /\ s.at = Len(q.graphs) /\ t.edges = s.edges
     \/ /\ s.status = "serve" /\ t.status = "call" /\ t.at = 0 /\ s.at = Len(s.hints) /\ t.edges = s.edges
     \/ /\ s.status = "call" /\ t.status = "spawn" /\ t.at = 0 /\ s.at = Len(s.hints) /\ t.edges = s.edges
     \/ /\ s.status = "spawn" /\ t.status = "parsed" /\ t.at = s.at /\ s.at = Len(s.hints)
        /\ t.edges = s.edges \o s.cross

LEMMA ZeroIsLeast == \A n \in Nat, k \in Nat : k = 0 => k <= n
OBVIOUS

LEMMA LoopKeeps ==
  ASSUME NEW q, ProperProject(q), NEW s, LinkInv(q, s), s.status # "no parser", NEW t, LoopEnded(q, s, t)
  PROVE  LinkInv(q, t)
<1>1. LinkTypes(q, s) /\ MergeInv(q, s) /\ ServersInv(q, s) /\ CrossInv(q, s)
  BY DEF LinkInv
<1>2. /\ DOMAIN t = DOMAIN s /\ t.nodes = s.nodes /\ t.hints = s.hints
      /\ t.servers = s.servers /\ t.cross = s.cross
  BY DEF LoopEnded
<1>3. /\ Listing(s.hints) /\ Listing(s.edges) /\ Listing(s.cross) /\ Len(s.hints) \in Nat /\ s.at \in Nat
      /\ Len(q.graphs) \in Nat
  BY <1>1, GraphFacts, ListingIs DEF LinkTypes
<1>4. /\ Turns(t, 1) = Turns(s, 1) /\ Turns(t, 2) = Turns(s, 2) /\ Turns(t, 3) = Turns(s, 3)
  <2>1. CASE s.status = "merge"
    BY <1>2, <2>1, TurnsAre DEF LoopEnded
  <2>2. CASE s.status = "serve"
    BY <1>2, <2>2, TurnsAre DEF LoopEnded
  <2>3. CASE s.status = "call"
    BY <1>2, <2>3, TurnsAre DEF LoopEnded
  <2>4. CASE s.status = "spawn"
    BY <1>2, <2>4, TurnsAre DEF LoopEnded
  <2> QED BY <2>1, <2>2, <2>3, <2>4 DEF LoopEnded
<1>5. Merged(q, t) = Merged(q, s)
  BY DEF LoopEnded, Merged
<1>6. /\ Listing(t.edges)
      /\ Range(t.edges) = Range(s.edges) \union (IF t.status = "parsed" THEN Range(t.cross) ELSE {})
      /\ s.status # "parsed"
  <2>1. CASE s.status = "spawn"
    <3>1. t.edges = s.edges \o s.cross /\ t.status = "parsed"
      BY <2>1 DEF LoopEnded
    <3>2. Listing(s.edges \o s.cross) /\ Range(s.edges \o s.cross) = Range(s.edges) \union Range(s.cross)
      BY <1>3, Concatenated
    <3> QED BY <1>2, <2>1, <3>1, <3>2
  <2>2. CASE s.status # "spawn"
    <3>1. t.edges = s.edges /\ t.status # "parsed" /\ s.status # "parsed"
      BY <2>2 DEF LoopEnded
    <3> QED BY <1>3, <3>1
  <2> QED BY <2>1, <2>2
<1>7. LinkTypes(q, t)
  <2>1. /\ t.status \in {"serve", "call", "spawn", "parsed"} /\ t.at \in Nat
        /\ t.status # "parsed" => t.at = 0
    <3>1. 0 \in Nat
      OBVIOUS
    <3> QED BY <1>3, <3>1 DEF LoopEnded
  <2>2. t.status \in DOMAIN Rank
    BY <2>1 DEF Rank
  <2>3. t.status \in {"serve", "call", "spawn"} => t.at <= Len(t.hints)
    <3>1. t.status \in {"serve", "call", "spawn"} => t.status # "parsed"
      OBVIOUS
    <3>2. Len(t.hints) \in Nat
      BY <1>2, <1>3
    <3>3. t.status \in {"serve", "call", "spawn"} => t.at = 0
      BY <2>1, <3>1
    <3>4. t.at = 0 => t.at <= Len(t.hints)
      BY <2>1, <3>2, ZeroIsLeast
    <3> QED BY <3>3, <3>4
  <2>4. t.status # "merge"
    BY <2>1
  <2>5. DOMAIN t = {"status", "at", "languages", "nodes", "edges", "hints", "servers", "cross"}
    BY <1>1, <1>2 DEF LinkTypes
  <2> QED BY <1>2, <1>3, <1>6, <2>1, <2>2, <2>3, <2>4, <2>5 DEF LinkTypes
<1>8. MergeInv(q, t)
  <2>1. /\ s.nodes = UNION {g.nodes : g \in {q.graphs[i] : i \in 1 .. Merged(q, s)}}
        /\ Range(s.hints) = UNION {Range(g.hints) : g \in {q.graphs[i] : i \in 1 .. Merged(q, s)}}
        /\ Range(s.edges) = UNION {Range(g.edges) : g \in {q.graphs[i] : i \in 1 .. Merged(q, s)}}
    BY <1>1, <1>6 DEF MergeInv
  <2>2. Range(t.edges) = (UNION {Range(g.edges) : g \in {q.graphs[i] : i \in 1 .. Merged(q, t)}})
                        \union (IF t.status = "parsed" THEN Range(t.cross) ELSE {})
    <3>1. Range(s.edges) = UNION {Range(g.edges) : g \in {q.graphs[i] : i \in 1 .. Merged(q, t)}}
      BY <1>5, <2>1
    <3>2. CASE t.status = "parsed"
      <4>1. Range(t.edges) = Range(s.edges) \union Range(t.cross)
        BY <1>6, <3>2
      <4> QED BY <3>1, <3>2, <4>1
    <3>3. CASE t.status # "parsed"
      <4>1. Range(t.edges) = Range(s.edges) \union {}
        BY <1>6, <3>3
      <4>2. Range(t.edges) = Range(s.edges)
        BY <4>1
      <4> QED BY <3>1, <3>3, <4>2
    <3> QED BY <3>2, <3>3
  <2> QED BY <1>2, <1>5, <2>1, <2>2 DEF MergeInv
<1>9. ServersInv(q, t)
  BY <1>1, <1>2, <1>4 DEF ServersInv
<1>10. CrossInv(q, t)
  BY <1>1, <1>2, <1>4 DEF CrossInv
<1> QED BY <1>7, <1>8, <1>9, <1>10 DEF LinkInv

(* One turn of a loop over the hints.                                        *)
TurnDone(s, t, loop) ==
  /\ s.status = loop /\ s.at < Len(s.hints)
  /\ DOMAIN t = DOMAIN s /\ t.status = loop /\ t.at = s.at + 1
  /\ t.nodes = s.nodes /\ t.hints = s.hints /\ t.edges = s.edges

LEMMA TurnKeeps ==
  ASSUME NEW q, ProperProject(q), NEW s, LinkInv(q, s), NEW loop \in {"serve", "call", "spawn"},
         NEW t, TurnDone(s, t, loop), Listing(t.cross)
  PROVE  /\ LinkTypes(q, t) /\ MergeInv(q, t)
         /\ s.hints[s.at + 1] \in HintsOf(q) /\ s.at \in Nat /\ Len(s.hints) \in Nat /\ s.at < Len(s.hints)
<1>1. s.status = loop /\ s.status # "no parser"
  BY DEF TurnDone
<1>2. LinkTypes(q, s) /\ MergeInv(q, s)
  BY <1>1 DEF LinkInv
<1>3. Listing(s.hints) /\ Len(s.hints) \in Nat /\ s.at \in Nat /\ s.at < Len(s.hints)
  BY <1>2, ListingIs DEF LinkTypes, TurnDone
<1>4. LinkTypes(q, t)
  <2>1. t.status = s.status /\ t.status # "merge" /\ t.at = s.at + 1 /\ t.hints = s.hints /\ t.edges = s.edges
        /\ DOMAIN t = DOMAIN s
    BY DEF TurnDone
  <2>2. t.at \in Nat /\ t.at <= Len(t.hints)
    BY <1>3, <2>1
  <2> QED BY <1>2, <2>1, <2>2 DEF LinkTypes
<1>5. Merged(q, t) = Len(q.graphs) /\ Merged(q, s) = Len(q.graphs)
  BY DEF Merged, TurnDone
<1>6. MergeInv(q, t)
  BY <1>2, <1>5 DEF MergeInv, TurnDone
<1>7. s.hints[s.at + 1] \in Range(s.hints)
  BY <1>3 DEF Listing, Range
<1>8. Range(s.hints) \subseteq HintsOf(q)
  <2>1. Range(s.hints) = UNION {Range(g.hints) : g \in {q.graphs[i] : i \in 1 .. Len(q.graphs)}}
    BY <1>2, <1>5 DEF MergeInv
  <2> QED BY <2>1, GraphFacts DEF HintsOf
<1> QED BY <1>3, <1>4, <1>6, <1>7, <1>8

LEMMA ServeTurnKeeps ==
  ASSUME NEW q, ProperProject(q), NEW s, LinkInv(q, s), NEW t, TurnDone(s, t, "serve"),
         t.cross = s.cross, t.servers = Serve(s.servers, s.hints[s.at + 1])
  PROVE  LinkInv(q, t)
<1> DEFINE h == s.hints[s.at + 1]
<1>1. s.status = "serve" /\ t.status = "serve" /\ t.at = s.at + 1 /\ t.hints = s.hints /\ s.status # "no parser"
  BY DEF TurnDone
<1>2. ServersInv(q, s) /\ CrossInv(q, s) /\ Listing(s.cross)
  BY <1>1 DEF LinkInv, LinkTypes
<1>3. LinkTypes(q, t) /\ MergeInv(q, t) /\ h \in HintsOf(q) /\ s.at \in Nat
  <2>1. Listing(t.cross)
    BY <1>2
  <2>2. "serve" \in {"serve", "call", "spawn"}
    OBVIOUS
  <2> QED BY <2>1, <2>2, TurnKeeps
<1>4. /\ Turns(s, 1) = s.at /\ Turns(s, 2) = 0 /\ Turns(s, 3) = 0
      /\ Turns(t, 1) = s.at + 1 /\ Turns(t, 2) = 0 /\ Turns(t, 3) = 0
  BY <1>1, TurnsAre
<1> HIDE DEF h
<1>5. /\ Served(q, t.servers) /\ DOMAIN s.servers \subseteq DOMAIN t.servers
      /\ h.kind = "http_server" /\ Len(Normalize(h.path)) > 1 => Normalize(h.path) \in DOMAIN t.servers
  <2>1. Served(q, s.servers)
    BY <1>2 DEF ServersInv
  <2> QED BY <1>3, <2>1, ServeEffect DEF h
<1>6. ServersInv(q, t)
  <2>1. ASSUME NEW i \in 1 .. s.at + 1, t.hints[i].kind = "http_server",
               Len(Normalize(t.hints[i].path)) > 1
        PROVE  Normalize(t.hints[i].path) \in DOMAIN t.servers
    <3>1. CASE i = s.at + 1
      BY <1>1, <1>5, <2>1, <3>1 DEF h
    <3>2. CASE i \in 1 .. s.at
      BY <1>1, <1>2, <1>4, <1>5, <2>1, <3>2 DEF ServersInv
    <3>3. i = s.at + 1 \/ i \in 1 .. s.at
      BY <1>3
    <3> QED BY <3>1, <3>2, <3>3
  <2> QED BY <1>4, <1>5, <2>1 DEF ServersInv
<1>7. CrossInv(q, t)
  <2>1. \A i : ~(i \in 1 .. Turns(t, 2)) /\ ~(i \in 1 .. Turns(t, 3))
    BY <1>4
  <2>2. \A e \in Range(t.cross) : CallIsSound(q, e) \/ SpawnIsSound(q, e)
    BY <1>2 DEF CrossInv
  <2>3. Len(t.cross) <= Cardinality(Places(t.hints, "http_client", Turns(t, 2)))
                        + Cardinality(Places(t.hints, "subprocess", Turns(t, 3)))
    BY <1>1, <1>2, <1>4 DEF CrossInv
  <2> QED BY <2>1, <2>2, <2>3 DEF CrossInv
<1> QED BY <1>3, <1>6, <1>7 DEF LinkInv

LEMMA SoundStays ==
  ASSUME NEW q, NEW a, NEW b, NEW n, Extends(q, a, b, n),
         \A e \in Range(a) : CallIsSound(q, e) \/ SpawnIsSound(q, e)
  PROVE  \A e \in Range(b) : CallIsSound(q, e) \/ SpawnIsSound(q, e)
BY DEF Extends

LEMMA HintTurned ==
  ASSUME NEW q, ProperProject(q), NEW s, LinkInv(q, s), s.status \in {"serve", "call", "spawn"},
         s.at < Len(s.hints)
  PROVE  s.hints[s.at + 1] \in HintsOf(q) /\ s.at \in Nat
<1>1. Listing(s.hints) /\ s.at \in Nat
  BY DEF LinkInv, LinkTypes
<1>2. s.hints[s.at + 1] \in Range(s.hints)
  BY <1>1, ListingIs DEF Range
<1>3. Merged(q, s) = Len(q.graphs) /\ MergeInv(q, s) /\ s.status # "parsed"
  BY DEF Merged, LinkInv
<1>4. Range(s.hints) = UNION {Range(g.hints) : g \in {q.graphs[i] : i \in 1 .. Len(q.graphs)}}
  BY <1>3 DEF MergeInv
<1> QED BY <1>1, <1>2, <1>4, GraphFacts DEF HintsOf

LEMMA CallKeeps ==
  ASSUME NEW q, ProperProject(q), NEW s, LinkInv(q, s), NEW t, TurnDone(s, t, "call"),
         t.servers = s.servers, t.cross = Call(s.cross, s.hints[s.at + 1], s.servers)
  PROVE  LinkInv(q, t)
<1> DEFINE h == s.hints[s.at + 1]
           one == IF h.kind = "http_client" THEN 1 ELSE 0
<1>1. s.status = "call" /\ t.status = "call" /\ t.at = s.at + 1 /\ t.hints = s.hints /\ s.status # "no parser"
      /\ s.at < Len(s.hints)
  BY DEF TurnDone
<1>2. LinkTypes(q, s) /\ ServersInv(q, s) /\ CrossInv(q, s) /\ Listing(s.cross)
  BY <1>1 DEF LinkInv, LinkTypes
<1>3. h \in HintsOf(q) /\ s.at \in Nat
  BY <1>1, HintTurned DEF h
<1>4. /\ Turns(s, 1) = Len(s.hints) /\ Turns(s, 2) = s.at /\ Turns(s, 3) = 0
      /\ Turns(t, 1) = Len(s.hints) /\ Turns(t, 2) = s.at + 1 /\ Turns(t, 3) = 0
  BY <1>1, TurnsAre
<1> HIDE DEF h, one
<1>5. Extends(q, s.cross, t.cross, one) /\ CallIsMade(s.servers, t.cross, h)
  <2>1. Served(q, s.servers)
    BY <1>2 DEF ServersInv
  <2> QED BY <1>2, <1>3, <2>1, CallEffect DEF h, one
<1>6. LinkTypes(q, t) /\ MergeInv(q, t)
  <2>1. Listing(t.cross)
    BY <1>5 DEF Extends
  <2>2. "call" \in {"serve", "call", "spawn"}
    OBVIOUS
  <2> QED BY <2>1, <2>2, TurnKeeps
<1>7. ServersInv(q, t)
  BY <1>1, <1>2, <1>4 DEF ServersInv
<1>8. CrossInv(q, t)
  <2>1. \A i : ~(i \in 1 .. Turns(t, 3))
    BY <1>4
  <2>2. \A e \in Range(t.cross) : CallIsSound(q, e) \/ SpawnIsSound(q, e)
    BY <1>2, <1>5, SoundStays DEF CrossInv
  <2>3. ASSUME NEW i \in 1 .. s.at + 1 PROVE CallIsMade(t.servers, t.cross, t.hints[i])
    <3>1. CASE i = s.at + 1
      BY <1>1, <1>5, <3>1 DEF h
    <3>2. CASE i \in 1 .. s.at
      <4>1. CallIsMade(s.servers, s.cross, s.hints[i])
        BY <1>2, <1>4, <3>2 DEF CrossInv
      <4>2. Range(s.cross) \subseteq Range(t.cross)
        BY <1>5 DEF Extends
      <4> QED BY <1>1, <4>1, <4>2 DEF CallIsMade
    <3>3. i = s.at + 1 \/ i \in 1 .. s.at
      BY <1>3
    <3> QED BY <3>1, <3>2, <3>3
  <2>4. Len(t.cross) <= Cardinality(Places(t.hints, "http_client", Turns(t, 2)))
                        + Cardinality(Places(t.hints, "subprocess", Turns(t, 3)))
    <3> DEFINE a == Cardinality(Places(s.hints, "http_client", s.at))
               b == Cardinality(Places(s.hints, "http_client", s.at + 1))
               c == Cardinality(Places(s.hints, "subprocess", 0))
    <3>1. a \in Nat /\ b = a + one
      BY <1>3, OneMore DEF h, one
    <3>2. c = 0
      BY NoPlaces
    <3>3. Len(s.cross) <= a + c
      BY <1>2, <1>4 DEF CrossInv
    <3>4. Len(t.cross) <= Len(s.cross) + one /\ Len(t.cross) \in Nat /\ Len(s.cross) \in Nat /\ one \in Nat
      BY <1>2, <1>5, ListingIs DEF Extends, one
    <3> HIDE DEF a, b, c
    <3>5. Len(t.cross) <= b + c
      BY <3>1, <3>2, <3>3, <3>4
    <3> QED BY <1>1, <1>4, <3>5 DEF b, c
  <2> QED BY <1>4, <2>1, <2>2, <2>3, <2>4 DEF CrossInv
<1> QED BY <1>6, <1>7, <1>8 DEF LinkInv

LEMMA SpawnKeeps ==
  ASSUME NEW q, ProperProject(q), NEW s, LinkInv(q, s), NEW t, TurnDone(s, t, "spawn"),
         t.servers = s.servers, t.cross = Spawn(s.cross, s.hints[s.at + 1], q.order)
  PROVE  LinkInv(q, t)
<1> DEFINE h == s.hints[s.at + 1]
           one == IF h.kind = "subprocess" THEN 1 ELSE 0
<1>1. s.status = "spawn" /\ t.status = "spawn" /\ t.at = s.at + 1 /\ t.hints = s.hints /\ s.status # "no parser"
      /\ s.at < Len(s.hints)
  BY DEF TurnDone
<1>2. LinkTypes(q, s) /\ ServersInv(q, s) /\ CrossInv(q, s) /\ Listing(s.cross)
  BY <1>1 DEF LinkInv, LinkTypes
<1>3. h \in HintsOf(q) /\ s.at \in Nat
  BY <1>1, HintTurned DEF h
<1>4. /\ Turns(s, 1) = Len(s.hints) /\ Turns(s, 2) = Len(s.hints) /\ Turns(s, 3) = s.at
      /\ Turns(t, 1) = Len(s.hints) /\ Turns(t, 2) = Len(s.hints) /\ Turns(t, 3) = s.at + 1
  BY <1>1, TurnsAre
<1> HIDE DEF h, one
<1>5. Extends(q, s.cross, t.cross, one) /\ SpawnIsMade(q, t.cross, h)
  BY <1>2, <1>3, SpawnEffect DEF h, one
<1>6. LinkTypes(q, t) /\ MergeInv(q, t)
  <2>1. Listing(t.cross)
    BY <1>5 DEF Extends
  <2>2. "spawn" \in {"serve", "call", "spawn"}
    OBVIOUS
  <2> QED BY <2>1, <2>2, TurnKeeps
<1>7. ServersInv(q, t)
  BY <1>1, <1>2, <1>4 DEF ServersInv
<1>8. CrossInv(q, t)
  <2>1. Range(s.cross) \subseteq Range(t.cross)
    BY <1>5 DEF Extends
  <2>2. \A e \in Range(t.cross) : CallIsSound(q, e) \/ SpawnIsSound(q, e)
    BY <1>2, <1>5, SoundStays DEF CrossInv
  <2>3. ASSUME NEW i \in 1 .. Turns(t, 2) PROVE CallIsMade(t.servers, t.cross, t.hints[i])
    <3>1. CallIsMade(s.servers, s.cross, s.hints[i])
      BY <1>2, <1>4, <2>3 DEF CrossInv
    <3> QED BY <1>1, <2>1, <3>1 DEF CallIsMade
  <2>4. ASSUME NEW i \in 1 .. s.at + 1 PROVE SpawnIsMade(q, t.cross, t.hints[i])
    <3>1. CASE i = s.at + 1
      BY <1>1, <1>5, <3>1 DEF h
    <3>2. CASE i \in 1 .. s.at
      <4>1. SpawnIsMade(q, s.cross, s.hints[i])
        BY <1>2, <1>4, <3>2 DEF CrossInv
      <4> QED BY <1>1, <4>1, <2>1 DEF SpawnIsMade
    <3>3. i = s.at + 1 \/ i \in 1 .. s.at
      BY <1>3
    <3> QED BY <3>1, <3>2, <3>3
  <2>5. Len(t.cross) <= Cardinality(Places(t.hints, "http_client", Turns(t, 2)))
                        + Cardinality(Places(t.hints, "subprocess", Turns(t, 3)))
    <3> DEFINE a == Cardinality(Places(s.hints, "http_client", Len(s.hints)))
               b == Cardinality(Places(s.hints, "subprocess", s.at))
               c == Cardinality(Places(s.hints, "subprocess", s.at + 1))
    <3>1. b \in Nat /\ c = b + one
      BY <1>3, OneMore DEF h, one
    <3>2. a \in Nat
      <4>1. Len(s.hints) \in Nat
        BY <1>2, ListingIs DEF LinkTypes
      <4> QED BY <4>1, OneMore
    <3>3. Len(s.cross) <= a + b
      BY <1>2, <1>4 DEF CrossInv
    <3>4. Len(t.cross) <= Len(s.cross) + one /\ Len(t.cross) \in Nat /\ Len(s.cross) \in Nat /\ one \in Nat
      BY <1>2, <1>5, ListingIs DEF Extends, one
    <3> HIDE DEF a, b, c
    <3>5. Len(t.cross) <= a + c
      BY <3>1, <3>2, <3>3, <3>4
    <3> QED BY <1>1, <1>4, <3>5 DEF a, c
  <2> QED BY <1>4, <2>2, <2>3, <2>4, <2>5 DEF CrossInv
<1> QED BY <1>6, <1>7, <1>8 DEF LinkInv

LEMMA AtMostOneEach ==
  ASSUME NEW hints, NEW n \in Nat
  PROVE  Cardinality(Places(hints, "http_client", n)) + Cardinality(Places(hints, "subprocess", n)) <= n
<1> DEFINE A == Places(hints, "http_client", n)
           B == Places(hints, "subprocess", n)
<1>1. A \subseteq 1 .. n /\ B \subseteq 1 .. n /\ A \intersect B = {}
  BY DEF Places
<1>2. IsFiniteSet(1 .. n) /\ Cardinality(1 .. n) = n
  BY FS_Interval
<1> HIDE DEF A, B
<1>3. IsFiniteSet(A) /\ IsFiniteSet(B) /\ A \union B \subseteq 1 .. n
  BY <1>1, <1>2, FS_Subset
<1>4. Cardinality(A \union B) <= n
  BY <1>2, <1>3, FS_Subset
<1>5. Cardinality(A \union B) = Cardinality(A) + Cardinality(B)
  BY <1>1, <1>3, DisjointUnion
<1> QED BY <1>4, <1>5 DEF A, B

LEMMA LinkedIsSound ==
  ASSUME NEW q, ProperProject(q), NEW s, LinkInv(q, s), s.status = "parsed"
  PROVE  LinkedSoundly(q, s)
<1> DEFINE cross == Range(s.cross)
           calls == {e \in cross : e.kind = "cross_language_call"}
           spawns == {e \in cross : e.kind = "cross_language_spawn"}
<1>1. LinkTypes(q, s) /\ MergeInv(q, s) /\ ServersInv(q, s) /\ CrossInv(q, s)
  BY DEF LinkInv
<1>2. /\ Turns(s, 1) = Len(s.hints) /\ Turns(s, 2) = Len(s.hints) /\ Turns(s, 3) = Len(s.hints)
      /\ Merged(q, s) = Len(q.graphs)
  BY TurnsAre DEF Merged
<1>3. Listing(s.hints) /\ Len(s.hints) \in Nat /\ DOMAIN s.hints = 1 .. Len(s.hints)
      /\ Listing(s.cross) /\ Len(s.cross) \in Nat
  BY <1>1, ListingIs DEF LinkTypes
<1>4. /\ s.nodes = NodesIn(q) /\ Range(s.hints) = HintsOf(q)
      /\ Range(s.edges) = EdgesIn(q) \union cross
  <2> DEFINE graphs == {q.graphs[i] : i \in 1 .. Len(q.graphs)}
  <2>1. /\ s.nodes = UNION {g.nodes : g \in graphs}
        /\ Range(s.hints) = UNION {Range(g.hints) : g \in graphs}
        /\ Range(s.edges) = (UNION {Range(g.edges) : g \in graphs}) \union cross
    BY <1>1, <1>2 DEF MergeInv
  <2>2. /\ NodesIn(q) = UNION {g.nodes : g \in graphs}
        /\ HintsOf(q) = UNION {Range(g.hints) : g \in graphs}
        /\ EdgesIn(q) = UNION {Range(g.edges) : g \in graphs}
    <3>1. DOMAIN q.graphs = 1 .. Len(q.graphs)
      BY GraphFacts
    <3>2. NodesIn(q) = UNION {g.nodes : g \in graphs}
      BY <3>1 DEF NodesIn
    <3>3. HintsOf(q) = UNION {Range(g.hints) : g \in graphs}
      BY <3>1 DEF HintsOf
    <3>4. EdgesIn(q) = UNION {Range(g.edges) : g \in graphs}
      BY <3>1 DEF EdgesIn
    <3> QED BY <3>2, <3>3, <3>4
  <2> QED BY <2>1, <2>2
<1>5. \A e \in cross : CallIsSound(q, e) \/ SpawnIsSound(q, e)
  BY <1>1 DEF CrossInv
<1>6. \A h \in HintsOf(q) : \E i \in 1 .. Len(s.hints) : s.hints[i] = h
  BY <1>3, <1>4 DEF Range
<1>7. ASSUME NEW h \in HintsOf(q)
      PROVE  /\ CallIsMade(s.servers, s.cross, h) /\ SpawnIsMade(q, s.cross, h)
             /\ h.kind = "http_server" /\ Len(Normalize(h.path)) > 1
                  => Normalize(h.path) \in DOMAIN s.servers
  <2>1. PICK i \in 1 .. Len(s.hints) : s.hints[i] = h
    BY <1>6
  <2>2. CallIsMade(s.servers, s.cross, h) /\ SpawnIsMade(q, s.cross, h)
    BY <1>1, <1>2, <2>1 DEF CrossInv
  <2>3. h.kind = "http_server" /\ Len(Normalize(h.path)) > 1 => Normalize(h.path) \in DOMAIN s.servers
    BY <1>1, <1>2, <2>1 DEF ServersInv
  <2> QED BY <2>2, <2>3
<1>8. Len(s.cross) <= Len(s.hints)
  <2> DEFINE a == Cardinality(Places(s.hints, "http_client", Len(s.hints)))
             b == Cardinality(Places(s.hints, "subprocess", Len(s.hints)))
  <2>1. Len(s.cross) <= a + b
    BY <1>1, <1>2 DEF CrossInv
  <2>2. a + b <= Len(s.hints) /\ a \in Nat /\ b \in Nat
    BY <1>3, AtMostOneEach, OneMore
  <2> HIDE DEF a, b
  <2> QED BY <1>3, <2>1, <2>2
<1> HIDE DEF cross
<1>9. cross = calls \union spawns /\ \A e \in cross : e.source # e.target
  BY <1>5 DEF CallIsSound, SpawnIsSound
<1>10. \A e \in calls : \E c \in HttpClients(q) :
         c.node = e.source /\ e.target \in Serving(q, c) /\ Len(c.path.segments) > 1
  BY <1>5 DEF CallIsSound, SpawnIsSound
<1>11. \A e \in spawns : \E h \in SpawnCallers(q) : h.node = e.source /\ e.target \in NamedBy(q, h)
  BY <1>5 DEF CallIsSound, SpawnIsSound
<1>12. ASSUME NEW c \in HttpClients(q), Cardinality(Serving(q, c)) = 1,
              c.node \notin Serving(q, c), Len(c.path.segments) > 1
       PROVE  \E e \in calls : e.source = c.node /\ e.target \in Serving(q, c)
  <2> DEFINE route == Normalize(c.path)
             e == CrossEdge(c, s.servers[route], "cross_language_call")
  <2>1. c \in HintsOf(q) /\ c.kind = "http_client" /\ Listing(c.path.segments)
    BY DEF HttpClients, OfKind, ProperProject, ProperHint, Listing
  <2>2. Serving(q, c) # {}
    <3>1. Cardinality({}) # 1
      BY FS_EmptySet
    <3> QED BY <1>12, <3>1
  <2>3. PICK h \in OfKind(q, "http_server") : SameRoute(h.path, c.path)
    BY <2>2 DEF Serving
  <2>4. h \in HintsOf(q) /\ h.kind = "http_server" /\ Listing(h.path.segments)
    BY <2>3 DEF OfKind, ProperProject, ProperHint, Listing
  <2>5. Normalize(h.path) = route /\ Len(route) > 1
    BY <1>12, <2>1, <2>3, <2>4, RouteIs
  <2>6. route \in DOMAIN s.servers
    <3>1. Len(Normalize(h.path)) > 1
      BY <2>5
    <3>2. Normalize(h.path) \in DOMAIN s.servers
      BY <1>7, <2>4, <3>1
    <3> QED BY <2>5, <3>2
  <2>7. PICK k \in OfKind(q, "http_server") : Normalize(k.path) = route /\ s.servers[route] = k.node
    BY <1>1, <2>6 DEF ServersInv, Served
  <2>8. Listing(k.path.segments)
    BY <2>7 DEF OfKind, ProperProject, ProperHint, Listing
  <2>9. SameRoute(k.path, c.path)
    BY <2>1, <2>7, <2>8, RouteIs
  <2>10. s.servers[route] \in Serving(q, c)
    BY <2>7, <2>9 DEF Serving
  <2>11. e \in cross
    <3>1. CallIsMade(s.servers, s.cross, c)
      BY <1>7, <2>1
    <3>2. s.servers[route] # c.node
      BY <1>12, <2>10
    <3> QED BY <2>1, <2>6, <3>1, <3>2 DEF CallIsMade, cross
  <2>12. e.source = c.node /\ e.target = s.servers[route] /\ e.kind = "cross_language_call"
    BY DEF CrossEdge
  <2> HIDE DEF e
  <2> QED BY <2>10, <2>11, <2>12
<1>13. ASSUME NEW h \in SpawnCallers(q), Cardinality(NamedBy(q, h)) = 1, h.node \notin NamedBy(q, h)
       PROVE  \E e \in spawns : e.source = h.node /\ e.target \in NamedBy(q, h)
  <2>1. h \in HintsOf(q) /\ h.kind = "subprocess"
    BY DEF SpawnCallers, OfKind
  <2>2. NamedBy(q, h) # {}
    <3>1. Cardinality({}) # 1
      BY FS_EmptySet
    <3> QED BY <1>13, <3>1
  <2>3. PICK f \in NamedBy(q, h) : CrossEdge(h, f, "cross_language_spawn") \in cross
    <3>1. SpawnIsMade(q, s.cross, h)
      BY <1>7, <2>1
    <3> QED BY <1>13, <2>1, <2>2, <3>1 DEF SpawnIsMade, cross
  <2> DEFINE e == CrossEdge(h, f, "cross_language_spawn")
  <2>4. e.source = h.node /\ e.target = f /\ e.kind = "cross_language_spawn"
    BY DEF CrossEdge
  <2> HIDE DEF e
  <2>5. e \in cross
    BY <2>3 DEF e
  <2> QED BY <2>3, <2>4, <2>5
<1> QED BY <1>4, <1>8, <1>9, <1>10, <1>11, <1>12, <1>13 DEF LinkedSoundly, HttpClients, SpawnCallers, cross

(* What holds of a project being linked.                                     *)
ProjectInv == asked \in Projects /\ (answer # Nothing => LinkInv(asked, answer))

LEMMA ProjectStep == ASSUME ProjectInv, ParseAll PROVE ProjectInv'
<1> DEFINE q == asked
           s == answer
           t == answer'
<1>1. ProperProject(q) /\ (s # Nothing => LinkInv(q, s))
  BY ProjectsAreProper DEF ProjectInv
<1>2. asked' = q /\ asked' \in Projects
  BY DEF ParseAll, BeginProject, Answer, MergeGraph, NextLoop, Turn, ServeHint, CallHint, SpawnHint,
         ReturnGraph, ProjectInv
<1> SUFFICES LinkInv(q, t)
  BY <1>2 DEF ProjectInv
<1>3. CASE BeginProject
  <2>1. CASE q.graphs = <<>>
    <3>1. t.status = "no parser"
      BY <1>3, <2>1 DEF BeginProject, Answer
    <3> QED BY <3>1 DEF LinkInv
  <2>2. CASE q.graphs # <<>>
    <3>1. t = [status |-> "merge", at |-> 0, languages |-> <<>>, nodes |-> {}, edges |-> <<>>,
               hints |-> <<>>, servers |-> [r \in {} |-> 0], cross |-> <<>>]
      BY <1>3, <2>2 DEF BeginProject, Answer
    <3> QED BY <1>1, <3>1, BeginLink
  <2> QED BY <2>1, <2>2
<1>4. ASSUME Linking, s.status # "no parser"
      PROVE  LinkInv(q, s) /\ DOMAIN s = {"status", "at", "languages", "nodes", "edges", "hints", "servers", "cross"}
  BY <1>1, <1>4 DEF Linking, LinkInv, LinkTypes
<1>5. CASE MergeGraph
  <2> DEFINE g == q.graphs[s.at + 1]
  <2>1. /\ Linking /\ s.status = "merge" /\ s.at < Len(q.graphs)
        /\ t = [s EXCEPT !.at = @ + 1,
                         !.languages = Append(@, <<g.language, Cardinality(g.nodes)>>),
                         !.nodes = @ \union g.nodes, !.edges = @ \o g.edges, !.hints = @ \o g.hints]
    BY <1>5 DEF MergeGraph
  <2>2. LinkInv(q, s) /\ DOMAIN s = {"status", "at", "languages", "nodes", "edges", "hints", "servers", "cross"}
    BY <1>4, <2>1
  <2>3. OneMerged(s, g, t)
    <3> HIDE DEF g, s, t, q
    <3> QED BY <2>1, <2>2 DEF OneMerged
  <2> QED BY <1>1, <2>1, <2>2, <2>3, MergeKeeps
<1>6. CASE NextLoop
  <2>1. /\ Linking /\ s.status \in {"merge", "serve", "call"}
        /\ s.at = (IF s.status = "merge" THEN Len(q.graphs) ELSE Len(s.hints))
        /\ t = [s EXCEPT !.status = Loops[s.status], !.at = 0]
    BY <1>6 DEF NextLoop, Loops
  <2>2. LinkInv(q, s) /\ DOMAIN s = {"status", "at", "languages", "nodes", "edges", "hints", "servers", "cross"}
    BY <1>4, <2>1
  <2>3. Loops["merge"] = "serve" /\ Loops["serve"] = "call" /\ Loops["call"] = "spawn"
    BY DEF Loops
  <2>4. LoopEnded(q, s, t)
    <3> HIDE DEF s, t, q
    <3>1. /\ DOMAIN t = DOMAIN s /\ t.nodes = s.nodes /\ t.hints = s.hints /\ t.edges = s.edges
          /\ t.servers = s.servers /\ t.cross = s.cross /\ t.at = 0 /\ t.status = Loops[s.status]
      BY <2>1, <2>2
    <3>2. CASE s.status = "merge"
      BY <2>1, <2>3, <3>1, <3>2 DEF LoopEnded
    <3>3. CASE s.status = "serve"
      BY <2>1, <2>3, <3>1, <3>3 DEF LoopEnded
    <3>4. CASE s.status = "call"
      BY <2>1, <2>3, <3>1, <3>4 DEF LoopEnded
    <3> QED BY <2>1, <3>2, <3>3, <3>4
  <2> QED BY <1>1, <2>1, <2>2, <2>4, LoopKeeps
<1>7. CASE ServeHint
  <2>1. /\ Linking /\ s.status = "serve" /\ s.at < Len(s.hints)
        /\ t = [s EXCEPT !.at = @ + 1, !.servers = Serve(@, s.hints[s.at + 1])]
    BY <1>7 DEF ServeHint, Turn, CurrentHint
  <2>2. LinkInv(q, s) /\ DOMAIN s = {"status", "at", "languages", "nodes", "edges", "hints", "servers", "cross"}
    BY <1>4, <2>1
  <2>3. TurnDone(s, t, "serve") /\ t.cross = s.cross /\ t.servers = Serve(s.servers, s.hints[s.at + 1])
    <3> HIDE DEF s, t, q
    <3> QED BY <2>1, <2>2 DEF TurnDone
  <2> QED BY <1>1, <2>2, <2>3, ServeTurnKeeps
<1>8. CASE CallHint
  <2>1. /\ Linking /\ s.status = "call" /\ s.at < Len(s.hints)
        /\ t = [s EXCEPT !.at = @ + 1, !.cross = Call(@, s.hints[s.at + 1], s.servers)]
    BY <1>8 DEF CallHint, Turn, CurrentHint
  <2>2. LinkInv(q, s) /\ DOMAIN s = {"status", "at", "languages", "nodes", "edges", "hints", "servers", "cross"}
    BY <1>4, <2>1
  <2>3. TurnDone(s, t, "call") /\ t.servers = s.servers /\ t.cross = Call(s.cross, s.hints[s.at + 1], s.servers)
    <3> HIDE DEF s, t, q
    <3> QED BY <2>1, <2>2 DEF TurnDone
  <2> QED BY <1>1, <2>2, <2>3, CallKeeps
<1>9. CASE SpawnHint
  <2>1. /\ Linking /\ s.status = "spawn" /\ s.at < Len(s.hints)
        /\ t = [s EXCEPT !.at = @ + 1, !.cross = Spawn(@, s.hints[s.at + 1], q.order)]
    BY <1>9 DEF SpawnHint, Turn, CurrentHint
  <2>2. LinkInv(q, s) /\ DOMAIN s = {"status", "at", "languages", "nodes", "edges", "hints", "servers", "cross"}
    BY <1>4, <2>1
  <2>3. TurnDone(s, t, "spawn") /\ t.servers = s.servers /\ t.cross = Spawn(s.cross, s.hints[s.at + 1], q.order)
    <3> HIDE DEF s, t, q
    <3> QED BY <2>1, <2>2 DEF TurnDone
  <2> QED BY <1>1, <2>2, <2>3, SpawnKeeps
<1>10. CASE ReturnGraph
  <2>1. /\ Linking /\ s.status = "spawn" /\ s.at = Len(s.hints)
        /\ t = [s EXCEPT !.status = "parsed", !.edges = @ \o s.cross]
    BY <1>10 DEF ReturnGraph
  <2>2. LinkInv(q, s) /\ DOMAIN s = {"status", "at", "languages", "nodes", "edges", "hints", "servers", "cross"}
    BY <1>4, <2>1
  <2>3. LoopEnded(q, s, t)
    <3> HIDE DEF s, t, q
    <3> QED BY <2>1, <2>2 DEF LoopEnded
  <2> QED BY <1>1, <2>1, <2>2, <2>3, LoopKeeps
<1> QED BY <1>3, <1>5, <1>6, <1>7, <1>8, <1>9, <1>10 DEF ParseAll

(* Whatever the languages of a project declare, the graph parse_all returns *)
(* is their union and the sound and complete cross-language edges.           *)
THEOREM CrossEdgesAreSound == ProjectSpec => []CrossEdgesSound
<1>1. AnyProject => ProjectInv
  BY DEF AnyProject, ProjectInv
<1>2. ProjectInv /\ [ParseAll]_questionVars => ProjectInv'
  <2>1. ASSUME ProjectInv, UNCHANGED questionVars PROVE ProjectInv'
    BY <2>1 DEF ProjectInv, questionVars
  <2> QED BY <2>1, ProjectStep
<1>3. ProjectInv => CrossEdgesSound
  <2> SUFFICES ASSUME ProjectInv, answer # Nothing, answer.status = "parsed"
               PROVE  LinkedSoundly(asked, answer)
    BY DEF CrossEdgesSound, Answered
  <2> QED BY ProjectsAreProper, LinkedIsSound DEF ProjectInv
<1> QED BY <1>1, <1>2, <1>3, PTL DEF ProjectSpec

-----------------------------------------------------------------------------
(* A trace file: the numbers of its lines. *)
LEMMA FileIs ==
  ASSUME NEW file, ProperFile(file)
  PROVE  /\ Len(file) \in Nat /\ DOMAIN file = 1 .. Len(file)
         /\ EventLines(file) \subseteq 1 .. Len(file) /\ IsFiniteSet(EventLines(file))
<1>1. Len(file) \in Nat /\ DOMAIN file = 1 .. Len(file)
  BY DEF ProperFile
<1>2. EventLines(file) \subseteq 1 .. Len(file)
  BY <1>1 DEF EventLines
<1>3. IsFiniteSet(1 .. Len(file))
  BY <1>1, FS_Interval
<1> QED BY <1>1, <1>2, <1>3, FS_Subset

LEMMA NumberIs ==
  ASSUME NEW file, ProperFile(file)
  PROVE  /\ \A l \in Nat : Number(file, l) \in Nat /\ Number(file, l) <= Total(file)
         /\ Number(file, 1) = 0 /\ Number(file, Len(file) + 1) = Total(file) /\ Total(file) \in Nat
         /\ \A l \in 1 .. Len(file) :
              Number(file, l + 1) = Number(file, l) + (IF l \in EventLines(file) THEN 1 ELSE 0)
<1> DEFINE E == EventLines(file)
           B(l) == {m \in E : m < l}
<1>1. E \subseteq 1 .. Len(file) /\ IsFiniteSet(E) /\ Len(file) \in Nat
  BY FileIs
<1>2. Total(file) \in Nat /\ Total(file) = Cardinality(E)
  BY <1>1, FS_CardinalityType DEF Total
<1>3. \A l : Number(file, l) = Cardinality(B(l))
  BY DEF Number
<1> HIDE DEF E
<1>4. ASSUME NEW l \in Nat
      PROVE  IsFiniteSet(B(l)) /\ Cardinality(B(l)) \in Nat /\ Cardinality(B(l)) <= Cardinality(E)
  <2>1. B(l) \in SUBSET E
    OBVIOUS
  <2> QED BY <1>1, <2>1, FS_Subset, FS_CardinalityType
<1>5. B(1) = {} /\ B(Len(file) + 1) = E
  <2>1. \A m \in E : ~(m < 1) /\ m < Len(file) + 1
    BY <1>1
  <2> QED BY <2>1
<1>6. Cardinality(B(1)) = 0
  BY <1>5, FS_EmptySet
<1>7. ASSUME NEW l \in 1 .. Len(file)
      PROVE  Cardinality(B(l + 1)) = Cardinality(B(l)) + (IF l \in E THEN 1 ELSE 0)
  <2>1. IsFiniteSet(B(l)) /\ l \notin B(l) /\ Cardinality(B(l)) \in Nat
    BY <1>4, <1>7, <1>1
  <2>2. CASE l \in E
    <3>1. \A m \in E : m < l + 1 <=> m < l \/ m = l
      BY <1>1, <1>7
    <3>2. B(l + 1) = B(l) \union {l}
      BY <2>2, <3>1, <2>1
    <3> HIDE DEF B
    <3> QED BY <2>1, <2>2, <3>2, FS_AddElement
  <2>3. CASE l \notin E
    <3>1. \A m \in E : m < l + 1 <=> m < l
      BY <1>1, <1>7, <2>3
    <3>2. B(l + 1) = B(l)
      BY <3>1
    <3> HIDE DEF B
    <3> QED BY <2>1, <2>3, <3>2
  <2> QED BY <2>2, <2>3
<1> HIDE DEF B
<1> QED BY <1>2, <1>3, <1>4, <1>5, <1>6, <1>7 DEF E

LEMMA NumberGrows ==
  ASSUME NEW file, ProperFile(file), NEW l \in Nat, NEW m \in Nat, l <= m
  PROVE  /\ Number(file, l) <= Number(file, m)
         /\ l \in EventLines(file) /\ l < m => Number(file, l) < Number(file, m)
<1> DEFINE B(k) == {e \in EventLines(file) : e < k}
<1>1. EventLines(file) \subseteq Nat /\ IsFiniteSet(EventLines(file))
  BY FileIs
<1>2. B(l) \subseteq B(m)
  BY <1>1
<1>3. IsFiniteSet(B(l)) /\ IsFiniteSet(B(m)) /\ Cardinality(B(l)) \in Nat /\ Cardinality(B(m)) \in Nat
  <2>1. B(l) \in SUBSET EventLines(file) /\ B(m) \in SUBSET EventLines(file)
    OBVIOUS
  <2> QED BY <1>1, <2>1, FS_Subset, FS_CardinalityType
<1>4. l \in EventLines(file) /\ l < m => l \in B(m) /\ l \notin B(l)
  OBVIOUS
<1>5. Number(file, l) = Cardinality(B(l)) /\ Number(file, m) = Cardinality(B(m))
  BY DEF Number
<1> HIDE DEF B
<1>6. Cardinality(B(l)) <= Cardinality(B(m)) /\ (Cardinality(B(l)) = Cardinality(B(m)) => B(l) = B(m))
  BY <1>2, <1>3, FS_Subset
<1> QED BY <1>3, <1>4, <1>5, <1>6

(* Two events of one number are one event.                                   *)
LEMMA NumbersDiffer ==
  ASSUME NEW file, ProperFile(file), NEW l \in EventLines(file), NEW m \in EventLines(file)
  PROVE  /\ Number(file, l) = Number(file, m) => l = m
         /\ Number(file, l) < Number(file, m) <=> l < m
         /\ Number(file, l) \in Nat /\ Number(file, m) \in Nat /\ Number(file, l) < Total(file)
<1>1. l \in Nat /\ m \in Nat /\ l \in 1 .. Len(file) /\ Len(file) \in Nat
  BY FileIs
<1>2. Number(file, l) \in Nat /\ Number(file, m) \in Nat
  BY <1>1, NumberIs
<1>3. l < m => Number(file, l) < Number(file, m)
  BY <1>1, NumberGrows
<1>4. m < l => Number(file, m) < Number(file, l)
  BY <1>1, NumberGrows
<1>5. Number(file, l) < Total(file)
  <2>1. Len(file) + 1 \in Nat /\ l < Len(file) + 1 /\ l <= Len(file) + 1
    BY <1>1
  <2>2. Number(file, l) < Number(file, Len(file) + 1)
    BY <1>1, <2>1, NumberGrows
  <2> QED BY <2>2, NumberIs
<1> QED BY <1>1, <1>2, <1>3, <1>4, <1>5

(* The invocations of finitely many lines, and of one more.                  *)
LEMMA OneMoreLine ==
  ASSUME NEW file, ProperFile(file), NEW S \in SUBSET (1 .. Len(file))
  PROVE  /\ IsFiniteSet(Invocations(file, S)) /\ Cardinality(Invocations(file, S)) \in Nat
         /\ \A l \in (1 .. Len(file)) \ S :
              Cardinality(Invocations(file, S \union {l}))
                = Cardinality(Invocations(file, S)) + EventWeight(file[l].count)
         /\ \A l \in 1 .. Len(file) : EventWeight(file[l].count) \in Nat \ {0}
<1> DEFINE W(l) == EventWeight(file[l].count)
           C(l) == {l} \X (1 .. W(l))
           I(T) == UNION {C(l) : l \in T}
<1>1. Len(file) \in Nat /\ DOMAIN file = 1 .. Len(file)
  BY FileIs
<1>2. ASSUME NEW l \in 1 .. Len(file) PROVE W(l) \in Nat \ {0}
  BY <1>1, <1>2 DEF EventWeight, ProperFile
<1>3. \A T : Invocations(file, T) = I(T)
  BY DEF Invocations
<1> HIDE DEF W
<1>4. ASSUME NEW l \in 1 .. Len(file) PROVE IsFiniteSet(C(l)) /\ Cardinality(C(l)) = W(l)
  <2>1. IsFiniteSet(1 .. W(l)) /\ Cardinality(1 .. W(l)) = W(l)
    <3>1. W(l) \in Nat /\ 1 \in Int /\ W(l) \in Int /\ ~(1 > W(l))
      BY <1>2, <1>4
    <3> HIDE DEF W
    <3> QED BY <3>1, FS_Interval
  <2>2. IsFiniteSet({l}) /\ Cardinality({l}) = 1
    BY FS_Singleton
  <2>3. Cardinality(C(l)) = 1 * W(l) /\ IsFiniteSet(C(l))
    BY <2>1, <2>2, FS_Product
  <2> QED BY <1>2, <1>4, <2>3
<1>5. \A T \in SUBSET (1 .. Len(file)) : IsFiniteSet(I(T))
  <2> TAKE T \in SUBSET (1 .. Len(file))
  <2>1. IsFiniteSet(T)
    <3>1. IsFiniteSet(1 .. Len(file))
      BY <1>1, FS_Interval
    <3> QED BY <3>1, FS_Subset
  <2> DEFINE U == {C(l) : l \in T}
             f == [l \in T |-> C(l)]
  <2>2. f \in Surjection(T, U)
    BY DEF Surjection
  <2>3. IsFiniteSet(U)
    BY <2>1, <2>2, FS_Surjection
  <2>4. \A X \in U : IsFiniteSet(X)
    BY <1>4
  <2> HIDE DEF U
  <2>5. IsFiniteSet(UNION U)
    BY <2>3, <2>4, FS_UNION
  <2> QED BY <2>5 DEF U
<1>6. ASSUME NEW l \in (1 .. Len(file)) \ S
      PROVE  Cardinality(I(S \union {l})) = Cardinality(I(S)) + W(l)
  <2>1. I(S \union {l}) = I(S) \union C(l)
    OBVIOUS
  <2>2. I(S) \intersect C(l) = {}
    OBVIOUS
  <2>3. IsFiniteSet(I(S)) /\ IsFiniteSet(C(l)) /\ Cardinality(C(l)) = W(l)
    BY <1>4, <1>5
  <2> HIDE DEF I, C
  <2> QED BY <2>1, <2>2, <2>3, DisjointUnion
<1>7. IsFiniteSet(I(S))
  BY <1>5
<1> HIDE DEF I, C
<1> QED BY <1>2, <1>3, <1>6, <1>7, FS_CardinalityType DEF W

LEMMA FewerInvocations ==
  ASSUME NEW file, ProperFile(file), NEW S \in SUBSET (1 .. Len(file)), NEW T \in SUBSET S
  PROVE  Cardinality(Invocations(file, T)) <= Cardinality(Invocations(file, S))
<1>1. Invocations(file, T) \subseteq Invocations(file, S)
  BY DEF Invocations
<1>2. IsFiniteSet(Invocations(file, S))
  BY OneMoreLine
<1> QED BY <1>1, <1>2, FS_Subset
-----------------------------------------------------------------------------
(* What a scan knows after r lines. *)
EventsOf(file, n, r) == {l \in EventLines(file) : file[l].kind = "event" /\ file[l].node = n /\ l <= r}
Sampled(file, n, r, k) == {l \in EventsOf(file, n, r) : Number(file, l) % k = 0}

(* The hits and the sums of a node whose recorded lines are these.           *)
HitsOf(file, lines, h, s) ==
  /\ Listing(h) /\ Listing(s) /\ Len(h) = Len(s) /\ Len(h) > 0
  /\ \A p \in 1 .. Len(h) : \E l \in lines : h[p] = Number(file, l)
  /\ \A p \in 1 .. Len(h) :
       s[p] = Cardinality(Invocations(file, {l \in lines : Number(file, l) <= h[p]}))
  /\ \A l \in lines : \E p \in 1 .. Len(h) : h[p] = Number(file, l)
  /\ \A p, q \in 1 .. Len(h) : p < q => h[p] < h[q]

AggTypes(file, k, agg) ==
  /\ DOMAIN agg = {"offset", "offsets", "index", "hits", "sums", "first", "k"}
  /\ k \in Nat \ {0} /\ agg.k = k /\ agg.offset \in 0 .. Len(file)
  /\ agg.index = Number(file, agg.offset + 1)

OffsetsInv(file, agg) ==
  /\ Listing(agg.offsets) /\ Len(agg.offsets) = agg.index
  /\ \A j \in 1 .. agg.index :
       /\ agg.offsets[j] + 1 \in EventLines(file) /\ Number(file, agg.offsets[j] + 1) = j - 1

FirstInv(file, agg) ==
  /\ \A n : n \in DOMAIN agg.first <=> n # "" /\ EventsOf(file, n, agg.offset) # {}
  /\ \A n \in DOMAIN agg.first :
       /\ \E l \in EventsOf(file, n, agg.offset) : agg.first[n] = Number(file, l)
       /\ \A l \in EventsOf(file, n, agg.offset) : agg.first[n] <= Number(file, l)

HitsInv(file, k, agg) ==
  /\ DOMAIN agg.sums = DOMAIN agg.hits
  /\ \A n : n \in DOMAIN agg.hits <=> n # "" /\ Sampled(file, n, agg.offset, k) # {}
  /\ \A n \in DOMAIN agg.hits : HitsOf(file, Sampled(file, n, agg.offset, k), agg.hits[n], agg.sums[n])

AggInv(file, k, agg) ==
  AggTypes(file, k, agg) /\ OffsetsInv(file, agg) /\ FirstInv(file, agg) /\ HitsInv(file, k, agg)

NoHits(lines, h, s) == lines = {} /\ h = <<>> /\ s = <<>>

LEMMA AppendedIs ==
  ASSUME NEW a, NEW x, Listing(a)
  PROVE  /\ Listing(Append(a, x)) /\ Len(Append(a, x)) = Len(a) + 1 /\ Len(a) \in Nat
         /\ \A i \in 1 .. Len(a) : Append(a, x)[i] = a[i]
         /\ Append(a, x)[Len(a) + 1] = x
<1> DEFINE S == Range(a) \union {x}
           c == Append(a, x)
<1>1. a \in Seq(S) /\ x \in S
  BY DEF Listing
<1>2. /\ c \in Seq(S) /\ Len(c) = Len(a) + 1 /\ Len(a) \in Nat
      /\ DOMAIN c = 1 .. Len(a) + 1 /\ DOMAIN a = 1 .. Len(a)
      /\ \A i \in 1 .. Len(a) : c[i] = a[i]
      /\ c[Len(a) + 1] = x
  BY <1>1
<1>3. \A i \in 1 .. Len(a) + 1 : c[i] \in Range(c)
  BY <1>2 DEF Range
<1>4. c \in [1 .. Len(a) + 1 -> Range(c)] /\ Len(a) + 1 \in Nat
  <2> HIDE DEF c
  <2>1. c = [i \in 1 .. Len(a) + 1 |-> c[i]]
    BY <1>2
  <2> QED BY <1>2, <1>3, <2>1
<1>5. c \in Seq(Range(c))
  <2> HIDE DEF c
  <2> QED BY <1>4
<1> QED BY <1>2, <1>5 DEF Listing

LEMMA HitsGrow ==
  ASSUME NEW file, ProperFile(file), NEW L \in SUBSET EventLines(file), NEW h, NEW s,
         HitsOf(file, L, h, s) \/ NoHits(L, h, s),
         NEW l \in EventLines(file), \A m \in L : Number(file, m) < Number(file, l),
         NEW sum, sum = IF s = <<>> THEN 0 ELSE s[Len(s)]
  PROVE  HitsOf(file, L \union {l}, Append(h, Number(file, l)), Append(s, sum + EventWeight(file[l].count)))
<1> DEFINE x == Number(file, l)
           w == EventWeight(file[l].count)
           g == Append(h, x)
           t == Append(s, sum + w)
           n == Len(h)
           M == L \union {l}
<1>1. Listing(h) /\ Listing(s) /\ n \in Nat /\ Len(s) = n /\ (n = 0 => L = {} /\ s = <<>>) /\ (n # 0 => HitsOf(file, L, h, s))
  <2>1. CASE HitsOf(file, L, h, s)
    BY <2>1, ListingIs DEF HitsOf
  <2>2. CASE NoHits(L, h, s)
    <3>1. Listing(<<>>) /\ Len(<<>>) = 0
      BY DEF Listing
    <3> QED BY <2>2, <3>1 DEF NoHits
  <2> QED BY <2>1, <2>2
<1>2. /\ Listing(g) /\ Len(g) = n + 1 /\ g[n + 1] = x /\ \A i \in 1 .. n : g[i] = h[i]
  BY <1>1, AppendedIs
<1>3. /\ Listing(t) /\ Len(t) = n + 1 /\ t[n + 1] = sum + w /\ \A i \in 1 .. n : t[i] = s[i]
  BY <1>1, AppendedIs
<1>4. l \notin L /\ EventLines(file) \subseteq 1 .. Len(file) /\ x \in Nat
      /\ \A m \in EventLines(file) : Number(file, m) \in Nat
  <2>1. \A m \in EventLines(file) : Number(file, m) \in Nat
    BY NumbersDiffer
  <2>2. ~(x < x)
    BY <2>1
  <2> QED BY <2>1, <2>2, FileIs
<1>5. sum = Cardinality(Invocations(file, L)) /\ sum \in Nat
  <2>1. L \in SUBSET (1 .. Len(file))
    BY <1>4
  <2>2. Cardinality(Invocations(file, L)) \in Nat
    BY <2>1, OneMoreLine
  <2>3. CASE n = 0
    <3>1. Invocations(file, {}) = {}
      BY DEF Invocations
    <3>2. sum = 0 /\ L = {}
      BY <1>1, <2>3
    <3>3. Cardinality({}) = 0
      BY FS_EmptySet
    <3>4. Invocations(file, L) = {}
      BY <3>1, <3>2
    <3>5. Cardinality(Invocations(file, L)) = 0
      BY <3>3, <3>4, Zenon
    <3>6. sum = Cardinality(Invocations(file, L))
      BY <3>2, <3>5, Zenon
    <3> QED BY <2>2, <3>6, Zenon
  <2>4. CASE n # 0
    <3>1. HitsOf(file, L, h, s) /\ n > 0
      BY <1>1, <2>4
    <3>2. s # <<>>
      <4>1. Len(<<>>) = 0
        OBVIOUS
      <4> QED BY <1>1, <2>4, <4>1
    <3>3. sum = s[n] /\ n \in 1 .. n
      BY <1>1, <3>1, <3>2
    <3>4. sum = Cardinality(Invocations(file, {m \in L : Number(file, m) <= h[n]}))
      BY <3>1, <3>3 DEF HitsOf
    <3>5. \A m \in L : Number(file, m) <= h[n]
      <4> TAKE m \in L
      <4>1. PICK p \in 1 .. n : h[p] = Number(file, m)
        BY <3>1 DEF HitsOf
      <4>2. PICK o \in L : h[n] = Number(file, o)
        BY <3>1, <3>3 DEF HitsOf
      <4>3. h[n] \in Nat /\ h[p] \in Nat
        BY <1>4, <4>1, <4>2
      <4>4. p = n \/ h[p] < h[n]
        <5>1. p = n \/ p < n
          BY <1>1
        <5> QED BY <3>1, <3>3, <5>1 DEF HitsOf
      <4> QED BY <4>1, <4>3, <4>4
    <3>6. {m \in L : Number(file, m) <= h[n]} = L
      BY <3>5
    <3> QED BY <2>2, <3>4, <3>6
  <2> QED BY <2>2, <2>3, <2>4
<1> HIDE DEF x, w, g, t, n
<1>6. ASSUME NEW p \in 1 .. n
      PROVE  /\ \E m \in M : g[p] = Number(file, m)
             /\ t[p] = Cardinality(Invocations(file, {m \in M : Number(file, m) <= g[p]}))
             /\ g[p] \in Nat /\ g[p] < x
  <2>1. HitsOf(file, L, h, s)
    <3>1. n # 0
      BY <1>1, <1>6
    <3> QED BY <1>1, <3>1
  <2>2. g[p] = h[p] /\ t[p] = s[p]
    BY <1>2, <1>3, <1>6
  <2>3. PICK m \in L : h[p] = Number(file, m)
    BY <1>6, <2>1 DEF HitsOf, n
  <2>4. g[p] \in Nat /\ g[p] < x
    BY <1>4, <2>2, <2>3 DEF x
  <2>5. {o \in M : Number(file, o) <= g[p]} = {o \in L : Number(file, o) <= h[p]}
    <3>1. ~(Number(file, l) <= g[p])
      BY <1>4, <2>4 DEF x
    <3> QED BY <2>2, <3>1
  <2>6. s[p] = Cardinality(Invocations(file, {o \in L : Number(file, o) <= h[p]}))
    BY <1>6, <2>1 DEF HitsOf, n
  <2> QED BY <2>2, <2>3, <2>4, <2>5, <2>6
<1>7. /\ \E m \in M : g[n + 1] = Number(file, m)
      /\ t[n + 1] = Cardinality(Invocations(file, {m \in M : Number(file, m) <= g[n + 1]}))
  <2>1. {m \in M : Number(file, m) <= g[n + 1]} = M
    <3>1. \A m \in M : Number(file, m) <= x
      <4> TAKE m \in M
      <4>1. CASE m = l
        BY <1>4, <4>1 DEF x
      <4>2. CASE m \in L
        BY <1>4, <4>2 DEF x
      <4> QED BY <4>1, <4>2
    <3> QED BY <1>2, <3>1
  <2>2. Cardinality(Invocations(file, M)) = Cardinality(Invocations(file, L)) + w
    <3>1. L \in SUBSET (1 .. Len(file)) /\ l \in (1 .. Len(file)) \ L
      BY <1>4
    <3> QED BY <3>1, OneMoreLine DEF w
  <2> QED BY <1>2, <1>3, <1>5, <2>1, <2>2 DEF x
<1>8. \A p \in 1 .. n + 1 : p \in 1 .. n \/ p = n + 1
  BY <1>1
<1>9. \A p, q \in 1 .. n + 1 : p < q => g[p] < g[q]
  <2> SUFFICES ASSUME NEW p \in 1 .. n + 1, NEW q \in 1 .. n + 1, p < q PROVE g[p] < g[q]
    OBVIOUS
  <2>1. p \in 1 .. n
    BY <1>1
  <2>2. CASE q = n + 1
    BY <1>2, <1>6, <2>1, <2>2
  <2>3. CASE q \in 1 .. n
    <3>1. HitsOf(file, L, h, s)
      <4>1. n # 0
        BY <1>1, <2>1
      <4> QED BY <1>1, <4>1
    <3>2. h[p] < h[q]
      BY <2>1, <2>3, <3>1 DEF HitsOf, n
    <3> QED BY <1>2, <2>1, <2>3, <3>2
  <2> QED BY <1>8, <2>2, <2>3
<1>10. \A m \in M : \E p \in 1 .. n + 1 : g[p] = Number(file, m)
  <2> TAKE m \in M
  <2>1. CASE m = l
    <3>1. n + 1 \in 1 .. n + 1
      BY <1>1
    <3> QED BY <1>2, <2>1, <3>1 DEF x
  <2>2. CASE m \in L
    <3>1. HitsOf(file, L, h, s)
      BY <1>1, <2>2
    <3>2. PICK p \in 1 .. n : h[p] = Number(file, m)
      BY <2>2, <3>1 DEF HitsOf, n
    <3>3. p \in 1 .. n + 1
      BY <1>1, <3>2
    <3> QED BY <1>2, <3>2, <3>3
  <2> QED BY <2>1, <2>2
<1>11. n + 1 > 0
  BY <1>1
<1>12. \A p \in 1 .. Len(g) : \E m \in M : g[p] = Number(file, m)
  BY <1>2, <1>6, <1>7, <1>8
<1>13. \A p \in 1 .. Len(g) :
         t[p] = Cardinality(Invocations(file, {m \in M : Number(file, m) <= g[p]}))
  BY <1>2, <1>6, <1>7, <1>8
<1> HIDE DEF M
<1>14. HitsOf(file, M, g, t)
  BY <1>2, <1>3, <1>9, <1>10, <1>11, <1>12, <1>13 DEF HitsOf
<1> QED BY <1>14 DEF M, g, t, x, w

LEMMA PutIs ==
  ASSUME NEW map, NEW key, NEW value
  PROVE  /\ DOMAIN Put(map, key, value) = DOMAIN map \union {key}
         /\ Put(map, key, value)[key] = value
         /\ \A x \in DOMAIN map : x # key => Put(map, key, value)[x] = map[x]
BY DEF Put

(* What one line makes of what is known.                                     *)
Told(line) == line.kind = "event" /\ line.node # ""
Scanned(agg, line, t) ==
  /\ DOMAIN t = DOMAIN agg /\ t.k = agg.k /\ t.offset = agg.offset + 1
  /\ t.offsets = (IF line.kind = "blank" THEN agg.offsets ELSE Append(agg.offsets, agg.offset))
  /\ t.index = (IF line.kind = "blank" THEN agg.index ELSE agg.index + 1)
  /\ t.first = (IF Told(line) /\ line.node \notin DOMAIN agg.first
                THEN Put(agg.first, line.node, agg.index) ELSE agg.first)
  /\ ~(Told(line) /\ agg.index % agg.k = 0) => t.hits = agg.hits /\ t.sums = agg.sums
  /\ Told(line) /\ agg.index % agg.k = 0 =>
       LET sums == Get(agg.sums, line.node)
           sum  == IF sums = <<>> THEN 0 ELSE sums[Len(sums)]
       IN  /\ t.hits = Put(agg.hits, line.node, Append(Get(agg.hits, line.node), agg.index))
           /\ t.sums = Put(agg.sums, line.node, Append(sums, sum + EventWeight(line.count)))

LEMMA ScanIs ==
  ASSUME NEW agg, NEW line, DOMAIN agg = {"offset", "offsets", "index", "hits", "sums", "first", "k"}
  PROVE  Scanned(agg, line, AfterLine(agg, line))
<1> DEFINE seen == IF line.node \in DOMAIN agg.first THEN agg
                   ELSE [agg EXCEPT !.first = Put(@, line.node, agg.index)]
           tallied == IF line.kind = "event" THEN Tally(agg, line) ELSE agg
           sums == Get(agg.sums, line.node)
           sum == IF sums = <<>> THEN 0 ELSE sums[Len(sums)]
           hits2 == Append(Get(agg.hits, line.node), agg.index)
           sums2 == Append(sums, sum + EventWeight(line.count))
<1>1. /\ DOMAIN seen = DOMAIN agg
      /\ seen.k = agg.k /\ seen.offset = agg.offset /\ seen.offsets = agg.offsets
      /\ seen.index = agg.index /\ seen.hits = agg.hits /\ seen.sums = agg.sums
      /\ seen.first = (IF line.node \notin DOMAIN agg.first
                       THEN Put(agg.first, line.node, agg.index) ELSE agg.first)
  BY SMT
<1>2. Tally(agg, line) = IF line.node = "" THEN agg
                         ELSE IF agg.index % agg.k # 0 THEN seen ELSE Record(seen, line.node, line.count)
  BY DEF Tally
<1> HIDE DEF seen
<1>3. Record(seen, line.node, line.count)
        = [seen EXCEPT !.hits = Put(agg.hits, line.node, hits2), !.sums = Put(agg.sums, line.node, sums2)]
  BY <1>1 DEF Record
<1> HIDE DEF hits2, sums2
<1>4. /\ DOMAIN tallied = DOMAIN agg /\ tallied.k = agg.k /\ tallied.offset = agg.offset
      /\ tallied.offsets = agg.offsets /\ tallied.index = agg.index
      /\ tallied.first = (IF Told(line) /\ line.node \notin DOMAIN agg.first
                          THEN Put(agg.first, line.node, agg.index) ELSE agg.first)
      /\ ~(Told(line) /\ agg.index % agg.k = 0) => tallied.hits = agg.hits /\ tallied.sums = agg.sums
      /\ Told(line) /\ agg.index % agg.k = 0 =>
           tallied.hits = Put(agg.hits, line.node, hits2) /\ tallied.sums = Put(agg.sums, line.node, sums2)
  <2>1. CASE ~Told(line)
    <3>1. tallied = agg
      BY <1>2, <2>1 DEF Told
    <3> QED BY <2>1, <3>1
  <2>2. CASE Told(line) /\ agg.index % agg.k # 0
    <3>1. tallied = seen
      BY <1>2, <2>2 DEF Told
    <3> QED BY <1>1, <2>2, <3>1
  <2>3. CASE Told(line) /\ agg.index % agg.k = 0
    <3>1. tallied = Record(seen, line.node, line.count)
      BY <1>2, <2>3 DEF Told
    <3> HIDE DEF tallied
    <3> QED BY <1>1, <1>3, <2>3, <3>1
  <2> QED BY <2>1, <2>2, <2>3
<1> HIDE DEF tallied
<1> DEFINE t == AfterLine(agg, line)
<1>5. t = [tallied EXCEPT
             !.offset = tallied.offset + 1,
             !.offsets = IF line.kind = "blank" THEN tallied.offsets ELSE Append(tallied.offsets, agg.offset),
             !.index = IF line.kind = "blank" THEN tallied.index ELSE tallied.index + 1]
  BY DEF AfterLine, tallied, CountsAsEvent
<1> HIDE DEF t
<1>6. /\ DOMAIN t = DOMAIN agg /\ t.k = agg.k /\ t.offset = agg.offset + 1
      /\ t.offsets = (IF line.kind = "blank" THEN agg.offsets ELSE Append(agg.offsets, agg.offset))
      /\ t.index = (IF line.kind = "blank" THEN agg.index ELSE agg.index + 1)
      /\ t.first = tallied.first /\ t.hits = tallied.hits /\ t.sums = tallied.sums
  BY <1>4, <1>5
<1> QED BY <1>4, <1>6 DEF Scanned, t, hits2, sums2

LEMMA OneMoreEvent ==
  ASSUME NEW file, ProperFile(file), NEW r \in Nat, r < Len(file), NEW n, NEW k
  PROVE  /\ r + 1 \in 1 .. Len(file) /\ (r + 1 \in EventLines(file) <=> file[r + 1].kind # "blank")
         /\ EventsOf(file, n, r) \subseteq EventLines(file)
         /\ \A l \in EventsOf(file, n, r) : l < r + 1
         /\ EventsOf(file, n, r + 1)
              = EventsOf(file, n, r)
                \union (IF file[r + 1].kind = "event" /\ file[r + 1].node = n THEN {r + 1} ELSE {})
         /\ Sampled(file, n, r + 1, k)
              = Sampled(file, n, r, k)
                \union (IF /\ file[r + 1].kind = "event" /\ file[r + 1].node = n
                           /\ Number(file, r + 1) % k = 0
                        THEN {r + 1} ELSE {})
<1>1. Len(file) \in Nat /\ DOMAIN file = 1 .. Len(file) /\ EventLines(file) \subseteq 1 .. Len(file)
  BY FileIs
<1>2. r + 1 \in 1 .. Len(file)
  BY <1>1
<1>3. r + 1 \in EventLines(file) <=> file[r + 1].kind # "blank"
  BY <1>1, <1>2 DEF EventLines
<1>4. \A l \in EventLines(file) : (l <= r + 1 <=> l <= r \/ l = r + 1) /\ (l <= r => l < r + 1)
  BY <1>1
<1>5. \A l \in EventsOf(file, n, r) : l < r + 1
  BY <1>4 DEF EventsOf
<1> DEFINE A == EventsOf(file, n, r)
           B == EventsOf(file, n, r + 1)
           here == file[r + 1].kind = "event" /\ file[r + 1].node = n
<1>6. B = A \union (IF here THEN {r + 1} ELSE {})
  <2>1. CASE here
    <3>1. r + 1 \in EventLines(file) /\ r + 1 <= r + 1
      BY <1>2, <1>3, <2>1
    <3>2. \A l : l \in B <=> l \in A \/ l = r + 1
      BY <1>4, <2>1, <3>1 DEF EventsOf
    <3> HIDE DEF A, B
    <3> QED BY <2>1, <3>2
  <2>2. CASE ~here
    <3>1. \A l : l \in B <=> l \in A
      BY <1>4, <2>2 DEF EventsOf
    <3> HIDE DEF A, B
    <3> QED BY <2>2, <3>1
  <2> QED BY <2>1, <2>2
<1>7. EventsOf(file, n, r) \subseteq EventLines(file)
  BY DEF EventsOf
<1> HIDE DEF A, B, here
<1>8. {l \in B : Number(file, l) % k = 0}
        = {l \in A : Number(file, l) % k = 0}
          \union (IF here /\ Number(file, r + 1) % k = 0 THEN {r + 1} ELSE {})
  BY <1>6
<1> QED BY <1>2, <1>3, <1>5, <1>6, <1>7, <1>8 DEF A, B, here, Sampled

LEMMA TypesKept ==
  ASSUME NEW file, ProperFile(file), NEW k, NEW agg, AggTypes(file, k, agg), agg.offset < Len(file),
         NEW t, Scanned(agg, file[agg.offset + 1], t)
  PROVE  AggTypes(file, k, t)
<1>1. agg.offset \in Nat /\ Len(file) \in Nat
  BY FileIs DEF AggTypes
<1>2. agg.offset + 1 \in 1 .. Len(file)
      /\ (agg.offset + 1 \in EventLines(file) <=> file[agg.offset + 1].kind # "blank")
  BY <1>1, OneMoreEvent
<1>3. Number(file, agg.offset + 1 + 1)
        = Number(file, agg.offset + 1) + (IF agg.offset + 1 \in EventLines(file) THEN 1 ELSE 0)
      /\ Number(file, agg.offset + 1) \in Nat
  BY <1>1, <1>2, NumberIs
<1>4. t.index = Number(file, t.offset + 1)
  BY <1>2, <1>3 DEF Scanned, AggTypes
<1>5. t.offset \in 0 .. Len(file)
  BY <1>1, <1>2 DEF Scanned
<1> QED BY <1>4, <1>5 DEF Scanned, AggTypes

LEMMA OffsetsKept ==
  ASSUME NEW file, ProperFile(file), NEW k, NEW agg, AggTypes(file, k, agg), OffsetsInv(file, agg),
         agg.offset < Len(file), NEW t, Scanned(agg, file[agg.offset + 1], t)
  PROVE  OffsetsInv(file, t)
<1>1. agg.offset \in Nat /\ Len(file) \in Nat
  BY FileIs DEF AggTypes
<1>2. agg.offset + 1 \in 1 .. Len(file)
      /\ (agg.offset + 1 \in EventLines(file) <=> file[agg.offset + 1].kind # "blank")
  BY <1>1, OneMoreEvent
<1>3. Number(file, agg.offset + 1) = agg.index /\ agg.index \in Nat
  BY <1>1, <1>2, NumberIs DEF AggTypes
<1>4. CASE file[agg.offset + 1].kind = "blank"
  <2>1. t.offsets = agg.offsets /\ t.index = agg.index
    BY <1>4 DEF Scanned
  <2> QED BY <2>1 DEF OffsetsInv
<1>5. CASE file[agg.offset + 1].kind # "blank"
  <2>1. t.offsets = Append(agg.offsets, agg.offset) /\ t.index = agg.index + 1
    BY <1>5 DEF Scanned
  <2>2. Listing(agg.offsets) /\ Len(agg.offsets) = agg.index
    BY DEF OffsetsInv
  <2>3. /\ Listing(t.offsets) /\ Len(t.offsets) = agg.index + 1
        /\ \A j \in 1 .. agg.index : t.offsets[j] = agg.offsets[j]
        /\ t.offsets[agg.index + 1] = agg.offset
    BY <2>1, <2>2, AppendedIs
  <2>4. ASSUME NEW j \in 1 .. agg.index
        PROVE  t.offsets[j] + 1 \in EventLines(file) /\ Number(file, t.offsets[j] + 1) = j - 1
    BY <2>3, <2>4 DEF OffsetsInv
  <2>5. t.offsets[agg.index + 1] + 1 \in EventLines(file)
        /\ Number(file, t.offsets[agg.index + 1] + 1) = agg.index + 1 - 1
    BY <1>2, <1>3, <1>5, <2>3
  <2>6. \A j \in 1 .. agg.index + 1 : j \in 1 .. agg.index \/ j = agg.index + 1
    BY <1>3
  <2>7. \A j \in 1 .. agg.index + 1 :
          t.offsets[j] + 1 \in EventLines(file) /\ Number(file, t.offsets[j] + 1) = j - 1
    <3> TAKE j \in 1 .. agg.index + 1
    <3>1. CASE j = agg.index + 1
      <4>1. j - 1 = agg.index /\ agg.index + 1 - 1 = agg.index
        BY <1>3, <3>1
      <4> QED BY <2>5, <3>1, <4>1, Zenon
    <3>2. CASE j \in 1 .. agg.index
      BY <2>4, <3>2, Zenon
    <3> QED BY <2>6, <3>1, <3>2
  <2> QED BY <2>1, <2>3, <2>7 DEF OffsetsInv
<1> QED BY <1>4, <1>5

LEMMA FirstKept ==
  ASSUME NEW file, ProperFile(file), NEW k, NEW agg, AggTypes(file, k, agg), FirstInv(file, agg),
         agg.offset < Len(file), NEW t, Scanned(agg, file[agg.offset + 1], t)
  PROVE  FirstInv(file, t)
<1> DEFINE r == agg.offset
           line == file[r + 1]
<1>1. r \in Nat /\ Len(file) \in Nat /\ t.offset = r + 1
  BY FileIs DEF AggTypes, Scanned
<1>2. /\ r + 1 \in 1 .. Len(file) /\ (r + 1 \in EventLines(file) <=> line.kind # "blank")
      /\ \A n : /\ EventsOf(file, n, r) \subseteq EventLines(file)
                /\ \A l \in EventsOf(file, n, r) : l < r + 1
                /\ EventsOf(file, n, r + 1)
                     = EventsOf(file, n, r)
                       \union (IF line.kind = "event" /\ line.node = n THEN {r + 1} ELSE {})
  BY <1>1, OneMoreEvent
<1>3. Number(file, r + 1) = agg.index /\ agg.index \in Nat
  BY <1>1, <1>2, NumberIs DEF AggTypes
<1>4. /\ \A n : n \in DOMAIN agg.first <=> n # "" /\ EventsOf(file, n, r) # {}
      /\ \A n \in DOMAIN agg.first :
           /\ \E l \in EventsOf(file, n, r) : agg.first[n] = Number(file, l)
           /\ \A l \in EventsOf(file, n, r) : agg.first[n] <= Number(file, l)
  BY DEF FirstInv
<1>5. t.first = IF Told(line) /\ line.node \notin DOMAIN agg.first
                THEN Put(agg.first, line.node, agg.index) ELSE agg.first
  BY DEF Scanned
<1>6. \A n, l : l \in EventsOf(file, n, r) => Number(file, l) \in Nat /\ Number(file, l) <= Number(file, r + 1)
  <2> TAKE n, l
  <2> HAVE l \in EventsOf(file, n, r)
  <2>1. l \in Nat /\ l <= r + 1
    <3>1. l \in 1 .. Len(file) /\ l < r + 1
      BY <1>2, FileIs
    <3> QED BY <1>1, <3>1
  <2> QED BY <1>1, <2>1, NumberGrows, NumberIs
<1> HIDE DEF r, line
<1>7. CASE ~Told(line)
  <2>1. \A n : n # "" => EventsOf(file, n, r + 1) = EventsOf(file, n, r)
    BY <1>2, <1>7 DEF Told
  <2>2. t.first = agg.first
    BY <1>5, <1>7
  <2>3. \A n \in DOMAIN agg.first : EventsOf(file, n, r + 1) = EventsOf(file, n, r)
    BY <1>4, <2>1
  <2>4. \A n : n \in DOMAIN t.first <=> n # "" /\ EventsOf(file, n, t.offset) # {}
    BY <1>1, <1>4, <2>1, <2>2
  <2>5. \A n \in DOMAIN t.first :
           /\ \E l \in EventsOf(file, n, t.offset) : t.first[n] = Number(file, l)
           /\ \A l \in EventsOf(file, n, t.offset) : t.first[n] <= Number(file, l)
    BY <1>1, <1>4, <2>2, <2>3
  <2> QED BY <2>4, <2>5 DEF FirstInv
<1>8. CASE Told(line)
  <2>1. \A n : n # line.node => EventsOf(file, n, r + 1) = EventsOf(file, n, r)
    BY <1>2
  <2>2. EventsOf(file, line.node, r + 1) = EventsOf(file, line.node, r) \union {r + 1}
    BY <1>2, <1>8 DEF Told
  <2>3. /\ DOMAIN t.first = DOMAIN agg.first \union {line.node}
        /\ \A n \in DOMAIN agg.first : t.first[n] = agg.first[n]
        /\ line.node \notin DOMAIN agg.first => t.first[line.node] = agg.index
    <3>1. CASE line.node \in DOMAIN agg.first
      BY <1>5, <3>1
    <3>2. CASE line.node \notin DOMAIN agg.first
      <4>1. t.first = Put(agg.first, line.node, agg.index)
        BY <1>5, <1>8, <3>2
      <4>2. /\ DOMAIN Put(agg.first, line.node, agg.index) = DOMAIN agg.first \union {line.node}
            /\ Put(agg.first, line.node, agg.index)[line.node] = agg.index
            /\ \A n \in DOMAIN agg.first :
                 n # line.node => Put(agg.first, line.node, agg.index)[n] = agg.first[n]
        BY DEF Put
      <4> QED BY <3>2, <4>1, <4>2, Zenon
    <3> QED BY <3>1, <3>2
  <2>4. \A n : n \in DOMAIN t.first <=> n # "" /\ EventsOf(file, n, t.offset) # {}
    BY <1>1, <1>4, <1>8, <2>1, <2>2, <2>3 DEF Told
  <2>5. ASSUME NEW n \in DOMAIN t.first
        PROVE  /\ \E l \in EventsOf(file, n, r + 1) : t.first[n] = Number(file, l)
               /\ \A l \in EventsOf(file, n, r + 1) : t.first[n] <= Number(file, l)
    <3>1. CASE n # line.node
      <4>1. n \in DOMAIN agg.first /\ EventsOf(file, n, r + 1) = EventsOf(file, n, r)
        BY <2>1, <2>3, <2>5, <3>1
      <4> QED BY <1>4, <2>3, <4>1
    <3>2. CASE n = line.node /\ n \in DOMAIN agg.first
      <4>1. PICK l \in EventsOf(file, n, r) : agg.first[n] = Number(file, l)
        BY <1>4, <3>2
      <4>2. t.first[n] = Number(file, l) /\ Number(file, l) <= Number(file, r + 1)
        BY <1>6, <2>3, <3>2, <4>1
      <4> QED BY <1>4, <2>2, <2>3, <3>2, <4>1, <4>2
    <3>3. CASE n = line.node /\ n \notin DOMAIN agg.first
      <4>1. EventsOf(file, n, r) = {}
        BY <1>4, <1>8, <3>3 DEF Told
      <4>2. EventsOf(file, n, r + 1) = {r + 1}
        BY <2>2, <3>3, <4>1
      <4>3. t.first[n] = Number(file, r + 1) /\ Number(file, r + 1) \in Nat
        BY <1>3, <2>3, <3>3
      <4> QED BY <4>2, <4>3
    <3> QED BY <3>1, <3>2, <3>3
  <2> QED BY <1>1, <2>4, <2>5 DEF FirstInv
<1> QED BY <1>7, <1>8

LEMMA HitsKept ==
  ASSUME NEW file, ProperFile(file), NEW k, NEW agg, AggTypes(file, k, agg), HitsInv(file, k, agg),
         agg.offset < Len(file), NEW t, Scanned(agg, file[agg.offset + 1], t)
  PROVE  HitsInv(file, k, t)
<1> DEFINE r == agg.offset
           line == file[r + 1]
           node == line.node
<1>1. r \in Nat /\ Len(file) \in Nat /\ t.offset = r + 1 /\ agg.k = k
  BY FileIs DEF AggTypes, Scanned
<1>2. /\ r + 1 \in 1 .. Len(file) /\ (r + 1 \in EventLines(file) <=> line.kind # "blank")
      /\ \A n : /\ EventsOf(file, n, r) \subseteq EventLines(file)
                /\ \A l \in EventsOf(file, n, r) : l < r + 1
                /\ Sampled(file, n, r + 1, k)
                     = Sampled(file, n, r, k)
                       \union (IF line.kind = "event" /\ line.node = n /\ Number(file, r + 1) % k = 0
                               THEN {r + 1} ELSE {})
  <2>1. r < Len(file)
    OBVIOUS
  <2> HIDE DEF r
  <2>2. r + 1 \in 1 .. Len(file) /\ (r + 1 \in EventLines(file) <=> line.kind # "blank")
    BY <1>1, <2>1, OneMoreEvent
  <2>3. ASSUME NEW n
        PROVE  /\ EventsOf(file, n, r) \subseteq EventLines(file)
               /\ \A l \in EventsOf(file, n, r) : l < r + 1
               /\ Sampled(file, n, r + 1, k)
                    = Sampled(file, n, r, k)
                      \union (IF line.kind = "event" /\ line.node = n /\ Number(file, r + 1) % k = 0
                              THEN {r + 1} ELSE {})
    <3>1. EventsOf(file, n, r) \subseteq EventLines(file) /\ \A l \in EventsOf(file, n, r) : l < r + 1
      BY <1>1, <2>1, OneMoreEvent
    <3>2. r \in Nat
      BY <1>1
    <3>3. Sampled(file, n, r + 1, k)
            = Sampled(file, n, r, k)
              \union (IF /\ file[r + 1].kind = "event" /\ file[r + 1].node = n
                         /\ Number(file, r + 1) % k = 0
                      THEN {r + 1} ELSE {})
      BY <2>1, <3>2, OneMoreEvent
    <3> QED BY <3>1, <3>3
  <2> QED BY <2>2, <2>3
<1>3. Number(file, r + 1) = agg.index
  BY DEF AggTypes
<1>4. /\ DOMAIN agg.sums = DOMAIN agg.hits
      /\ \A n : n \in DOMAIN agg.hits <=> n # "" /\ Sampled(file, n, r, k) # {}
      /\ \A n \in DOMAIN agg.hits : HitsOf(file, Sampled(file, n, r, k), agg.hits[n], agg.sums[n])
  BY DEF HitsInv
<1> DEFINE sums == Get(agg.sums, node)
           hits == Get(agg.hits, node)
           sum == IF sums = <<>> THEN 0 ELSE sums[Len(sums)]
           hits2 == Append(hits, agg.index)
           sums2 == Append(sums, sum + EventWeight(line.count))
           kept == Told(line) /\ agg.index % k = 0
<1>5. /\ ~kept => t.hits = agg.hits /\ t.sums = agg.sums
      /\ kept => t.hits = Put(agg.hits, node, hits2) /\ t.sums = Put(agg.sums, node, sums2)
  BY <1>1 DEF Scanned
<1> HIDE DEF hits2, sums2, r
<1>6. CASE ~kept
  <2>1. \A n : n # "" => Sampled(file, n, r + 1, k) = Sampled(file, n, r, k)
    BY <1>2, <1>3, <1>6 DEF Told
  <2>2. t.hits = agg.hits /\ t.sums = agg.sums
    BY <1>5, <1>6
  <2>3. \A n \in DOMAIN agg.hits : Sampled(file, n, r + 1, k) = Sampled(file, n, r, k)
    BY <1>4, <2>1
  <2>4. \A n : n \in DOMAIN t.hits <=> n # "" /\ Sampled(file, n, t.offset, k) # {}
    BY <1>1, <1>4, <2>1, <2>2
  <2>5. \A n \in DOMAIN t.hits : HitsOf(file, Sampled(file, n, t.offset, k), t.hits[n], t.sums[n])
    BY <1>1, <1>4, <2>2, <2>3
  <2> QED BY <1>4, <2>2, <2>4, <2>5 DEF HitsInv
<1>7. CASE kept
  <2> DEFINE L == Sampled(file, node, r, k)
  <2>1. \A n : n # node => Sampled(file, n, r + 1, k) = Sampled(file, n, r, k)
    BY <1>2
  <2>2. Sampled(file, node, r + 1, k) = L \union {r + 1} /\ r + 1 \in EventLines(file) /\ node # ""
    BY <1>2, <1>3, <1>7 DEF Told
  <2>3. L \in SUBSET EventLines(file) /\ \A m \in L : m < r + 1
    BY <1>2 DEF Sampled
  <2>4. \A m \in L : Number(file, m) < Number(file, r + 1)
    <3> TAKE m \in L
    <3>1. m \in EventLines(file) /\ m < r + 1
      BY <2>3
    <3> QED BY <2>2, <3>1, NumbersDiffer
  <2>5. HitsOf(file, L, hits, sums) \/ NoHits(L, hits, sums)
    <3>1. CASE node \in DOMAIN agg.hits
      <4>1. hits = agg.hits[node] /\ sums = agg.sums[node]
        BY <1>4, <3>1 DEF Get
      <4> QED BY <1>4, <3>1, <4>1
    <3>2. CASE node \notin DOMAIN agg.hits
      <4>1. hits = <<>> /\ sums = <<>>
        BY <1>4, <3>2 DEF Get
      <4>2. L = {}
        BY <1>4, <2>2, <3>2
      <4> QED BY <4>1, <4>2 DEF NoHits
    <3> QED BY <3>1, <3>2
  <2> HIDE DEF L, hits, sums, node, line
  <2>6. HitsOf(file, L \union {r + 1}, Append(hits, Number(file, r + 1)),
               Append(sums, sum + EventWeight(file[r + 1].count)))
    BY <2>2, <2>3, <2>4, <2>5, HitsGrow
  <2>7. HitsOf(file, Sampled(file, node, r + 1, k), hits2, sums2)
    BY <1>3, <2>2, <2>6 DEF hits2, sums2, line
  <2> HIDE DEF sum
  <2>8. /\ DOMAIN t.hits = DOMAIN agg.hits \union {node} /\ t.hits[node] = hits2
        /\ \A x \in DOMAIN agg.hits : x # node => t.hits[x] = agg.hits[x]
    <3>1. t.hits = Put(agg.hits, node, hits2)
      BY <1>5, <1>7
    <3>2. /\ DOMAIN Put(agg.hits, node, hits2) = DOMAIN agg.hits \union {node}
          /\ Put(agg.hits, node, hits2)[node] = hits2
          /\ \A x \in DOMAIN agg.hits : x # node => Put(agg.hits, node, hits2)[x] = agg.hits[x]
      BY DEF Put
    <3> QED BY <3>1, <3>2, Zenon
  <2>9. /\ DOMAIN t.sums = DOMAIN agg.sums \union {node} /\ t.sums[node] = sums2
        /\ \A x \in DOMAIN agg.sums : x # node => t.sums[x] = agg.sums[x]
    <3>1. t.sums = Put(agg.sums, node, sums2)
      BY <1>5, <1>7
    <3>2. /\ DOMAIN Put(agg.sums, node, sums2) = DOMAIN agg.sums \union {node}
          /\ Put(agg.sums, node, sums2)[node] = sums2
          /\ \A x \in DOMAIN agg.sums : x # node => Put(agg.sums, node, sums2)[x] = agg.sums[x]
      BY DEF Put
    <3> QED BY <3>1, <3>2, Zenon
  <2>10. \A n : n \in DOMAIN t.hits <=> n # "" /\ Sampled(file, n, r + 1, k) # {}
    BY <1>4, <2>1, <2>2, <2>8
  <2>11. ASSUME NEW n \in DOMAIN t.hits
         PROVE  HitsOf(file, Sampled(file, n, r + 1, k), t.hits[n], t.sums[n])
    <3>1. CASE n = node
      BY <2>7, <2>8, <2>9, <3>1
    <3>2. CASE n # node
      <4>1. n \in DOMAIN agg.hits /\ t.hits[n] = agg.hits[n] /\ t.sums[n] = agg.sums[n]
        BY <1>4, <2>8, <2>9, <2>11, <3>2
      <4> QED BY <1>4, <2>1, <3>2, <4>1
    <3> QED BY <3>1, <3>2
  <2> QED BY <1>1, <1>4, <2>8, <2>9, <2>10, <2>11 DEF HitsInv
<1> QED BY <1>6, <1>7

LEMMA LineKeeps ==
  ASSUME NEW file, ProperFile(file), NEW k, NEW agg, AggInv(file, k, agg), agg.offset < Len(file)
  PROVE  AggInv(file, k, AfterLine(agg, file[agg.offset + 1]))
<1>1. Scanned(agg, file[agg.offset + 1], AfterLine(agg, file[agg.offset + 1]))
  BY ScanIs DEF AggInv, AggTypes
<1> QED BY <1>1, TypesKept, OffsetsKept, FirstKept, HitsKept DEF AggInv

LEMMA NothingRead ==
  ASSUME NEW file, ProperFile(file), NEW k \in Nat \ {0}
  PROVE  AggInv(file, k, NoLines(k))
<1> DEFINE agg == NoLines(k)
<1>1. /\ DOMAIN agg = {"offset", "offsets", "index", "hits", "sums", "first", "k"}
      /\ agg.offset = 0 /\ agg.offsets = <<>> /\ agg.index = 0 /\ agg.k = k
      /\ DOMAIN agg.hits = {} /\ DOMAIN agg.sums = {} /\ DOMAIN agg.first = {}
  BY DEF NoLines
<1> HIDE DEF agg
<1>2. \A n : EventsOf(file, n, 0) = {} /\ Sampled(file, n, 0, k) = {}
  <2>1. EventLines(file) \subseteq 1 .. Len(file) /\ Len(file) \in Nat
    BY FileIs
  <2>2. \A n : EventsOf(file, n, 0) = {}
    BY <2>1 DEF EventsOf
  <2> QED BY <2>2 DEF Sampled
<1>3. Number(file, 0 + 1) = 0 /\ Len(file) \in Nat
  BY NumberIs, FileIs
<1>4. AggTypes(file, k, agg)
  BY <1>1, <1>3 DEF AggTypes
<1>5. OffsetsInv(file, agg)
  <2>1. Listing(<<>>) /\ Len(<<>>) = 0
    BY DEF Listing
  <2>2. \A j : ~(j \in 1 .. 0)
    OBVIOUS
  <2> QED BY <1>1, <2>1, <2>2 DEF OffsetsInv
<1> QED BY <1>1, <1>2, <1>4, <1>5 DEF AggInv, FirstInv, HitsInv, agg

-----------------------------------------------------------------------------
(* What is answered from a file read to its end.                             *)
ReadThrough(file, k, agg) == AggInv(file, k, agg) /\ agg.offset = Len(file)

EventsNamed(file, n) == {l \in EventLines(file) : file[l].kind = "event" /\ file[l].node = n}

LEMMA ReadIs ==
  ASSUME NEW file, ProperFile(file), NEW k, NEW agg, ReadThrough(file, k, agg)
  PROVE  /\ k \in Nat /\ k # 0 /\ agg.k = k /\ agg.index = Total(file) /\ Total(file) \in Nat
         /\ \A n : EventsOf(file, n, agg.offset) = EventsNamed(file, n)
         /\ \A n : Sampled(file, n, agg.offset, k) = {l \in EventsNamed(file, n) : Number(file, l) % k = 0}
<1>1. /\ k \in Nat /\ k # 0 /\ agg.k = k /\ agg.offset = Len(file)
      /\ agg.index = Number(file, Len(file) + 1)
  BY DEF ReadThrough, AggInv, AggTypes
<1>2. agg.index = Total(file) /\ Total(file) \in Nat
  BY <1>1, NumberIs
<1>3. \A n : EventsOf(file, n, agg.offset) = EventsNamed(file, n)
  <2>1. \A l \in EventLines(file) : l <= Len(file)
    BY FileIs
  <2> QED BY <1>1, <2>1 DEF EventsOf, EventsNamed
<1>4. \A n : Sampled(file, n, agg.offset, k) = {l \in EventsNamed(file, n) : Number(file, l) % k = 0}
  BY <1>3 DEF Sampled
<1> QED BY <1>1, <1>2, <1>3, <1>4

LEMMA WindowIs ==
  ASSUME NEW file, ProperFile(file), NEW k, NEW agg, ReadThrough(file, k, agg)
  PROVE  WindowIsExact(file, agg)
<1>1. agg.index = Total(file) /\ Total(file) \in Nat
  BY ReadIs
<1>2. Len(agg.offsets) = Total(file)
      /\ \A j \in 1 .. Total(file) : /\ agg.offsets[j] + 1 \in EventLines(file)
                                     /\ Number(file, agg.offsets[j] + 1) = j - 1
  BY <1>1 DEF ReadThrough, AggInv, OffsetsInv
<1>3. \A j \in 1 .. Total(file) : agg.offsets[j] + 1 = LineOf(file, j - 1)
  <2> TAKE j \in 1 .. Total(file)
  <2>1. agg.offsets[j] + 1 \in EventLines(file) /\ Number(file, agg.offsets[j] + 1) = j - 1
    BY <1>2
  <2>2. LineOf(file, j - 1) \in EventLines(file) /\ Number(file, LineOf(file, j - 1)) = j - 1
    BY <2>1 DEF LineOf
  <2> QED BY <2>1, <2>2, NumbersDiffer
<1> DEFINE total == Total(file)
<1>4. ASSUME NEW i \in -1 .. total + 1, NEW c \in 0 .. total + 1
      PROVE  LET from == Clamped(i, total)
                 size == IF from + c < total THEN c ELSE total - from
             IN  ReadWindow(file, agg, i, c) = Parsed([j \in 1 .. size |-> file[LineOf(file, from + j - 1)]])
  <2> DEFINE from == Clamped(i, total)
             size == IF from + c < total THEN c ELSE total - from
             to   == IF from + c < total THEN from + c ELSE total
             long == IF to > from THEN to - from ELSE 0
  <2>1. from \in 0 .. total
    BY <1>1, <1>4 DEF Clamped
  <2> HIDE DEF from
  <2>2. long = size /\ size \in Nat /\ from + size <= total
    BY <1>1, <1>4, <2>1
  <2>3. \A j \in 1 .. size : file[agg.offsets[from + j] + 1] = file[LineOf(file, from + j - 1)]
    <3> HIDE DEF size
    <3> TAKE j \in 1 .. size
    <3>1. from + j \in 1 .. total
      BY <1>1, <2>1, <2>2
    <3>2. PICK x \in 1 .. total : x = from + j
      BY <3>1
    <3>3. agg.offsets[x] + 1 = LineOf(file, x - 1)
      BY <1>3, <3>2
    <3>4. x - 1 = from + j - 1
      BY <1>1, <2>1, <2>2, <3>2
    <3> QED BY <3>2, <3>3, <3>4, Zenon
  <2> HIDE DEF size, long
  <2>4. [j \in 1 .. long |-> file[agg.offsets[from + j] + 1]]
          = [j \in 1 .. size |-> file[LineOf(file, from + j - 1)]]
    BY <2>2, <2>3
  <2>5. ReadWindow(file, agg, i, c) = Parsed([j \in 1 .. long |-> file[agg.offsets[from + j] + 1]])
    BY <1>2 DEF ReadWindow, from, long
  <2> QED BY <2>4, <2>5 DEF from, size
<1> QED BY <1>4 DEF WindowIsExact

LEMMA CoverageIs ==
  ASSUME NEW file, ProperFile(file), NEW k, NEW agg, ReadThrough(file, k, agg), NEW at \in Nat
  PROVE  CoverageCount(agg, at) = Cardinality(Traced(file, at))
<1>1. /\ \A n : n \in DOMAIN agg.first <=> n # "" /\ EventsNamed(file, n) # {}
      /\ \A n \in DOMAIN agg.first :
           /\ \E l \in EventsNamed(file, n) : agg.first[n] = Number(file, l)
           /\ \A l \in EventsNamed(file, n) : agg.first[n] <= Number(file, l)
  <2>1. FirstInv(file, agg)
    BY DEF ReadThrough, AggInv
  <2>2. \A n : EventsOf(file, n, agg.offset) = EventsNamed(file, n)
    BY ReadIs
  <2> QED BY <2>1, <2>2 DEF FirstInv
<1>2. \A l \in EventLines(file) : Number(file, l) \in Nat /\ l \in DOMAIN file
  BY NumbersDiffer, FileIs
<1>3. \A n : Calls(file, n, at) = {l \in EventsNamed(file, n) : Number(file, l) < at}
  BY DEF Calls, EventsNamed
<1>4. ASSUME NEW n PROVE n \in Traced(file, at) <=> n \in DOMAIN agg.first /\ agg.first[n] < at
  <2>1. ASSUME n \in Traced(file, at) PROVE n \in DOMAIN agg.first /\ agg.first[n] < at
    <3>1. n # "" /\ Calls(file, n, at) # {}
      BY <2>1 DEF Traced
    <3>2. PICK l \in EventsNamed(file, n) : Number(file, l) < at
      BY <1>3, <3>1
    <3>3. n \in DOMAIN agg.first /\ agg.first[n] <= Number(file, l)
      BY <1>1, <3>1, <3>2
    <3>4. PICK m \in EventsNamed(file, n) : agg.first[n] = Number(file, m)
      BY <1>1, <3>3
    <3>5. Number(file, l) \in Nat /\ Number(file, m) \in Nat
      BY <1>2, <3>2, <3>4 DEF EventsNamed
    <3> QED BY <3>2, <3>3, <3>4, <3>5
  <2>2. ASSUME n \in DOMAIN agg.first, agg.first[n] < at PROVE n \in Traced(file, at)
    <3>1. PICK l \in EventsNamed(file, n) : agg.first[n] = Number(file, l)
      BY <1>1, <2>2
    <3>2. l \in Calls(file, n, at) /\ n # ""
      BY <1>1, <1>3, <2>2, <3>1
    <3>3. l \in DOMAIN file /\ file[l].node = n
      BY <1>2, <3>1 DEF EventsNamed
    <3> QED BY <3>2, <3>3 DEF Traced
  <2> QED BY <2>1, <2>2
<1>5. {n \in DOMAIN agg.first : agg.first[n] < at} = Traced(file, at)
  BY <1>4
<1> QED BY <1>5 DEF CoverageCount

LEMMA FloorIs ==
  ASSUME NEW a \in Nat, NEW k \in Nat, k # 0
  PROVE  (a \div k) * k \in Nat /\ (a \div k) * k <= a
<1>1. a \div k \in Nat /\ a % k \in 0 .. k - 1
  OBVIOUS
<1>2. a = k * (a \div k) + (a % k)
  BY <1>1
<1> DEFINE d == a \div k
           m == a % k
<1>3. d \in Nat /\ m \in Nat /\ a = k * d + m
  BY <1>1, <1>2
<1> HIDE DEF d, m
<1>4. k * d = d * k /\ d * k \in Nat
  BY <1>3
<1> QED BY <1>3, <1>4 DEF d

LEMMA ModOne == \A x \in Nat : x % 1 = 0 /\ x \div 1 = x /\ x * 1 = x
OBVIOUS

(* In a growing list there is a place where a bound divides it.              *)
LEMMA Bisect ==
  ASSUME NEW h, Listing(h), \A p \in 1 .. Len(h) : h[p] \in Nat,
         \A p, q \in 1 .. Len(h) : p < q => h[p] < h[q], NEW bound \in Nat
  PROVE  \E p \in 0 .. Len(h) : /\ \A i \in 1 .. p : h[i] < bound
                                /\ \A i \in p + 1 .. Len(h) : h[i] >= bound
<1>1. Len(h) \in Nat
  BY ListingIs
<1> DEFINE T == {p \in Nat : p <= Len(h) /\ \A i \in p + 1 .. Len(h) : h[i] >= bound}
<1>2. T \in SUBSET Nat /\ Len(h) \in T
  <2>1. \A i : ~(i \in Len(h) + 1 .. Len(h))
    BY <1>1
  <2> QED BY <1>1, <2>1
<1>3. PICK p \in T : \A q \in T : p <= q
  <2> HIDE DEF T
  <2> QED BY <1>2, Least
<1>4. p \in Nat /\ p <= Len(h) /\ \A i \in p + 1 .. Len(h) : h[i] >= bound
  BY <1>3
<1>5. ASSUME p # 0 PROVE h[p] < bound
  <2>1. p - 1 \in Nat /\ p \in 1 .. Len(h) /\ ~(p <= p - 1)
    BY <1>1, <1>4, <1>5
  <2>2. p - 1 \notin T
    BY <1>3, <2>1
  <2>3. PICK i \in p - 1 + 1 .. Len(h) : ~(h[i] >= bound)
    BY <1>4, <2>1, <2>2
  <2>4. i = p \/ i \in p + 1 .. Len(h)
    BY <1>4, <2>3
  <2>5. i = p
    BY <1>4, <2>3, <2>4
  <2>6. h[p] \in Nat
    BY <2>1
  <2> QED BY <2>3, <2>5, <2>6
<1>6. ASSUME NEW i \in 1 .. p PROVE h[i] < bound
  <2>1. i \in 1 .. Len(h) /\ p \in 1 .. Len(h) /\ p # 0 /\ (i = p \/ i < p)
    BY <1>1, <1>4, <1>6
  <2>2. h[p] < bound /\ h[i] \in Nat /\ h[p] \in Nat
    BY <1>5, <2>1
  <2>3. i = p \/ h[i] < h[p]
    BY <2>1
  <2> QED BY <2>2, <2>3
<1>7. p \in 0 .. Len(h)
  BY <1>1, <1>4
<1> QED BY <1>4, <1>6, <1>7

Named(n) == n # ""

LEMMA HeatIs ==
  ASSUME NEW file, ProperFile(file), NEW k, NEW agg, ReadThrough(file, k, agg), NEW at \in Nat,
         NEW n, Named(n)
  PROVE  LET recorded == {l \in Calls(file, n, (at \div k) * k) : Number(file, l) % k = 0}
         IN  /\ CumulativeHeat(agg, n, at) = Cardinality(Invocations(file, recorded))
             /\ recorded \in SUBSET Calls(file, n, at)
             /\ k = 1 => recorded = Calls(file, n, at)
<1>1. k \in Nat /\ k # 0 /\ agg.k = k /\ at \in Nat
  BY ReadIs
<1> DEFINE bound == (at \div k) * k
           L == {l \in EventsNamed(file, n) : Number(file, l) % k = 0}
           recorded == {l \in Calls(file, n, bound) : Number(file, l) % k = 0}
           within == IF agg.k > 1 THEN (at \div agg.k) * agg.k ELSE at
<1>2. bound \in Nat /\ bound <= at
  BY <1>1, FloorIs
<1>3. k = 1 => bound = at /\ \A x \in Nat : x % k = 0
  BY <1>1, ModOne
<1>4. within = bound
  <2>1. CASE k = 1
    <3>1. within = at
      BY <1>1, <2>1
    <3> QED BY <1>3, <2>1, <3>1
  <2>2. CASE k > 1
    BY <1>1, <2>2
  <2>3. k = 1 \/ k > 1
    BY <1>1
  <2> QED BY <2>1, <2>2, <2>3
<1>5. /\ n \in DOMAIN agg.hits <=> L # {}
      /\ n \in DOMAIN agg.hits => HitsOf(file, L, agg.hits[n], agg.sums[n])
  <2>1. HitsInv(file, k, agg)
    BY DEF ReadThrough, AggInv
  <2>2. Sampled(file, n, agg.offset, k) = L
    BY ReadIs
  <2> HIDE DEF L
  <2> QED BY <2>1, <2>2 DEF HitsInv, Named
<1>6. \A l \in EventsNamed(file, n) : l \in EventLines(file) /\ Number(file, l) \in Nat
  BY NumbersDiffer DEF EventsNamed
<1> HIDE DEF bound, within
<1>7. recorded = {l \in L : Number(file, l) < bound}
  BY DEF Calls, EventsNamed
<1>8. recorded \in SUBSET Calls(file, n, at) /\ (k = 1 => recorded = Calls(file, n, at))
  <2>1. \A l \in EventsNamed(file, n) : Number(file, l) < bound => Number(file, l) < at
    BY <1>1, <1>2, <1>6
  <2>2. recorded \in SUBSET Calls(file, n, at)
    BY <2>1 DEF Calls, EventsNamed
  <2>3. k = 1 => recorded = Calls(file, n, at)
    BY <1>3, <1>6 DEF Calls, EventsNamed
  <2> QED BY <2>2, <2>3
<1> HIDE DEF recorded, L
<1>9. CASE n \notin DOMAIN agg.hits
  <2>1. recorded = {} /\ Invocations(file, {}) = {}
    BY <1>5, <1>7, <1>9 DEF Invocations
  <2>2. Cardinality({}) = 0
    BY FS_EmptySet
  <2>3. CumulativeHeat(agg, n, at) = 0
    BY <1>9 DEF CumulativeHeat
  <2>4. CumulativeHeat(agg, n, at) = Cardinality(Invocations(file, recorded))
    BY <2>1, <2>2, <2>3
  <2> QED BY <1>8, <2>1, <2>4 DEF recorded, bound
<1>10. CASE n \in DOMAIN agg.hits
  <2> DEFINE h == agg.hits[n]
             s == agg.sums[n]
             Splits(p) == /\ \A i \in 1 .. p : h[i] < bound
                          /\ \A i \in p + 1 .. Len(h) : h[i] >= bound
             pos == CHOOSE p \in 0 .. Len(h) : Splits(p)
  <2>1. HitsOf(file, L, h, s)
    BY <1>5, <1>10
  <2>2. Listing(h) /\ Len(h) \in Nat
    BY <2>1, ListingIs DEF HitsOf
  <2> HIDE DEF h, s
  <2>3. \A p \in 1 .. Len(h) : h[p] \in Nat
    <3> TAKE p \in 1 .. Len(h)
    <3>1. PICK l \in L : h[p] = Number(file, l)
      BY <2>1 DEF HitsOf
    <3> QED BY <1>6, <3>1 DEF L
  <2>4. \A p, q \in 1 .. Len(h) : p < q => h[p] < h[q]
    BY <2>1 DEF HitsOf
  <2>5. \E p \in 0 .. Len(h) : Splits(p)
    BY <1>2, <2>2, <2>3, <2>4, Bisect
  <2>6. pos \in 0 .. Len(h) /\ Splits(pos)
    <3> HIDE DEF Splits
    <3> QED BY <2>5
  <2>7. CumulativeHeat(agg, n, at) = IF pos = 0 THEN 0 ELSE s[pos]
    <3>1. CumulativeHeat(agg, n, at)
            = LET p == CHOOSE p \in 0 .. Len(h) : /\ \A i \in 1 .. p : h[i] < within
                                                 /\ \A i \in p + 1 .. Len(h) : h[i] >= within
              IN  IF p = 0 THEN 0 ELSE s[p]
      BY <1>10 DEF CumulativeHeat, h, s, within
    <3> QED BY <1>4, <3>1
  <2>8. pos \in Nat /\ Len(h) \in Nat /\ pos <= Len(h) /\ bound \in Nat
    BY <1>2, <2>2, <2>6
  <2> HIDE DEF pos
  <2>9. CASE pos = 0
    <3>1. recorded = {}
      <4>1. ASSUME NEW l \in L PROVE ~(Number(file, l) < bound)
        <5>1. PICK p \in 1 .. Len(h) : h[p] = Number(file, l)
          BY <2>1, <4>1 DEF HitsOf
        <5>2. h[p] >= bound
          <6>1. p \in 0 + 1 .. Len(h)
            BY <2>8
          <6> QED BY <2>6, <2>9, <6>1
        <5>3. h[p] \in Nat /\ bound \in Nat
          BY <1>2, <2>3
        <5> QED BY <5>1, <5>2, <5>3
      <4> QED BY <1>7, <4>1
    <3>2. Invocations(file, recorded) = {} /\ Cardinality({}) = 0
      BY <3>1, FS_EmptySet DEF Invocations
    <3>3. CumulativeHeat(agg, n, at) = Cardinality(Invocations(file, recorded))
      BY <2>7, <2>9, <3>2
    <3> QED BY <1>8, <1>10, <3>3 DEF recorded, bound
  <2>10. CASE pos # 0
    <3>1. pos \in 1 .. Len(h) /\ pos \in 1 .. pos
      BY <2>8, <2>10
    <3>2. s[pos] = Cardinality(Invocations(file, {l \in L : Number(file, l) <= h[pos]}))
      BY <2>1, <3>1 DEF HitsOf
    <3>3. ASSUME NEW l \in L PROVE Number(file, l) <= h[pos] <=> Number(file, l) < bound
      <4>1. PICK p \in 1 .. Len(h) : h[p] = Number(file, l)
        BY <2>1, <3>3 DEF HitsOf
      <4>2. h[p] \in Nat /\ h[pos] \in Nat /\ h[pos] < bound
        BY <2>3, <2>6, <2>8, <3>1
      <4>3. CASE p \in 1 .. pos
        <5>1. p = pos \/ p < pos
          BY <2>8, <4>3
        <5>2. p = pos \/ h[p] < h[pos]
          BY <2>4, <3>1, <5>1
        <5> QED BY <2>8, <4>1, <4>2, <5>2
      <4>4. CASE p \in pos + 1 .. Len(h)
        <5>1. pos < p /\ h[p] >= bound
          BY <2>6, <2>8, <4>4
        <5>2. h[pos] < h[p]
          BY <2>4, <3>1, <5>1
        <5> QED BY <2>8, <4>1, <4>2, <5>1, <5>2
      <4>5. p \in 1 .. pos \/ p \in pos + 1 .. Len(h)
        <5>1. p \in Nat /\ 1 <= p /\ p <= Len(h)
          BY <2>8
        <5> QED BY <2>8, <5>1
      <4> QED BY <4>3, <4>4, <4>5
    <3>4. {l \in L : Number(file, l) <= h[pos]} = recorded
      BY <1>7, <3>3
    <3>5. CumulativeHeat(agg, n, at) = Cardinality(Invocations(file, recorded))
      BY <2>7, <2>10, <3>2, <3>4
    <3> QED BY <1>8, <1>10, <3>5 DEF recorded, bound
  <2> QED BY <2>9, <2>10
<1> QED BY <1>9, <1>10

LEMMA HeatBounds ==
  ASSUME NEW file, ProperFile(file), NEW k, NEW agg, ReadThrough(file, k, agg), NEW at \in Nat,
         NEW n, Named(n)
  PROVE  /\ CumulativeHeat(agg, n, at) \in Nat /\ HeatOf(file, n, at) \in Nat
         /\ CumulativeHeat(agg, n, at) <= HeatOf(file, n, at)
         /\ k = 1 => CumulativeHeat(agg, n, at) = HeatOf(file, n, at)
         /\ CumulativeHeat(agg, n, at) > 0 => n \in DOMAIN agg.hits
<1> DEFINE recorded == {l \in Calls(file, n, (at \div k) * k) : Number(file, l) % k = 0}
           heat == CumulativeHeat(agg, n, at)
<1>1. /\ heat = Cardinality(Invocations(file, recorded)) /\ recorded \in SUBSET Calls(file, n, at)
      /\ k = 1 => recorded = Calls(file, n, at)
  <2>1. heat = Cardinality(Invocations(file, recorded))
    BY HeatIs
  <2>2. recorded \in SUBSET Calls(file, n, at) /\ (k = 1 => recorded = Calls(file, n, at))
    BY HeatIs
  <2> QED BY <2>1, <2>2
<1> HIDE DEF recorded, heat
<1>2. Calls(file, n, at) \in SUBSET (1 .. Len(file))
  BY FileIs DEF Calls
<1>3. heat \in Nat /\ HeatOf(file, n, at) \in Nat
  <2>1. recorded \in SUBSET (1 .. Len(file))
    BY <1>1, <1>2
  <2>2. Cardinality(Invocations(file, recorded)) \in Nat
    BY <2>1, OneMoreLine
  <2>3. Cardinality(Invocations(file, Calls(file, n, at))) \in Nat
    BY <1>2, OneMoreLine
  <2> QED BY <1>1, <2>2, <2>3 DEF HeatOf
<1>4. heat <= HeatOf(file, n, at)
  BY <1>1, <1>2, FewerInvocations DEF HeatOf
<1>5. k = 1 => heat = HeatOf(file, n, at)
  BY <1>1 DEF HeatOf
<1>6. heat > 0 => n \in DOMAIN agg.hits
  <2>1. n \notin DOMAIN agg.hits => heat = 0
    BY DEF CumulativeHeat, heat
  <2> QED BY <1>3, <2>1
<1> QED BY <1>3, <1>4, <1>5, <1>6 DEF heat

(* When every event is recorded, the heat is of every invocation.            *)
LEMMA HeatWhole ==
  ASSUME NEW file, ProperFile(file), NEW agg, ReadThrough(file, 1, agg), NEW n, Named(n)
  PROVE  /\ HeatOf(file, n, Total(file)) \in Nat
         /\ CumulativeHeat(agg, n, Total(file)) = HeatOf(file, n, Total(file))
<1>1. Total(file) \in Nat
  BY NumberIs
<1>2. PICK k : k = 1
  OBVIOUS
<1>3. ReadThrough(file, k, agg)
  BY <1>2
<1> QED BY <1>1, <1>2, <1>3, HeatBounds

LEMMA HeatExact ==
  ASSUME NEW file, ProperFile(file), NEW k, NEW agg, ReadThrough(file, k, agg), NEW at \in Nat
  PROVE  HeatIsExact(file, agg, at)
<1>1. agg.k = k
  BY ReadIs
<1>2. ASSUME NEW n \in Traced(file, Total(file))
      PROVE  LET recorded == {l \in Calls(file, n, (at \div agg.k) * agg.k) : Number(file, l) % agg.k = 0}
             IN  /\ CumulativeHeat(agg, n, at) = Cardinality(Invocations(file, recorded))
                 /\ CumulativeHeat(agg, n, at) <= HeatOf(file, n, at)
                 /\ agg.k = 1 => CumulativeHeat(agg, n, at) = HeatOf(file, n, at)
  <2>1. Named(n)
    BY <1>2 DEF Traced, Named
  <2>2. CumulativeHeat(agg, n, at)
          = Cardinality(Invocations(file, {l \in Calls(file, n, (at \div k) * k) : Number(file, l) % k = 0}))
    BY <2>1, HeatIs
  <2>3. /\ CumulativeHeat(agg, n, at) <= HeatOf(file, n, at)
        /\ k = 1 => CumulativeHeat(agg, n, at) = HeatOf(file, n, at)
    BY <2>1, HeatBounds
  <2> QED BY <1>1, <2>2, <2>3, Zenon
<1> QED BY <1>2 DEF HeatIsExact

(* The places of a finite set under a strict order.                          *)
Place(S, R, n) == Cardinality({o \in S : <<o, n>> \in R}) + 1

LEMMA Ranking ==
  ASSUME NEW S, IsFiniteSet(S), NEW R,
         \A a \in S : <<a, a>> \notin R,
         \A a, b, c \in S : <<a, b>> \in R /\ <<b, c>> \in R => <<a, c>> \in R,
         \A a, b \in S : a = b \/ <<a, b>> \in R \/ <<b, a>> \in R
  PROVE  /\ Cardinality(S) \in Nat /\ \A n \in S : Place(S, R, n) \in 1 .. Cardinality(S)
         /\ \A a, b \in S : <<a, b>> \in R <=> Place(S, R, a) < Place(S, R, b)
         /\ \A i \in 1 .. Cardinality(S) : \E n \in S : Place(S, R, n) = i
<1> DEFINE B(n) == {o \in S : <<o, n>> \in R}
           P(n) == Place(S, R, n)
           N == Cardinality(S)
<1>1. N \in Nat
  BY FS_CardinalityType
<1>2. \A n : P(n) = Cardinality(B(n)) + 1
  BY DEF Place
<1>3. ASSUME NEW n \in S PROVE IsFiniteSet(B(n)) /\ Cardinality(B(n)) \in Nat /\ Cardinality(B(n)) < N
  <2>1. B(n) \in SUBSET S /\ B(n) # S
    BY <1>3
  <2> HIDE DEF B
  <2>2. IsFiniteSet(B(n)) /\ Cardinality(B(n)) <= N /\ (Cardinality(B(n)) = N => B(n) = S)
    BY <2>1, FS_Subset
  <2>3. Cardinality(B(n)) \in Nat
    BY <2>2, FS_CardinalityType
  <2> HIDE DEF N
  <2> QED BY <1>1, <2>1, <2>2, <2>3
<1>4. ASSUME NEW a \in S, NEW b \in S, <<a, b>> \in R PROVE P(a) < P(b)
  <2>1. B(a) \in SUBSET B(b) /\ a \in B(b) /\ a \notin B(a)
    BY <1>4
  <2>2. IsFiniteSet(B(b)) /\ Cardinality(B(a)) \in Nat /\ Cardinality(B(b)) \in Nat
    BY <1>3, <1>4
  <2> HIDE DEF B, P, N
  <2>3. Cardinality(B(a)) <= Cardinality(B(b)) /\ (Cardinality(B(a)) = Cardinality(B(b)) => B(a) = B(b))
    BY <2>1, <2>2, FS_Subset
  <2>4. Cardinality(B(a)) # Cardinality(B(b))
    BY <2>1, <2>3
  <2> QED BY <1>2, <2>2, <2>3, <2>4
<1> HIDE DEF B, P, N
<1>5. \A n \in S : P(n) \in 1 .. N /\ P(n) \in Nat
  BY <1>1, <1>2, <1>3
<1>6. ASSUME NEW a \in S, NEW b \in S PROVE <<a, b>> \in R <=> P(a) < P(b)
  <2>1. P(a) \in Nat /\ P(b) \in Nat
    BY <1>5
  <2>2. ASSUME P(a) < P(b) PROVE <<a, b>> \in R
    <3>1. a # b
      BY <2>1, <2>2
    <3>2. ~(P(b) < P(a))
      BY <2>1, <2>2
    <3>3. <<b, a>> \notin R
      BY <1>4, <3>2
    <3> QED BY <3>1, <3>3
  <2> QED BY <1>4, <2>2
<1>7. ASSUME NEW i \in 1 .. N PROVE \E n \in S : P(n) = i
  <2> DEFINE f == [n \in S |-> P(n)]
  <2>1. ASSUME NEW a \in S, NEW b \in S, P(a) = P(b) PROVE a = b
    <3>1. P(a) \in Nat /\ ~(P(a) < P(b)) /\ ~(P(b) < P(a))
      BY <1>5, <2>1
    <3>2. <<a, b>> \notin R /\ <<b, a>> \notin R
      BY <1>4, <3>1
    <3> QED BY <3>2
  <2>2. f \in Injection(S, 1 .. N)
    <3>1. f \in [S -> 1 .. N]
      BY <1>5
    <3>2. \A a, b \in S : f[a] = f[b] => a = b
      BY <2>1
    <3> HIDE DEF f
    <3> QED BY <3>1, <3>2 DEF Injection, IsInjective
  <2> HIDE DEF f
  <2>3. IsFiniteSet(1 .. N) /\ Cardinality(1 .. N) = N
    <3>1. 1 \in Int /\ N \in Int /\ (IF 1 > N THEN 0 ELSE N - 1 + 1) = N
      BY <1>1
    <3> QED BY <3>1, FS_Interval
  <2>4. f \in Surjection(S, 1 .. N)
    BY <2>2, <2>3, FS_Injection DEF N
  <2>5. \E n \in S : f[n] = i
    BY <1>7, <2>4 DEF Surjection
  <2> QED BY <2>5 DEF f
<1> QED BY <1>1, <1>5, <1>6, <1>7 DEF P, N

LEMMA TopIs ==
  ASSUME NEW file, ProperFile(file), NEW step, NEW agg, ReadThrough(file, step, agg), NEW at \in Nat,
         NEW k \in Nat, NEW rank,
         \A l \in DOMAIN file : file[l].node \in DOMAIN rank,
         \A m, n \in DOMAIN rank : rank[m] \in Int /\ (rank[m] = rank[n] => m = n)
  PROVE  TopIsHottest(agg, k, at, rank, Traced(file, Total(file)))
<1> DEFINE Heat(n) == CumulativeHeat(agg, n, at)
           nodes == Traced(file, Total(file))
           hot == {n \in nodes : Heat(n) > 0}
           Ahead(m, n) == Heat(m) > Heat(n) \/ (Heat(m) = Heat(n) /\ rank[m] < rank[n])
           R == {p \in hot \X hot : Ahead(p[1], p[2])}
           P(n) == Place(hot, R, n)
           count == Cardinality(hot)
           size == IF k < count THEN k ELSE count
           top == TopK(agg, k, at, rank)
<1>1. IsFiniteSet(hot) /\ \A n \in hot : n \in DOMAIN rank
  <2>1. Len(file) \in Nat /\ DOMAIN file = 1 .. Len(file)
    BY FileIs
  <2> DEFINE D == DOMAIN file
             T == {file[l].node : l \in D}
             f == [l \in D |-> file[l].node]
  <2>2. IsFiniteSet(D)
    BY <2>1, FS_Interval
  <2>3. f \in Surjection(D, T)
    BY DEF Surjection
  <2>4. IsFiniteSet(T)
    <3> HIDE DEF D, T, f
    <3> QED BY <2>2, <2>3, FS_Surjection
  <2>5. hot \in SUBSET T
    BY DEF Traced
  <2>6. \A n \in T : n \in DOMAIN rank
    OBVIOUS
  <2> HIDE DEF T, hot
  <2> QED BY <2>4, <2>5, <2>6, FS_Subset
<1>2. \A n \in nodes : Named(n)
  BY DEF Traced, Named
<1>3. \A n : Named(n) => Heat(n) \in Nat /\ (Heat(n) > 0 => n \in DOMAIN agg.hits)
  BY HeatBounds
<1>4. \A n \in DOMAIN agg.hits : n \in nodes
  <2> TAKE n \in DOMAIN agg.hits
  <2>1. HitsInv(file, step, agg)
    BY DEF ReadThrough, AggInv
  <2>2. n # "" /\ Sampled(file, n, agg.offset, step) # {}
    BY <2>1, Zenon DEF HitsInv
  <2>3. PICK l \in EventsNamed(file, n) : TRUE
    <3>1. Sampled(file, n, agg.offset, step) = {l \in EventsNamed(file, n) : Number(file, l) % step = 0}
      BY ReadIs
    <3> QED BY <2>2, <3>1, Zenon
  <2>4. l \in EventLines(file) /\ file[l].kind = "event" /\ file[l].node = n /\ Number(file, l) < Total(file)
    BY NumbersDiffer DEF EventsNamed
  <2>5. l \in Calls(file, n, Total(file)) /\ l \in DOMAIN file
    BY <2>4 DEF Calls, EventLines
  <2> QED BY <2>2, <2>4, <2>5, Zenon DEF Traced
<1> HIDE DEF nodes
<1>5. DOMAIN HeatAll(agg, at) = hot /\ \A n \in hot : HeatAll(agg, at)[n] = Heat(n)
  <2>1. {n \in DOMAIN agg.hits : Heat(n) > 0} = hot
    BY <1>2, <1>3, <1>4
  <2> QED BY <2>1 DEF HeatAll
<1>6. \A n \in hot : n \in nodes /\ Heat(n) \in Nat /\ rank[n] \in Int
  BY <1>1, <1>2, <1>3
<1> HIDE DEF Heat, hot
<1>7. \A a, b \in hot : <<a, b>> \in R <=> Ahead(a, b)
  OBVIOUS
<1>8. /\ count \in Nat /\ \A n \in hot : P(n) \in 1 .. count
      /\ \A a, b \in hot : <<a, b>> \in R <=> P(a) < P(b)
      /\ \A i \in 1 .. count : \E n \in hot : P(n) = i
  <2>1. \A a \in hot : ~Ahead(a, a)
    BY <1>6
  <2>2. \A a, b, c \in hot : Ahead(a, b) /\ Ahead(b, c) => Ahead(a, c)
    BY <1>6
  <2>3. \A a, b \in hot : a = b \/ Ahead(a, b) \/ Ahead(b, a)
    <3> TAKE a, b \in hot
    <3>1. Heat(a) \in Nat /\ Heat(b) \in Nat /\ rank[a] \in Int /\ rank[b] \in Int
      BY <1>6
    <3>2. rank[a] = rank[b] => a = b
      BY <1>1
    <3> QED BY <3>1, <3>2
  <2> HIDE DEF R, Ahead
  <2> QED BY <1>1, <1>7, <2>1, <2>2, <2>3, Ranking
<1>9. DOMAIN top = 1 .. size /\ Len(top) = size /\ size \in Nat
      /\ \A i \in 1 .. size : top[i] = CHOOSE n \in hot : P(n) = i
  <2> DEFINE heat == HeatAll(agg, at)
             Before(a, b) == heat[a] > heat[b] \/ (heat[a] = heat[b] /\ rank[a] < rank[b])
             Position(n) == Cardinality({o \in DOMAIN heat : Before(o, n)}) + 1
  <2>1. top = [i \in 1 .. (IF k < Cardinality(DOMAIN heat) THEN k ELSE Cardinality(DOMAIN heat)) |->
                 CHOOSE n \in DOMAIN heat : Position(n) = i]
    BY DEF TopK
  <2>2. ASSUME NEW n \in hot PROVE Position(n) = P(n)
    <3>1. \A o \in hot : Before(o, n) <=> <<o, n>> \in R
      BY <1>5, <1>7
    <3>2. {o \in DOMAIN heat : Before(o, n)} = {o \in hot : <<o, n>> \in R}
      BY <1>5, <3>1
    <3> QED BY <3>2 DEF Place
  <2> HIDE DEF Position, P, top
  <2>3. \A i : (CHOOSE n \in hot : Position(n) = i) = (CHOOSE n \in hot : P(n) = i)
    BY <2>2
  <2>4. size \in Nat
    BY <1>8
  <2>5. top = [i \in 1 .. size |-> CHOOSE n \in hot : Position(n) = i]
    BY <1>5, <2>1
  <2> HIDE DEF size
  <2> QED BY <2>3, <2>4, <2>5
<1> HIDE DEF top, P, R, count
<1>10. \A i \in 1 .. size : top[i] \in hot /\ P(top[i]) = i
  <2> TAKE i \in 1 .. size
  <2>1. i \in 1 .. count
    BY <1>8, <1>9
  <2>2. \E n \in hot : P(n) = i
    BY <1>8, <2>1
  <2> QED BY <1>9, <2>2
<1>11. Range(top) \subseteq hot
  BY <1>9, <1>10 DEF Range
<1>12. \A i, j \in DOMAIN top : i < j => Ahead(top[i], top[j])
  <2> SUFFICES ASSUME NEW i \in DOMAIN top, NEW j \in DOMAIN top, i < j PROVE Ahead(top[i], top[j])
    OBVIOUS
  <2>1. top[i] \in hot /\ top[j] \in hot /\ P(top[i]) < P(top[j])
    BY <1>9, <1>10
  <2> HIDE DEF Ahead
  <2> QED BY <1>7, <1>8, <2>1
<1>13. \A n \in hot \ Range(top) : Len(top) = k /\ \A i \in DOMAIN top : Ahead(top[i], n)
  <2> TAKE n \in hot \ Range(top)
  <2>1. P(n) \in 1 .. count
    BY <1>8
  <2>2. P(n) \notin 1 .. size
    <3> SUFFICES ASSUME P(n) \in 1 .. size PROVE FALSE
      OBVIOUS
    <3>1. top[P(n)] \in hot /\ P(top[P(n)]) = P(n) /\ n \in hot
      BY <1>10
    <3>2. top[P(n)] = n
      <4>1. ~(P(n) < P(top[P(n)])) /\ ~(P(top[P(n)]) < P(n))
        BY <2>1, <3>1
      <4>2. ~Ahead(n, top[P(n)]) /\ ~Ahead(top[P(n)], n)
        BY <1>7, <1>8, <3>1, <4>1
      <4>3. Heat(n) \in Nat /\ Heat(top[P(n)]) \in Nat /\ rank[n] \in Int /\ rank[top[P(n)]] \in Int
        BY <1>6, <3>1
      <4>4. rank[n] = rank[top[P(n)]]
        BY <4>2, <4>3
      <4> QED BY <1>1, <3>1, <4>4
    <3>3. n \in Range(top)
      BY <1>9, <3>2 DEF Range
    <3> QED BY <3>3
  <2>3. size = k /\ \A i \in 1 .. size : i < P(n)
    BY <1>8, <1>9, <2>1, <2>2
  <2>4. ASSUME NEW i \in DOMAIN top PROVE Ahead(top[i], n)
    <3>1. i \in 1 .. size /\ top[i] \in hot /\ P(top[i]) < P(n) /\ n \in hot
      BY <1>9, <1>10, <2>3
    <3> HIDE DEF Ahead
    <3> QED BY <1>7, <1>8, <3>1
  <2> QED BY <1>9, <2>3, <2>4
<1> QED BY <1>11, <1>12, <1>13 DEF TopIsHottest, top, hot, nodes, Heat

-----------------------------------------------------------------------------
Step(q) == IF q.k < 1 THEN 1 ELSE q.k

Reading(q, s) ==
  /\ DOMAIN s = {"status", "aggs"} /\ s.status \in {"scan", "scanned"} /\ DOMAIN s.aggs = DOMAIN q.files
  /\ \A i \in DOMAIN q.files : AggInv(q.files[i], Step(q), s.aggs[i])
  /\ s.status = "scanned" => q.kind = "scan" /\ \A i \in DOMAIN q.files : s.aggs[i].offset = Len(q.files[i])

Compared(q, s) ==
  /\ q.kind = "diff"
  /\ \E a, b :
       /\ ReadThrough(q.files[1], 1, a) /\ ReadThrough(q.files[2], 1, b)
       /\ s = [status  |-> "compared",
               there   |-> DiffTraces(a, b, q.nodes, a.index, b.index),
               back    |-> DiffTraces(b, a, q.nodes, b.index, a.index),
               touched |-> DiffStatic(q.nodes, a, a.index)]

ScanInv ==
  asked \in Scans /\ (answer # Nothing => Reading(asked, answer) \/ Compared(asked, answer))

LEMMA ScanningReads ==
  ASSUME ScanInv, Scanning
  PROVE  Reading(asked, answer) /\ answer.status = "scan"
<1>1. answer.status = "scan" /\ answer # Nothing
  BY DEF Scanning
<1>2. ~Compared(asked, answer)
  BY <1>1 DEF Compared
<1> QED BY <1>1, <1>2 DEF ScanInv

LEMMA FilesAreRead ==
  ASSUME ScanInv, Scanning, FilesRead
  PROVE  \A i \in DOMAIN asked.files : ReadThrough(asked.files[i], Step(asked), answer.aggs[i])
<1>1. Reading(asked, answer)
  BY ScanningReads
<1> TAKE i \in DOMAIN asked.files
<1>2. AggInv(asked.files[i], Step(asked), answer.aggs[i]) /\ ~Unread(i)
  BY <1>1 DEF Reading, FilesRead
<1>3. answer.aggs[i].offset \in 0 .. Len(asked.files[i]) /\ ~(answer.aggs[i].offset < Len(asked.files[i]))
  BY <1>2 DEF AggInv, AggTypes, Unread
<1>4. ProperFile(asked.files[i])
  BY ScansAreProper DEF ScanInv, ProperScan
<1>5. Len(asked.files[i]) \in Nat
  BY <1>4, FileIs
<1>6. answer.aggs[i].offset = Len(asked.files[i])
  BY <1>3, <1>5
<1> QED BY <1>2, <1>6 DEF ReadThrough

LEMMA Comparison ==
  ASSUME NEW q, ProperScan(q), q.kind = "diff"
  PROVE  /\ 1 \in DOMAIN q.files /\ 2 \in DOMAIN q.files /\ Step(q) = 1
         /\ ProperFile(q.files[1]) /\ ProperFile(q.files[2]) /\ \A n \in q.nodes : Named(n)
<1>1. /\ q.files \in Seq(Range(q.files)) /\ \A i \in DOMAIN q.files : ProperFile(q.files[i])
      /\ Len(q.files) = 2 /\ q.k = 1 /\ "" \notin q.nodes
  BY Zenon DEF ProperScan
<1>2. \A n \in q.nodes : Named(n)
  BY <1>1, Zenon DEF Named
<1>3. q.files \in Seq(Range(q.files)) /\ Len(q.files) = 2 /\ q.k = 1
  BY <1>1, Zenon
<1>4. 1 \in DOMAIN q.files /\ 2 \in DOMAIN q.files /\ Step(q) = 1
  BY <1>3 DEF Step
<1> QED BY <1>1, <1>2, <1>4, Zenon

LEMMA ScanStep == ASSUME ScanInv, Aggregate PROVE ScanInv'
<1>1. asked \in Scans /\ ProperScan(asked)
  BY ScansAreProper DEF ScanInv
<1>2. CASE BeginScan
  <2> DEFINE value == [status |-> "scan", aggs |-> [i \in DOMAIN asked.files |-> NoLines(Step(asked))]]
  <2>1. answer' = value /\ asked' = asked
    BY <1>2 DEF BeginScan, Answer, Step
  <2>2. Step(asked) \in Nat \ {0}
    <3>1. asked.k \in Int
      BY <1>1 DEF ProperScan
    <3> QED BY <3>1 DEF Step
  <2>3. \A i \in DOMAIN asked.files : AggInv(asked.files[i], Step(asked), NoLines(Step(asked)))
    BY <1>1, <2>2, NothingRead DEF ProperScan
  <2>4. Reading(asked, value)
    BY <2>3 DEF Reading
  <2> HIDE DEF value
  <2> QED BY <1>1, <2>1, <2>4 DEF ScanInv
<1>3. CASE ScanLine
  <2>1. Scanning /\ asked' = asked
    BY <1>3 DEF ScanLine
  <2>2. Reading(asked, answer) /\ answer.status = "scan"
    BY <2>1, ScanningReads
  <2>3. PICK i \in DOMAIN answer.aggs :
          /\ Unread(i)
          /\ answer' = [answer EXCEPT !.aggs[i] = AfterLine(answer.aggs[i], asked.files[i][answer.aggs[i].offset + 1])]
    BY <1>3 DEF ScanLine
  <2> DEFINE next == AfterLine(answer.aggs[i], asked.files[i][answer.aggs[i].offset + 1])
  <2>4. i \in DOMAIN asked.files /\ ProperFile(asked.files[i])
    BY <1>1, <2>2 DEF Reading, ProperScan
  <2>5. AggInv(asked.files[i], Step(asked), next)
    BY <2>2, <2>3, <2>4, LineKeeps DEF Reading, Unread
  <2> HIDE DEF next
  <2>6. /\ DOMAIN answer' = DOMAIN answer /\ answer'.status = "scan"
        /\ DOMAIN answer'.aggs = DOMAIN answer.aggs /\ answer'.aggs[i] = next
        /\ \A j \in DOMAIN answer.aggs : j # i => answer'.aggs[j] = answer.aggs[j]
    BY <2>2, <2>3 DEF Reading, next
  <2>7. ASSUME NEW j \in DOMAIN asked.files
        PROVE  AggInv(asked.files[j], Step(asked), answer'.aggs[j])
    <3>1. CASE j = i
      BY <2>5, <2>6, <3>1
    <3>2. CASE j # i
      <4>1. answer'.aggs[j] = answer.aggs[j]
        BY <2>2, <2>6, <3>2 DEF Reading
      <4> QED BY <2>2, <4>1 DEF Reading
    <3> QED BY <3>1, <3>2
  <2>8. Reading(asked, answer')
    BY <2>2, <2>6, <2>7 DEF Reading
  <2> QED BY <1>1, <2>1, <2>8 DEF ScanInv
<1>4. CASE ReturnScan
  <2>1. /\ Scanning /\ FilesRead /\ asked.kind = "scan" /\ asked' = asked
        /\ answer' = [answer EXCEPT !.status = "scanned"]
    BY <1>4 DEF ReturnScan
  <2>2. Reading(asked, answer)
    BY <2>1, ScanningReads
  <2>3. \A i \in DOMAIN asked.files : answer.aggs[i].offset = Len(asked.files[i])
    BY <2>1, FilesAreRead DEF ReadThrough
  <2>4. DOMAIN answer' = DOMAIN answer /\ answer'.status = "scanned" /\ answer'.aggs = answer.aggs
    BY <2>1, <2>2 DEF Reading
  <2>5. Reading(asked, answer')
    BY <2>1, <2>2, <2>3, <2>4 DEF Reading
  <2> QED BY <1>1, <2>1, <2>5 DEF ScanInv
<1>5. CASE CompareTraces
  <2> DEFINE a == answer.aggs[1]
             b == answer.aggs[2]
  <2>1. /\ Scanning /\ FilesRead /\ asked.kind = "diff" /\ asked' = asked
        /\ answer' = [status |-> "compared",
                      there   |-> DiffTraces(a, b, asked.nodes, a.index, b.index),
                      back    |-> DiffTraces(b, a, asked.nodes, b.index, a.index),
                      touched |-> DiffStatic(asked.nodes, a, a.index)]
    BY <1>5 DEF CompareTraces
  <2>2. 1 \in DOMAIN asked.files /\ 2 \in DOMAIN asked.files /\ Step(asked) = 1
    BY <1>1, <2>1, Comparison
  <2>3. ReadThrough(asked.files[1], 1, a) /\ ReadThrough(asked.files[2], 1, b)
    BY <2>1, <2>2, FilesAreRead
  <2> HIDE DEF a, b
  <2>4. Compared(asked, answer')
    BY <2>1, <2>3 DEF Compared
  <2> QED BY <1>1, <2>1, <2>4 DEF ScanInv
<1> QED BY <1>2, <1>3, <1>4, <1>5 DEF Aggregate

LEMMA ScanInvariant == ScanSpec => []ScanInv
<1>1. ASSUME AnyScan PROVE ScanInv
  BY <1>1 DEF AnyScan, ScanInv
<1>2. ASSUME ScanInv, [Aggregate]_questionVars PROVE ScanInv'
  <2>1. CASE Aggregate
    BY <1>2, <2>1, ScanStep
  <2>2. CASE UNCHANGED questionVars
    BY <1>2, <2>2 DEF questionVars, ScanInv
  <2> QED BY <1>2, <2>1, <2>2
<1> QED BY <1>1, <1>2, PTL DEF ScanSpec

(* For any files, step and ranks, the numbers answered from one scan are    *)
(* those of the file: windows begin where the heat counts, heat is exact or *)
(* never too high, coverage is exact, and the hottest come first.            *)
THEOREM SeeksAreExact == ScanSpec => []SeekMatchesAggregates
<1>1. ASSUME ScanInv PROVE SeekMatchesAggregates
  <2> SUFFICES ASSUME Answered("scan"), answer.status = "scanned", NEW f \in DOMAIN asked.files
               PROVE  LET file  == asked.files[f]
                          agg   == answer.aggs[f]
                          nodes == Traced(file, Total(file))
                      IN  /\ agg.index = Total(file) /\ WindowIsExact(file, agg)
                          /\ \A at \in 0 .. Total(file) + 1 :
                               /\ CoverageCount(agg, at) = Cardinality(Traced(file, at))
                               /\ HeatIsExact(file, agg, at)
                               /\ \A k \in 0 .. Total(file) + 1 :
                                    TopIsHottest(agg, k, at, asked.rank, nodes)
    BY DEF SeekMatchesAggregates
  <2> DEFINE file == asked.files[f]
             agg  == answer.aggs[f]
  <2>1. asked.kind = "scan" /\ answer # Nothing /\ ProperScan(asked)
    BY <1>1, ScansAreProper DEF Answered, ScanInv
  <2>2. Reading(asked, answer)
    BY <1>1, <2>1 DEF ScanInv, Compared
  <2>3. ReadThrough(file, Step(asked), agg)
    BY <2>2 DEF Reading, ReadThrough
  <2>4. /\ ProperFile(file) /\ \A l \in DOMAIN file : file[l].node \in DOMAIN asked.rank
        /\ \A m, n \in DOMAIN asked.rank :
             asked.rank[m] \in Int /\ (asked.rank[m] = asked.rank[n] => m = n)
    BY <2>1 DEF ProperScan
  <2> HIDE DEF file, agg
  <2>5. agg.index = Total(file) /\ Total(file) \in Nat /\ WindowIsExact(file, agg)
    BY <2>3, <2>4, ReadIs, WindowIs
  <2>6. ASSUME NEW at \in 0 .. Total(file) + 1
        PROVE  /\ CoverageCount(agg, at) = Cardinality(Traced(file, at)) /\ HeatIsExact(file, agg, at)
               /\ \A k \in 0 .. Total(file) + 1 :
                    TopIsHottest(agg, k, at, asked.rank, Traced(file, Total(file)))
    <3>1. at \in Nat /\ \A k \in 0 .. Total(file) + 1 : k \in Nat
      BY <2>5
    <3>2. CoverageCount(agg, at) = Cardinality(Traced(file, at)) /\ HeatIsExact(file, agg, at)
      BY <2>3, <2>4, <3>1, CoverageIs, HeatExact
    <3>3. ASSUME NEW k \in 0 .. Total(file) + 1
          PROVE  TopIsHottest(agg, k, at, asked.rank, Traced(file, Total(file)))
      BY <2>3, <2>4, <3>1, TopIs
    <3> QED BY <3>2, <3>3
  <2> QED BY <2>5, <2>6 DEF file, agg
<1> QED BY <1>1, ScanInvariant, PTL

(* A node's place in a comparison is that of its two heats.                  *)
OfHeats(diff, x, y, nodes) ==
  /\ DOMAIN diff = Traced(x, Total(x)) \union Traced(y, Total(y)) \union nodes
  /\ \A n \in DOMAIN diff :
       /\ HeatOf(x, n, Total(x)) \in Nat /\ HeatOf(y, n, Total(y)) \in Nat
       /\ diff[n] = Status(HeatOf(x, n, Total(x)), HeatOf(y, n, Total(y)))

LEMMA DiffIs ==
  ASSUME NEW x, ProperFile(x), NEW y, ProperFile(y), NEW a, NEW b,
         ReadThrough(x, 1, a), ReadThrough(y, 1, b), NEW nodes, \A n \in nodes : Named(n)
  PROVE  OfHeats(DiffTraces(a, b, nodes, a.index, b.index), x, y, nodes)
<1> DEFINE diff == DiffTraces(a, b, nodes, a.index, b.index)
<1>1. ASSUME NEW file, ProperFile(file), NEW agg, ReadThrough(file, 1, agg)
      PROVE  DOMAIN agg.hits = Traced(file, Total(file))
  <2>1. PICK k : k = 1
    OBVIOUS
  <2>2. \A l \in EventLines(file) : /\ l \in DOMAIN file /\ Number(file, l) < Total(file)
                                    /\ Number(file, l) % k = 0
    <3> TAKE l \in EventLines(file)
    <3>1. l \in DOMAIN file /\ Number(file, l) \in Nat /\ Number(file, l) < Total(file)
      BY <1>1, NumbersDiffer DEF EventLines
    <3> QED BY <2>1, <3>1, ModOne
  <2>3. \A n : Sampled(file, n, agg.offset, k) = EventsNamed(file, n)
    <3>1. ReadThrough(file, k, agg)
      BY <1>1, <2>1
    <3>2. \A n : Sampled(file, n, agg.offset, k) = {l \in EventsNamed(file, n) : Number(file, l) % k = 0}
      BY <1>1, <3>1, ReadIs
    <3>3. \A n : \A l \in EventsNamed(file, n) : Number(file, l) % k = 0
      BY <2>2 DEF EventsNamed
    <3> QED BY <3>2, <3>3
  <2>4. \A n : Calls(file, n, Total(file)) = EventsNamed(file, n)
    BY <2>2 DEF Calls, EventsNamed
  <2>5. \A n : n \in DOMAIN agg.hits <=> n # "" /\ EventsNamed(file, n) # {}
    <3>1. HitsInv(file, k, agg)
      BY <1>1, <2>1 DEF ReadThrough, AggInv
    <3> QED BY <2>3, <3>1, Zenon DEF HitsInv
  <2>6. \A n : EventsNamed(file, n) # {} => n \in {file[l].node : l \in DOMAIN file}
    BY <2>2 DEF EventsNamed
  <2>7. \A n : n \in Traced(file, Total(file)) <=> n # "" /\ EventsNamed(file, n) # {}
    BY <2>4, <2>6, Zenon DEF Traced
  <2> QED BY <2>5, <2>7, Zenon
<1>2. DOMAIN a.hits = Traced(x, Total(x)) /\ DOMAIN b.hits = Traced(y, Total(y))
  BY <1>1
<1>3. DOMAIN diff = Traced(x, Total(x)) \union Traced(y, Total(y)) \union nodes
  BY <1>2 DEF DiffTraces
<1>4. ASSUME NEW n \in DOMAIN diff
      PROVE  /\ HeatOf(x, n, Total(x)) \in Nat /\ HeatOf(y, n, Total(y)) \in Nat
             /\ diff[n] = Status(HeatOf(x, n, Total(x)), HeatOf(y, n, Total(y)))
  <2>1. Named(n)
    <3>1. \A file, at : \A m \in Traced(file, at) : Named(m)
      BY Zenon DEF Traced, Named
    <3> QED BY <1>3, <1>4, <3>1, Zenon
  <2>2. a.index = Total(x) /\ b.index = Total(y) /\ Total(x) \in Nat /\ Total(y) \in Nat
    BY ReadIs
  <2>3. /\ HeatOf(x, n, Total(x)) \in Nat /\ CumulativeHeat(a, n, Total(x)) = HeatOf(x, n, Total(x))
        /\ HeatOf(y, n, Total(y)) \in Nat /\ CumulativeHeat(b, n, Total(y)) = HeatOf(y, n, Total(y))
    <3>1. \A file, agg : ProperFile(file) /\ ReadThrough(file, 1, agg) =>
            /\ HeatOf(file, n, Total(file)) \in Nat
            /\ CumulativeHeat(agg, n, Total(file)) = HeatOf(file, n, Total(file))
      BY <2>1, HeatWhole
    <3> QED BY <3>1
  <2>4. diff[n] = Status(CumulativeHeat(a, n, a.index), CumulativeHeat(b, n, b.index))
    BY <1>4 DEF DiffTraces
  <2> QED BY <2>2, <2>3, <2>4
<1> HIDE DEF diff
<1>5. OfHeats(diff, x, y, nodes)
  BY <1>3, <1>4 DEF OfHeats
<1> QED BY <1>5 DEF diff

LEMMA StatusIs ==
  ASSUME NEW p \in Nat, NEW q \in Nat
  PROVE  /\ Status(q, p) = Mirror[Status(p, q)]
         /\ Status(p, q) = "gone" <=> p > 0 /\ q = 0
         /\ Status(p, q) = "hotter" <=> 0 < p /\ p < q
<1>1. CASE p = 0 /\ q = 0
  BY <1>1 DEF Status, Mirror
<1>2. CASE p = 0 /\ q > 0
  BY <1>2 DEF Status, Mirror
<1>3. CASE p > 0 /\ q = 0
  BY <1>3 DEF Status, Mirror
<1>4. CASE p > 0 /\ q > 0 /\ p < q
  BY <1>4 DEF Status, Mirror
<1>5. CASE p > 0 /\ q > 0 /\ p > q
  BY <1>5 DEF Status, Mirror
<1>6. CASE p > 0 /\ q > 0 /\ p = q
  BY <1>6 DEF Status, Mirror
<1> QED BY <1>1, <1>2, <1>3, <1>4, <1>5, <1>6

(* For any two files and any nodes, comparing them the other way round says *)
(* the opposite, and a node is gone, hotter or touched by its true heats.    *)
THEOREM DiffsMirror == ScanSpec => []DiffMirrors
<1>1. ASSUME ScanInv PROVE DiffMirrors
  <2> SUFFICES ASSUME Answered("diff"), answer.status = "compared"
               PROVE  DiffMirrors
    BY DEF DiffMirrors
  <2> DEFINE x == asked.files[1]
             y == asked.files[2]
             nodes == asked.nodes
             HeatA(n) == HeatOf(x, n, Total(x))
             HeatB(n) == HeatOf(y, n, Total(y))
  <2>1. asked.kind = "diff" /\ answer # Nothing /\ ProperScan(asked)
    BY <1>1, ScansAreProper DEF Answered, ScanInv
  <2>2. Compared(asked, answer)
    BY <1>1, <2>1 DEF ScanInv, Reading
  <2>3. ProperFile(x) /\ ProperFile(y) /\ \A n \in nodes : Named(n)
    BY <2>1, Comparison
  <2>4. PICK a, b :
          /\ ReadThrough(x, 1, a) /\ ReadThrough(y, 1, b)
          /\ answer = [status  |-> "compared",
                       there   |-> DiffTraces(a, b, nodes, a.index, b.index),
                       back    |-> DiffTraces(b, a, nodes, b.index, a.index),
                       touched |-> DiffStatic(nodes, a, a.index)]
    BY <2>2 DEF Compared
  <2> HIDE DEF x, y, nodes, HeatA, HeatB
  <2>5. /\ answer.there = DiffTraces(a, b, nodes, a.index, b.index)
        /\ answer.back = DiffTraces(b, a, nodes, b.index, a.index)
        /\ answer.touched = DiffStatic(nodes, a, a.index)
    BY <2>4
  <2>6. ReadThrough(x, 1, a) /\ ReadThrough(y, 1, b)
    BY <2>4
  <2>7. OfHeats(answer.there, x, y, nodes) /\ OfHeats(answer.back, y, x, nodes)
    BY <2>3, <2>5, <2>6, DiffIs
  <2>8. /\ DOMAIN answer.there = Traced(x, Total(x)) \union Traced(y, Total(y)) \union nodes
        /\ \A n \in DOMAIN answer.there :
             HeatA(n) \in Nat /\ HeatB(n) \in Nat /\ answer.there[n] = Status(HeatA(n), HeatB(n))
    BY <2>7 DEF OfHeats, HeatA, HeatB
  <2>9. /\ DOMAIN answer.back = Traced(y, Total(y)) \union Traced(x, Total(x)) \union nodes
        /\ \A n \in DOMAIN answer.back : answer.back[n] = Status(HeatB(n), HeatA(n))
    BY <2>7 DEF OfHeats, HeatA, HeatB
  <2>10. DOMAIN answer.back = DOMAIN answer.there
    BY <2>8, <2>9
  <2>11. ASSUME NEW n \in DOMAIN answer.there
        PROVE  /\ answer.back[n] = Mirror[answer.there[n]]
               /\ answer.there[n] = "gone" <=> HeatA(n) > 0 /\ HeatB(n) = 0
               /\ answer.there[n] = "hotter" <=> 0 < HeatA(n) /\ HeatA(n) < HeatB(n)
    BY <2>8, <2>9, <2>10, <2>11, StatusIs
  <2>12. HasRegression(answer.there)
           <=> \E n \in DOMAIN answer.there : 0 < HeatA(n) /\ HeatA(n) < HeatB(n)
    BY <2>11 DEF HasRegression
  <2>13. ASSUME NEW n \in nodes PROVE answer.touched[n] = "touched" <=> HeatA(n) > 0
    <3>1. a.index = Total(x) /\ Total(x) \in Nat
      BY <2>3, <2>4, ReadIs
    <3>2. Named(n)
      BY <2>3, <2>13
    <3>3. CumulativeHeat(a, n, Total(x)) = HeatA(n) /\ HeatA(n) \in Nat
      BY <2>3, <2>4, <3>2, HeatWhole DEF HeatA
    <3>4. answer.touched[n] = IF CumulativeHeat(a, n, a.index) > 0 THEN "touched" ELSE "cold"
      BY <2>5, <2>13 DEF DiffStatic
    <3> QED BY <3>1, <3>3, <3>4
  <2> QED BY <2>8, <2>10, <2>11, <2>12, <2>13 DEF DiffMirrors, x, y, nodes, HeatA, HeatB
<1> QED BY <1>1, ScanInvariant, PTL

(***************************************************************************)
(* Coverage traces.                                                          *)
(***************************************************************************)
LEMMA FirstBrokenIs ==
  ASSUME NEW checks, NEW n \in Nat, DOMAIN checks = 1 .. n
  PROVE  /\ (\A i \in 1 .. n : ~checks[i][2]) => FirstBroken(checks) = "none"
         /\ (\E i \in 1 .. n : checks[i][2]) =>
              \E i \in 1 .. n : checks[i][2] /\ FirstBroken(checks) = checks[i][1]
<1> DEFINE broken == {i \in 1 .. n : checks[i][2]}
<1>1. FirstBroken(checks) = IF broken = {} THEN "none"
                            ELSE checks[CHOOSE i \in broken : \A j \in broken : i <= j][1]
  BY DEF FirstBroken
<1>2. ASSUME broken # {} PROVE \E i \in broken : \A j \in broken : i <= j
  <2>1. broken \in SUBSET Nat
    OBVIOUS
  <2> QED BY <1>2, <2>1, Least
<1> QED BY <1>1, <1>2

(* What a gate says.                                                         *)
Opens(s, gate) == /\ gate = "open" <=> Working(s)
                  /\ gate \in GateWords \union {"open"}

LEMMA ProbesAre ==
  ASSUME NEW s, ProperScenario(s), NEW call
  PROVE  /\ s.exe[1] \in BOOLEAN /\ s.rustc[1] \in BOOLEAN /\ s.sysroot[1] \in BOOLEAN
         /\ s.triple[1] \in BOOLEAN /\ s.profdata[1] \in BOOLEAN /\ s.cov[1] \in BOOLEAN
         /\ s.version[1] \in Nat /\ s.testFile \in BOOLEAN
BY DEF ProperScenario

LEMMA GoGateOpens ==
  ASSUME NEW s, ProperScenario(s), s.lang = "go"
  PROVE  Opens(s, GoGate(s))
<1> DEFINE probes == GoProbes(s, 1)
           version == GoVersion(s, 1)
<1>1. GoProbes(s, 2) = probes /\ version = (IF s.exe[1] THEN s.version[1] ELSE 0)
  BY DEF GoProbes, GoVersion, Probe
<1>2. DOMAIN probes = 1 .. 3
  BY DEF GoProbes
<1>3. /\ probes[1][2] <=> ~s.exe[1]
      /\ probes[2][2] <=> version = 0
      /\ probes[3][2] <=> version < 2
  BY DEF GoProbes, Probe, MIN_VERSION
<1>4. probes[1][1] = "no go" /\ probes[2][1] = "no version" /\ probes[3][1] = "too old"
  BY DEF GoProbes
<1> HIDE DEF probes, version
<1>5. IF s.exe[1] /\ s.version[1] >= 2 THEN FirstBroken(probes) = "none"
      ELSE FirstBroken(probes) \in {"no go", "no version", "too old"}
  <2>1. 3 \in Nat /\ 1 .. 3 = {1, 2, 3}
    OBVIOUS
  <2>2. s.exe[1] \in BOOLEAN /\ s.version[1] \in Nat
    BY ProbesAre
  <2>3. CASE s.exe[1] /\ s.version[1] >= 2
    <3>1. \A i \in 1 .. 3 : ~probes[i][2]
      BY <1>1, <1>3, <2>1, <2>2, <2>3
    <3> QED BY <1>2, <2>1, <2>3, <3>1, FirstBrokenIs
  <2>4. CASE ~(s.exe[1] /\ s.version[1] >= 2)
    <3>1. \E i \in 1 .. 3 : probes[i][2]
      BY <1>1, <1>3, <2>1, <2>2, <2>4
    <3>2. \E i \in 1 .. 3 : FirstBroken(probes) = probes[i][1]
      BY <1>2, <2>1, <3>1, FirstBrokenIs
    <3> QED BY <1>4, <2>1, <2>4, <3>2
  <2> QED BY <2>3, <2>4
<1>6. GoGate(s) = IF s.testFile THEN "test file"
                  ELSE IF FirstBroken(probes) = "none" THEN "open" ELSE FirstBroken(probes)
  BY <1>1 DEF GoGate, Missing, probes
<1> QED BY <1>5, <1>6, ProbesAre DEF Opens, Working, GateWords, MIN_VERSION

LEMMA NodeGateOpens ==
  ASSUME NEW s, ProperScenario(s), s.lang = "node"
  PROVE  Opens(s, NodeGate(s))
<1> DEFINE probes == NodeProbes(s, 1)
           version == NodeVersion(s, 1)
<1>1. NodeProbes(s, 2) = probes /\ version = (IF s.exe[1] THEN s.version[1] ELSE 0)
  BY DEF NodeProbes, NodeVersion, Probe
<1>2. DOMAIN probes = 1 .. 3
  BY DEF NodeProbes
<1>3. /\ probes[1][2] <=> ~s.exe[1]
      /\ probes[2][2] <=> version = 0
      /\ probes[3][2] <=> version < 2
  BY DEF NodeProbes, Probe, MIN_VERSION
<1>4. probes[1][1] = "no node" /\ probes[2][1] = "no version" /\ probes[3][1] = "too old"
  BY DEF NodeProbes
<1> HIDE DEF probes, version
<1>5. IF s.exe[1] /\ s.version[1] >= 2 THEN FirstBroken(probes) = "none"
      ELSE FirstBroken(probes) \in {"no node", "no version", "too old"}
  <2>1. 3 \in Nat /\ 1 .. 3 = {1, 2, 3}
    OBVIOUS
  <2>2. s.exe[1] \in BOOLEAN /\ s.version[1] \in Nat
    BY ProbesAre
  <2>3. CASE s.exe[1] /\ s.version[1] >= 2
    <3>1. \A i \in 1 .. 3 : ~probes[i][2]
      BY <1>1, <1>3, <2>1, <2>2, <2>3
    <3> QED BY <1>2, <2>1, <2>3, <3>1, FirstBrokenIs
  <2>4. CASE ~(s.exe[1] /\ s.version[1] >= 2)
    <3>1. \E i \in 1 .. 3 : probes[i][2]
      BY <1>1, <1>3, <2>1, <2>2, <2>4
    <3>2. \E i \in 1 .. 3 : FirstBroken(probes) = probes[i][1]
      BY <1>2, <2>1, <3>1, FirstBrokenIs
    <3> QED BY <1>4, <2>1, <2>4, <3>2
  <2> QED BY <2>3, <2>4
<1>6. NodeGate(s) = IF s.testFile THEN "test file"
                  ELSE IF FirstBroken(probes) = "none" THEN "open" ELSE FirstBroken(probes)
  BY <1>1 DEF NodeGate, Missing, probes
<1> QED BY <1>5, <1>6, ProbesAre DEF Opens, Working, GateWords, MIN_VERSION

LEMMA RustGateOpens ==
  ASSUME NEW s, ProperScenario(s), s.lang = "rust"
  PROVE  Opens(s, RustGate(s))
<1> DEFINE probes == RustProbes(s, 1)
           version == RustcVersion(s, 1)
           tools == s.sysroot[1] /\ s.triple[1] /\ s.profdata[1] /\ s.cov[1]
           works == s.exe[1] /\ s.rustc[1] /\ s.version[1] >= 2 /\ tools
           words == {"no cargo", "no rustc", "no version", "too old", "no llvm tools"}
<1>1. /\ RustProbes(s, 2) = probes
      /\ version = (IF s.rustc[1] THEN s.version[1] ELSE 0)
  BY DEF RustProbes, RustcVersion, LlvmTool, RustcTells, Probe
<1>2. DOMAIN probes = 1 .. 5
  BY DEF RustProbes
<1>3. /\ probes[1][2] <=> ~s.exe[1]
      /\ probes[2][2] <=> ~s.rustc[1]
      /\ probes[3][2] <=> version = 0
      /\ probes[4][2] <=> version < 2
      /\ probes[5][2] <=> ~(s.rustc[1] /\ tools)
  BY DEF RustProbes, LlvmTool, RustcTells, Probe, MIN_VERSION
<1>4. /\ probes[1][1] = "no cargo" /\ probes[2][1] = "no rustc" /\ probes[3][1] = "no version"
      /\ probes[4][1] = "too old" /\ probes[5][1] = "no llvm tools"
  BY DEF RustProbes
<1> HIDE DEF probes, version
<1>5. IF works THEN FirstBroken(probes) = "none" ELSE FirstBroken(probes) \in words
  <2>1. 5 \in Nat /\ 1 .. 5 = {1, 2, 3, 4, 5}
    OBVIOUS
  <2>2. s.version[1] \in Nat /\ (s.exe[1] \in BOOLEAN) /\ (s.rustc[1] \in BOOLEAN)
    BY ProbesAre
  <2>3. CASE works
    <3>1. \A i \in 1 .. 5 : ~probes[i][2]
      BY <1>1, <1>3, <2>1, <2>2, <2>3
    <3> QED BY <1>2, <2>1, <2>3, <3>1, FirstBrokenIs
  <2>4. CASE ~works
    <3>1. \E i \in 1 .. 5 : probes[i][2]
      BY <1>1, <1>3, <2>1, <2>2, <2>4
    <3>2. \E i \in 1 .. 5 : FirstBroken(probes) = probes[i][1]
      BY <1>2, <2>1, <3>1, FirstBrokenIs
    <3> QED BY <1>4, <2>1, <2>4, <3>2
  <2> QED BY <2>3, <2>4
<1>6. RustGate(s) = IF s.testFile THEN "test file"
                    ELSE IF FirstBroken(probes) = "none" THEN "open" ELSE FirstBroken(probes)
  BY <1>1 DEF RustGate, Missing, probes
<1> QED BY <1>5, <1>6, ProbesAre DEF Opens, Working, GateWords, MIN_VERSION

LEMMA GateOpens == ASSUME NEW s, ProperScenario(s) PROVE Opens(s, Gate(s))
<1>1. CASE s.lang = "node"
  BY <1>1, NodeGateOpens DEF Gate
<1>2. CASE s.lang = "go"
  BY <1>2, GoGateOpens DEF Gate
<1>3. CASE s.lang = "rust"
  BY <1>3, RustGateOpens DEF Gate
<1> QED BY <1>1, <1>2, <1>3 DEF ProperScenario

(* Every step there was.                                                     *)
StepsDone(s) ==
  /\ s.build = "ok" /\ s.run # "raised" /\ s.export = "ok" /\ s.ended # "killed"
  /\ s.lang = "rust" =>
       /\ s.merge = "ok" /\ s.ended = "flushed" /\ ResolvePackage(s.script, s.manifest) # "none"
       /\ \E i \in DOMAIN s.messages : s.messages[i].bin /\ s.messages[i].source = s.script

FailureWords == {"package", "build", "artifact", "run", "no data", "merge", "export"}

LEMMA GoSteps ==
  ASSUME NEW s, ProperScenario(s), s.lang = "go"
  PROVE  /\ GoFailure(s) \in FailureWords \union {"none"}
         /\ GoFailure(s) = "none" => StepsDone(s)
<1> DEFINE checks == << <<"build", StepFails(s.build, TRUE)>>,
                        <<"run", StepFails(s.run, FALSE)>>,
                        <<"no data", s.ended = "killed">>,
                        <<"export", StepFails(s.export, TRUE)>> >>
<1>1. DOMAIN checks = 1 .. 4 /\ GoFailure(s) = FirstBroken(checks)
  BY DEF GoFailure
<1>2. /\ checks[1][2] <=> StepFails(s.build, TRUE)
      /\ checks[2][2] <=> StepFails(s.run, FALSE)
      /\ checks[3][2] <=> s.ended = "killed"
      /\ checks[4][2] <=> StepFails(s.export, TRUE)
  BY DEF StepFails
<1>3. /\ checks[1][1] = "build" /\ checks[2][1] = "run"
      /\ checks[3][1] = "no data" /\ checks[4][1] = "export"
  OBVIOUS
<1> HIDE DEF checks
<1>4. 4 \in Nat /\ 1 .. 4 = {1, 2, 3, 4}
  OBVIOUS
<1>5. CASE \A i \in 1 .. 4 : ~checks[i][2]
  <2>1. GoFailure(s) = "none"
    BY <1>1, <1>4, <1>5, FirstBrokenIs
  <2>2. StepsDone(s)
    BY <1>2, <1>4, <1>5 DEF StepsDone, StepFails, ProperScenario
  <2> QED BY <2>1, <2>2 DEF FailureWords
<1>6. CASE \E i \in 1 .. 4 : checks[i][2]
  <2>1. \E i \in 1 .. 4 : GoFailure(s) = checks[i][1]
    BY <1>1, <1>4, <1>6, FirstBrokenIs
  <2> QED BY <1>3, <1>4, <2>1 DEF FailureWords
<1> QED BY <1>5, <1>6

LEMMA RustSteps ==
  ASSUME NEW s, ProperScenario(s), s.lang = "rust"
  PROVE  /\ RustFailure(s) \in FailureWords \union {"none"}
         /\ RustFailure(s) = "none" => StepsDone(s)
<1> DEFINE package == ResolvePackage(s.script, s.manifest)
           binaries == Cardinality(Artifacts(s))
           checks == << <<"package", package = "none">>,
                        <<"build", StepFails(s.build, TRUE)>>,
                        <<"artifact", binaries # 1>>,
                        <<"run", StepFails(s.run, FALSE)>>,
                        <<"no data", s.ended # "flushed">>,
                        <<"merge", StepFails(s.merge, TRUE)>>,
                        <<"export", StepFails(s.export, TRUE)>> >>
<1>1. RustFailure(s) = FirstBroken(checks)
  BY DEF RustFailure
<1> HIDE DEF package, binaries
<1>2. DOMAIN checks = 1 .. 7
  OBVIOUS
<1>3. /\ checks[1][2] <=> package = "none"
      /\ checks[2][2] <=> StepFails(s.build, TRUE)
      /\ checks[3][2] <=> binaries # 1
      /\ checks[4][2] <=> StepFails(s.run, FALSE)
      /\ checks[5][2] <=> s.ended # "flushed"
      /\ checks[6][2] <=> StepFails(s.merge, TRUE)
      /\ checks[7][2] <=> StepFails(s.export, TRUE)
  BY DEF StepFails
<1>4. \A i \in 1 .. 7 : checks[i][1] \in FailureWords
  <2>1. /\ checks[1][1] = "package" /\ checks[2][1] = "build" /\ checks[3][1] = "artifact"
        /\ checks[4][1] = "run" /\ checks[5][1] = "no data" /\ checks[6][1] = "merge"
        /\ checks[7][1] = "export"
    OBVIOUS
  <2> HIDE DEF checks
  <2>2. 1 .. 7 = {1, 2, 3, 4, 5, 6, 7}
    OBVIOUS
  <2> QED BY <2>1, <2>2 DEF FailureWords
<1> HIDE DEF checks
<1>5. 7 \in Nat /\ 1 .. 7 = {1, 2, 3, 4, 5, 6, 7}
  OBVIOUS
<1>6. CASE \A i \in 1 .. 7 : ~checks[i][2]
  <2>1. RustFailure(s) = "none"
    BY <1>1, <1>2, <1>5, <1>6, FirstBrokenIs
  <2>2. /\ package # "none" /\ ~StepFails(s.build, TRUE) /\ binaries = 1 /\ ~StepFails(s.run, FALSE)
        /\ s.ended = "flushed" /\ ~StepFails(s.merge, TRUE) /\ ~StepFails(s.export, TRUE)
    BY <1>3, <1>5, <1>6
  <2>3. \E i \in DOMAIN s.messages : s.messages[i].bin /\ s.messages[i].source = s.script
    <3>1. Artifacts(s) # {}
      BY <2>2, FS_EmptySet DEF binaries
    <3> QED BY <3>1 DEF Artifacts
  <2>4. StepsDone(s)
    BY <2>2, <2>3 DEF StepsDone, StepFails, ProperScenario, package
  <2> QED BY <2>1, <2>4 DEF FailureWords
<1>7. CASE \E i \in 1 .. 7 : checks[i][2]
  <2>1. \E i \in 1 .. 7 : RustFailure(s) = checks[i][1]
    BY <1>1, <1>2, <1>5, <1>7, FirstBrokenIs
  <2> QED BY <1>4, <2>1 DEF FailureWords
<1> QED BY <1>6, <1>7

(* The package that is built is the script's.                                *)
LEMMA ShorterPrefix ==
  ASSUME NEW c \in Seq(STRING), NEW d \in Seq(STRING), NEW t \in Seq(STRING),
         IsPrefix(c, t), IsPrefix(d, t), Len(d) <= Len(c)
  PROVE  IsPrefix(d, c)
<1>1. /\ Len(c) \in Nat /\ Len(d) \in Nat /\ Len(t) \in Nat /\ Len(c) <= Len(t)
      /\ SubSeq(c, 1, Len(c)) = SubSeq(t, 1, Len(c)) /\ SubSeq(d, 1, Len(d)) = SubSeq(t, 1, Len(d))
  BY DEF IsPrefix
<1>2. \A i \in 1 .. Len(c) : c[i] = SubSeq(c, 1, Len(c))[i] /\ t[i] = SubSeq(t, 1, Len(c))[i]
  BY <1>1
<1>3. SubSeq(c, 1, Len(d)) = SubSeq(t, 1, Len(d))
  BY <1>1, <1>2
<1> QED BY <1>1, <1>3 DEF IsPrefix

LEMMA BuiltIsHome ==
  ASSUME NEW s, ProperScenario(s)
  PROVE  Home(s, ResolvePackage(s.script, s.manifest))
<1> DEFINE crates == GetCrates(s.manifest)
           matched == {c \in crates : IsStrictPrefix(c.root, s.script)}
           lengths == {Len(c.root) : c \in matched}
<1>1. CASE ~s.manifest.workspace
  BY <1>1 DEF Home
<1>2. CASE s.manifest.workspace
  <2>1. crates = {c \in s.manifest.members : c.crate}
    BY <1>2 DEF GetCrates
  <2>2. \A c \in matched : c \in s.manifest.members /\ c.crate /\ c.root \in Seq(STRING) /\ Len(c.root) \in Nat
    BY <2>1 DEF ProperScenario, ProperCrate
  <2>3. CASE matched = {}
    <3>1. ResolvePackage(s.script, s.manifest) = s.manifest.package
      BY <2>3 DEF ResolvePackage
    <3> QED BY <2>1, <2>3, <3>1 DEF Home
  <2>4. CASE matched # {}
    <3>1. \E c \in matched : \A d \in matched : Len(d.root) <= Len(c.root)
      <4>1. IsFiniteSet(lengths)
        <5> DEFINE f == [c \in matched |-> Len(c.root)]
        <5>1. IsFiniteSet(matched)
          <6>1. matched \in SUBSET s.manifest.members /\ IsFiniteSet(s.manifest.members)
            BY <2>2 DEF ProperScenario
          <6> QED BY <6>1, FS_Subset
        <5>2. f \in Surjection(matched, lengths)
          BY DEF Surjection
        <5> QED BY <5>1, <5>2, FS_Surjection
      <4>2. lengths \in SUBSET Nat /\ lengths # {}
        BY <2>2, <2>4
      <4>3. \E l \in lengths : \A k \in lengths : k <= l
        BY <4>1, <4>2, Greatest
      <4> QED BY <4>3
    <3> DEFINE best == CHOOSE c \in matched : \A d \in matched : Len(d.root) <= Len(c.root)
    <3>2. best \in matched /\ \A d \in matched : Len(d.root) <= Len(best.root)
      BY <3>1
    <3>3. ResolvePackage(s.script, s.manifest) = best.name
      BY <2>4 DEF ResolvePackage
    <3> HIDE DEF best
    <3>4. \A d \in matched : IsPrefix(d.root, best.root)
      BY <2>2, <3>2, ShorterPrefix DEF IsStrictPrefix, ProperScenario
    <3>5. \A d \in s.manifest.members : d.crate /\ IsStrictPrefix(d.root, s.script) => d \in matched
      BY <2>1
    <3> HIDE DEF matched
    <3>6. best \in s.manifest.members /\ best.crate /\ IsStrictPrefix(best.root, s.script)
      BY <2>2, <3>2 DEF matched
    <3> QED BY <3>3, <3>4, <3>5, <3>6 DEF Home
  <2> QED BY <2>3, <2>4
<1> QED BY <1>1, <1>2 DEF ProperScenario

(* Where an entry of the coverage lands.                                     *)
StartOf(s, e) == IF s.lang = "go" THEN e.line ELSE MinRegionLine(e.regions)

LEMMA Starts ==
  ASSUME NEW s, s.lang \in {"go", "rust"}, NEW e, ProperEntry(s, e), Counted(s, e)
  PROVE  /\ StartOf(s, e) \in Nat
         /\ LinesOf(s, e) # {} =>
              StartOf(s, e) \in LinesOf(s, e) /\ \A l \in LinesOf(s, e) : StartOf(s, e) <= l
<1>1. CASE s.lang = "go"
  BY <1>1 DEF StartOf, LinesOf, ProperEntry
<1>2. CASE s.lang = "rust"
  <2> DEFINE own == {r \in e.regions : r.file = 0}
             used == IF own # {} THEN own ELSE e.regions
             first == CHOOSE r \in used : \A o \in used : r.line <= o.line
             lines == {r.line : r \in used}
  <2>1. used # {} /\ \A r \in used : r.line \in Nat
    BY <1>2 DEF ProperEntry, Counted
  <2>2. lines \in SUBSET Nat /\ lines # {}
    BY <2>1
  <2>3. \E l \in lines : \A k \in lines : l <= k
    BY <2>2, Least
  <2>4. \E r \in used : \A o \in used : r.line <= o.line
    BY <2>3
  <2>5. first \in used /\ \A o \in used : first.line <= o.line
    BY <2>4
  <2>6. StartOf(s, e) = first.line
    BY <1>2 DEF StartOf, MinRegionLine
  <2>7. LinesOf(s, e) = {r.line : r \in own}
    BY <1>2 DEF LinesOf
  <2> HIDE DEF first, own
  <2>8. own # {} => used = own
    OBVIOUS
  <2> HIDE DEF used
  <2> QED BY <2>1, <2>5, <2>6, <2>7, <2>8
<1> QED BY <1>1, <1>2

LEMMA EntryLands ==
  ASSUME NEW s, ProperNodes(s.nodes), s.root \in Seq(STRING), s.lang \in {"go", "rust"},
         NEW e, ProperEntry(s, e), Counted(s, e)
  PROVE  ResolveStatement(s.nodes, NormalizePath(s.root, e.id), StartOf(s, e)) = e.of
<1> DEFINE start == StartOf(s, e)
           j == [kind |-> "statement", nodes |-> s.nodes, root |-> s.root, id |-> e.id, line |-> start,
                 owner |-> Nothing, module |-> FALSE, name |-> <<>>, pseudo |-> FALSE]
           node == ResolveStatement(s.nodes, NormalizePath(s.root, e.id), start)
           functions == {n \in Above(s, e) : Callable(n)}
           files == {n \in Above(s, e) : n.kind = "file"}
           before == {n \in functions : \A l \in LinesOf(s, e) : n.line <= l}
<1>1. /\ j.kind = "statement" /\ j.nodes = s.nodes /\ j.root = s.root /\ j.id = e.id
      /\ j.line = start /\ j.owner = Nothing /\ j.name = <<>>
  OBVIOUS
<1> HIDE DEF j
<1>2. start \in Nat
  BY Starts
<1>3. ProperFrame(j)
  BY <1>1, <1>2 DEF ProperFrame, ProperEntry
<1>4. StatementIsFound(j, node)
  BY <1>1, <1>3, StatementSound
<1>5. Inside(j) <=> IsStrictPrefix(s.root, e.id.parts)
  BY <1>1 DEF Inside, ProperEntry
<1>6. Beside(j) = functions /\ {n \in j.nodes : n.kind = "file" /\ At(j, n)} = files
  BY <1>1 DEF Beside, At, Above
<1>7. CASE ~IsStrictPrefix(s.root, e.id.parts)
  <2>1. e.of = NoNode
    BY <1>7 DEF ProperEntry, EntryIsOf
  <2> QED BY <1>4, <1>5, <1>7, <2>1 DEF StatementIsFound
<1>8. CASE IsStrictPrefix(s.root, e.id.parts)
  <2>1. /\ LinesOf(s, e) # {}
        /\ IF before # {}
           THEN \E n \in before : e.of = n.id /\ \A m \in before \ {n} : m.line < n.line
           ELSE IF files # {} THEN \E n \in files : e.of = n.id
           ELSE e.of = Unresolved
    BY <1>8 DEF ProperEntry, EntryIsOf
  <2>2. start \in LinesOf(s, e) /\ \A l \in LinesOf(s, e) : start <= l
    BY <2>1, Starts
  <2>3. \A n \in functions : n.line \in Nat
    BY DEF ProperNodes, Above
  <2>4. \A l \in LinesOf(s, e) : l \in Nat
    BY DEF LinesOf, ProperEntry
  <2> HIDE DEF start
  <2>5. {g \in Beside(j) : g.line <= j.line} = before
    BY <1>1, <1>2, <1>6, <2>2, <2>3, <2>4
  <2>6. IF before = {} THEN node = FileNode(j)
        ELSE \E g \in before : node = g.id /\ \A h \in before : h.line <= g.line
    <3> HIDE DEF node, before
    <3> QED BY <1>4, <1>5, <1>8, <2>5 DEF StatementIsFound
  <2>7. CASE before = {}
    <3>1. FileNode(j) = IF files = {} THEN Unresolved ELSE (CHOOSE n \in files : TRUE).id
      <4> DEFINE found == {n \in j.nodes : n.kind = "file" /\ At(j, n)}
      <4>1. FileNode(j) = IF found = {} THEN Unresolved ELSE (CHOOSE n \in found : TRUE).id
        BY DEF FileNode
      <4>2. found = files
        BY <1>6
      <4> HIDE DEF found, files
      <4> QED BY <4>1, <4>2
    <3>2. \A m, n \in files : m = n
      <4>1. \A n \in files : n \in j.nodes /\ n.kind = "file" /\ n.path = ToPosix(j.root, j.id.parts)
        BY <1>1, <1>3, <1>5, <1>6, <1>8, Located
      <4> QED BY <1>1, <4>1 DEF ProperNodes
    <3> HIDE DEF files, before, node
    <3>3. files # {} => \A n \in files : (CHOOSE m \in files : TRUE) = n
      BY <3>2
    <3> QED BY <2>1, <2>6, <2>7, <3>1, <3>3 DEF node, start
  <2>8. CASE before # {}
    <3>1. \A n \in before : n.line \in Nat
      BY <2>3
    <3> HIDE DEF before, files, node
    <3>2. PICK n \in before : e.of = n.id /\ \A m \in before \ {n} : m.line < n.line
      BY <2>1, <2>8
    <3>3. PICK g \in before : node = g.id /\ \A h \in before : h.line <= g.line
      BY <2>6, <2>8
    <3>4. g = n
      BY <3>1, <3>2, <3>3
    <3> QED BY <3>2, <3>3, <3>4 DEF node, start
  <2> QED BY <2>7, <2>8
<1> QED BY <1>7, <1>8

(* The calls of finitely many entries, and of one more.                      *)
LEMMA OneMoreEntry ==
  ASSUME NEW s, NEW n \in Nat, \A i \in 1 .. n : s.coverage[i].count \in Nat, NEW S \in SUBSET (1 .. n)
  PROVE  /\ Cardinality(EntryCalls(s, S)) \in Nat
         /\ \A i \in (1 .. n) \ S :
              Cardinality(EntryCalls(s, S \union {i})) = Cardinality(EntryCalls(s, S)) + s.coverage[i].count
<1> DEFINE C(i) == {i} \X (1 .. s.coverage[i].count)
           I(T) == UNION {C(i) : i \in T}
<1>1. ASSUME NEW i \in 1 .. n PROVE IsFiniteSet(C(i)) /\ Cardinality(C(i)) = s.coverage[i].count
  <2> DEFINE count == s.coverage[i].count
  <2>1. IsFiniteSet(1 .. count) /\ Cardinality(1 .. count) = count
    <3>1. count \in Nat
      BY <1>1
    <3> HIDE DEF count
    <3> QED BY <3>1, FS_Interval
  <2>2. IsFiniteSet({i}) /\ Cardinality({i}) = 1
    BY FS_Singleton
  <2>3. Cardinality(C(i)) = 1 * count /\ IsFiniteSet(C(i))
    BY <2>1, <2>2, FS_Product
  <2> QED BY <1>1, <2>3
<1>2. IsFiniteSet(I(S))
  <2> DEFINE U == {C(i) : i \in S}
             f == [i \in S |-> C(i)]
  <2>1. IsFiniteSet(S)
    <3>1. IsFiniteSet(1 .. n)
      BY FS_Interval
    <3> QED BY <3>1, FS_Subset
  <2>2. f \in Surjection(S, U)
    BY DEF Surjection
  <2>3. IsFiniteSet(U)
    BY <2>1, <2>2, FS_Surjection
  <2>4. \A X \in U : IsFiniteSet(X)
    BY <1>1
  <2> HIDE DEF U
  <2>5. IsFiniteSet(UNION U)
    BY <2>3, <2>4, FS_UNION
  <2> QED BY <2>5 DEF U
<1>3. \A T : EntryCalls(s, T) = I(T)
  BY DEF EntryCalls
<1>4. ASSUME NEW i \in (1 .. n) \ S
      PROVE  Cardinality(I(S \union {i})) = Cardinality(I(S)) + s.coverage[i].count
  <2>1. I(S \union {i}) = I(S) \union C(i)
    OBVIOUS
  <2>2. I(S) \intersect C(i) = {}
    OBVIOUS
  <2>3. IsFiniteSet(C(i)) /\ Cardinality(C(i)) = s.coverage[i].count
    BY <1>1, <1>4
  <2> HIDE DEF I, C
  <2> QED BY <1>2, <2>1, <2>2, <2>3, DisjointUnion
<1> HIDE DEF I, C
<1> QED BY <1>2, <1>3, <1>4, FS_CardinalityType

-----------------------------------------------------------------------------
(* What the fold knows after i entries.                                      *)
Folded(s, i, n) == EntriesOf(s, n) \intersect (1 .. i)

GoKept(s, i, a) ==
  /\ DOMAIN a.lines = DOMAIN a.counts
  /\ \A n \in DOMAIN a.counts :
       \E b \in Folded(s, i, n) : /\ a.lines[n] = s.coverage[b].line /\ a.counts[n] = s.coverage[b].count
                              /\ \A c \in Folded(s, i, n) : ComesFirst(s, b, c)

RustAdded(s, i, a) ==
  \A n \in DOMAIN a.counts : a.counts[n] = Cardinality(EntryCalls(s, Folded(s, i, n)))

FoldInv(s, a) ==
  /\ a = [status |-> "fold", built |-> a.built, i |-> a.i, counts |-> a.counts, lines |-> a.lines]
  /\ a.i \in 0 .. Len(s.coverage) /\ s.lang \in {"go", "rust"}
  /\ Working(s) /\ StepsDone(s) /\ a.built = ResolvePackage(s.script, s.manifest)
  /\ a.counts = [n \in DOMAIN a.counts |-> a.counts[n]]
  /\ a.lines = [n \in DOMAIN a.lines |-> a.lines[n]]
  /\ \A n : n \in DOMAIN a.counts <=> n # NoNode /\ Folded(s, a.i, n) # {}
  /\ s.lang = "go" => GoKept(s, a.i, a)
  /\ s.lang = "rust" => RustAdded(s, a.i, a)

(* A trace that was answered.                                                *)
ColdAnswer(s, a) ==
  LET ran == {n \in DOMAIN s.calls : CallsOf(s, n) > 0}
  IN  /\ a.status \in GateWords <=> ~Working(s)
      /\ a.status # "unknown reason"
      /\ a.status \in {"traced", "capped"} => StepsDone(s) /\ a.built = ResolvePackage(s.script, s.manifest)
      /\ a.status = "capped" => s.cap # Nothing /\ Cardinality(ran) > s.cap
      /\ a.status = "traced" => /\ s.cap # Nothing => Cardinality(ran) <= s.cap
                                /\ a.events = [n \in ran |-> CallsOf(s, n)]

ColdInv ==
  /\ asked \in Scenarios
  /\ answer # Nothing => IF answer.status = "fold" THEN FoldInv(asked, answer) ELSE ColdAnswer(asked, answer)

LEMMA FoldedNext ==
  ASSUME NEW s, ProperScenario(s), NEW i \in Nat, i < Len(s.coverage), NEW n
  PROVE  /\ i + 1 \in DOMAIN s.coverage /\ i + 1 \notin Folded(s, i, n)
         /\ Folded(s, i + 1, n) = IF Counted(s, s.coverage[i + 1]) /\ s.coverage[i + 1].of = n
                               THEN Folded(s, i, n) \union {i + 1} ELSE Folded(s, i, n)
<1>1. DOMAIN s.coverage = 1 .. Len(s.coverage) /\ Len(s.coverage) \in Nat
  BY DEF ProperScenario
<1>2. i + 1 \in DOMAIN s.coverage /\ 1 .. (i + 1) = (1 .. i) \union {i + 1} /\ i + 1 \notin 1 .. i
  BY <1>1
<1>3. i + 1 \in EntriesOf(s, n) <=> Counted(s, s.coverage[i + 1]) /\ s.coverage[i + 1].of = n
  BY <1>2 DEF EntriesOf
<1> QED BY <1>2, <1>3 DEF Folded

LEMMA FoldBegins ==
  ASSUME ColdInv, BeginFold
  PROVE  FoldInv(asked, answer')
<1> DEFINE s == asked
           a == [status |-> "fold", built |-> ResolvePackage(s.script, s.manifest),
                 i |-> 0, counts |-> [n \in {} |-> 0], lines |-> [n \in {} |-> 0]]
<1>1. /\ ProperScenario(s) /\ s.lang # "node" /\ Gate(s) = "open" /\ Failure(s) = "none" /\ answer' = a
  BY ScenariosAreProper DEF ColdInv, BeginFold, MayBuild, Asked, Answer
<1>2. s.lang \in {"go", "rust"} /\ Len(s.coverage) \in Nat
  BY <1>1 DEF ProperScenario
<1>3. Working(s)
  BY <1>1, GateOpens DEF Opens
<1>4. StepsDone(s)
  BY <1>1, <1>2, GoSteps, RustSteps DEF Failure
<1>5. \A n : Folded(s, 0, n) = {}
  BY DEF Folded
<1>6. /\ a.status = "fold" /\ a.built = ResolvePackage(s.script, s.manifest) /\ a.i = 0
      /\ a.counts = [n \in {} |-> 0] /\ a.lines = [n \in {} |-> 0]
      /\ a = [status |-> "fold", built |-> a.built, i |-> a.i, counts |-> a.counts, lines |-> a.lines]
  OBVIOUS
<1> HIDE DEF a
<1>7. DOMAIN a.counts = {} /\ DOMAIN a.lines = {}
  BY <1>6
<1>8. /\ a.counts = [n \in DOMAIN a.counts |-> a.counts[n]]
      /\ a.lines = [n \in DOMAIN a.lines |-> a.lines[n]]
  BY <1>6
<1>9. GoKept(s, a.i, a) /\ RustAdded(s, a.i, a)
  BY <1>7 DEF GoKept, RustAdded
<1>10. FoldInv(s, a)
  BY <1>2, <1>3, <1>4, <1>5, <1>6, <1>7, <1>8, <1>9 DEF FoldInv
<1> QED BY <1>1, <1>10

(* A turn of the fold, at entry i + 1, which is of node x.                   *)
AtEntry(s, a, i, e) ==
  /\ ProperScenario(s) /\ FoldInv(s, a) /\ a.i = i /\ i \in Nat /\ i < Len(s.coverage)
  /\ e = s.coverage[i + 1] /\ ProperEntry(s, e)

LEMMA EntryTurn ==
  ASSUME ColdInv, More
  PROVE  /\ AtEntry(asked, answer, answer.i, NextEntry)
         /\ asked.lang = "go" => BlockNode = NextEntry.of
         /\ asked.lang = "rust" /\ NextEntry.regions # {} => FunctionNode = NextEntry.of
<1> DEFINE s == asked
           e == NextEntry
<1>1. ProperScenario(s) /\ FoldInv(s, answer) /\ answer.i < Len(s.coverage)
  BY ScenariosAreProper DEF ColdInv, More, Folding
<1>2. answer.i \in Nat /\ s.lang \in {"go", "rust"} /\ Len(s.coverage) \in Nat
  BY <1>1 DEF FoldInv, ProperScenario
<1>3. answer.i + 1 \in DOMAIN s.coverage
  BY <1>1, <1>2, FoldedNext
<1>4. ProperEntry(s, e)
  BY <1>1, <1>2, <1>3 DEF ProperScenario, NextEntry
<1>5. AtEntry(s, answer, answer.i, e)
  BY <1>1, <1>2, <1>4 DEF AtEntry, NextEntry
<1>6. ProperNodes(s.nodes) /\ s.root \in Seq(STRING)
  BY <1>1 DEF ProperScenario
<1>7. ASSUME s.lang = "go" PROVE BlockNode = e.of
  <2>1. Counted(s, e) /\ StartOf(s, e) = e.line
    BY <1>7 DEF Counted, StartOf
  <2>2. NormalizeImport(s.root, e.id) = NormalizePath(s.root, e.id)
    BY <1>1, <1>7 DEF ProperScenario, NormalizeImport, NormalizePath
  <2>3. ResolveStatement(s.nodes, NormalizePath(s.root, e.id), StartOf(s, e)) = e.of
    BY <1>2, <1>4, <1>6, <2>1, EntryLands
  <2> QED BY <2>1, <2>2, <2>3 DEF BlockNode
<1>8. ASSUME s.lang = "rust", e.regions # {} PROVE FunctionNode = e.of
  <2>1. Counted(s, e) /\ StartOf(s, e) = MinRegionLine(e.regions)
    BY <1>8 DEF Counted, StartOf
  <2>2. ResolveStatement(s.nodes, NormalizePath(s.root, e.id), StartOf(s, e)) = e.of
    BY <1>2, <1>4, <1>6, <2>1, EntryLands
  <2> QED BY <2>1, <2>2 DEF FunctionNode
<1> QED BY <1>5, <1>7, <1>8

LEMMA WithIs ==
  ASSUME NEW f, NEW n, NEW value
  PROVE  /\ DOMAIN With(f, n, value) = DOMAIN f \union {n} /\ With(f, n, value)[n] = value
         /\ \A m \in DOMAIN f : m # n => With(f, n, value)[m] = f[m]
         /\ With(f, n, value) = [m \in DOMAIN With(f, n, value) |-> With(f, n, value)[m]]
BY DEF With

(* An entry that is passed over is nobody's, or not the first of its node's. *)
LEMMA Passed ==
  ASSUME NEW s, NEW a, NEW i, NEW e, AtEntry(s, a, i, e),
         \/ e.of = NoNode \/ ~Counted(s, e)
         \/ s.lang = "go" /\ e.of \in DOMAIN a.lines /\ ~(e.line < a.lines[e.of])
  PROVE  FoldInv(s, [a EXCEPT !.i = i + 1])
<1> DEFINE b == [a EXCEPT !.i = i + 1]
<1>1. FoldInv(s, a) /\ ProperScenario(s) /\ i \in Nat /\ i < Len(s.coverage) /\ a.i = i /\ e = s.coverage[i + 1]
  BY DEF AtEntry
<1>2. /\ b = [status |-> "fold", built |-> b.built, i |-> b.i, counts |-> b.counts, lines |-> b.lines]
      /\ b.built = a.built /\ b.i = i + 1 /\ b.counts = a.counts /\ b.lines = a.lines
  <2>1. a = [status |-> "fold", built |-> a.built, i |-> a.i, counts |-> a.counts, lines |-> a.lines]
    BY <1>1 DEF FoldInv
  <2>2. b = [status |-> "fold", built |-> a.built, i |-> i + 1, counts |-> a.counts, lines |-> a.lines]
    BY <2>1
  <2> QED BY <2>2
<1> HIDE DEF b
<1>3. b.i \in 0 .. Len(s.coverage)
  BY <1>1, <1>2 DEF ProperScenario
<1>4. CASE e.of = NoNode \/ ~Counted(s, e)
  <2>1. \A n : n # NoNode => Folded(s, i + 1, n) = Folded(s, i, n)
    BY <1>1, <1>4, FoldedNext
  <2>2. \A n : n \in DOMAIN b.counts <=> n # NoNode /\ Folded(s, b.i, n) # {}
    BY <1>1, <1>2, <2>1 DEF FoldInv
  <2>3. s.lang = "go" => GoKept(s, b.i, b)
    BY <1>1, <1>2, <2>1 DEF FoldInv, GoKept
  <2>4. s.lang = "rust" => RustAdded(s, b.i, b)
    BY <1>1, <1>2, <2>1 DEF FoldInv, RustAdded
  <2> QED BY <1>1, <1>2, <1>3, <2>2, <2>3, <2>4 DEF FoldInv
<1>5. CASE s.lang = "go" /\ e.of \in DOMAIN a.lines /\ ~(e.line < a.lines[e.of]) /\ e.of # NoNode
  <2> DEFINE x == e.of
  <2>1. Counted(s, e) /\ GoKept(s, i, a) /\ DOMAIN a.lines = DOMAIN a.counts
    BY <1>1, <1>5 DEF FoldInv, GoKept, Counted
  <2>2. /\ Folded(s, i + 1, x) = Folded(s, i, x) \union {i + 1}
        /\ \A n : n # x => Folded(s, i + 1, n) = Folded(s, i, n)
    BY <1>1, <2>1, FoldedNext
  <2>3. \A n : n \in DOMAIN b.counts <=> n # NoNode /\ Folded(s, b.i, n) # {}
    BY <1>1, <1>2, <1>5, <2>1, <2>2 DEF FoldInv
  <2>4. ASSUME NEW n \in DOMAIN a.counts
        PROVE  \E k \in Folded(s, i + 1, n) : /\ a.lines[n] = s.coverage[k].line /\ a.counts[n] = s.coverage[k].count
                                             /\ \A c \in Folded(s, i + 1, n) : ComesFirst(s, k, c)
    <3>1. PICK k \in Folded(s, i, n) : /\ a.lines[n] = s.coverage[k].line /\ a.counts[n] = s.coverage[k].count
                                     /\ \A c \in Folded(s, i, n) : ComesFirst(s, k, c)
      BY <2>1, <2>4 DEF GoKept
    <3>2. k \in 1 .. i /\ k \in DOMAIN s.coverage
      BY DEF Folded, EntriesOf
    <3>3. s.coverage[k].line \in Nat /\ e.line \in Nat
      BY <1>1, <1>5, <3>2, FoldedNext DEF ProperScenario, ProperEntry
    <3>4. n = x => ComesFirst(s, k, i + 1)
      BY <1>1, <1>5, <3>1, <3>2, <3>3 DEF ComesFirst
    <3> QED BY <2>2, <3>1, <3>4
  <2>5. GoKept(s, b.i, b)
    BY <1>2, <2>1, <2>4 DEF GoKept
  <2> QED BY <1>1, <1>2, <1>3, <1>5, <2>3, <2>5 DEF FoldInv
<1> QED BY <1>4, <1>5 DEF b

(* The record of the fold after an entry of Rust, and of Go.                 *)
LEMMA RustRecord ==
  ASSUME NEW a, NEW j, NEW counts,
         a = [status |-> "fold", built |-> a.built, i |-> a.i, counts |-> a.counts, lines |-> a.lines]
  PROVE  [a EXCEPT !.i = j, !.counts = counts] =
           [status |-> "fold", built |-> a.built, i |-> j, counts |-> counts, lines |-> a.lines]
<1> DEFINE built == a.built
           i == a.i
           oldCounts == a.counts
           oldLines == a.lines
           r == [a EXCEPT !.i = j]
           b == [r EXCEPT !.counts = counts]
<1>1. [a EXCEPT !.i = j, !.counts = counts] = b
  OBVIOUS
<1> HIDE DEF built, i, oldCounts, oldLines
<1>2. a = [status |-> "fold", built |-> built, i |-> i, counts |-> oldCounts, lines |-> oldLines]
  BY DEF built, i, oldCounts, oldLines
<1>3. r = [status |-> "fold", built |-> built, i |-> j, counts |-> oldCounts, lines |-> oldLines]
  BY ONLY <1>2
<1> HIDE DEF r
<1>4. b = [status |-> "fold", built |-> built, i |-> j, counts |-> counts, lines |-> oldLines]
  BY ONLY <1>3
<1> HIDE DEF b
<1> QED BY <1>1, <1>4 DEF built, oldLines

LEMMA GoRecord ==
  ASSUME NEW built, NEW i, NEW oldCounts, NEW oldLines, NEW j, NEW counts, NEW lines,
         NEW a, a = [status |-> "fold", built |-> built, i |-> i, counts |-> oldCounts, lines |-> oldLines]
  PROVE  /\ a.built = built
         /\ [a EXCEPT !.i = j, !.lines = lines, !.counts = counts] =
              [status |-> "fold", built |-> built, i |-> j, counts |-> counts, lines |-> lines]
<1> DEFINE r == [a EXCEPT !.i = j]
           p == [r EXCEPT !.lines = lines]
           b == [p EXCEPT !.counts = counts]
<1>1. [a EXCEPT !.i = j, !.lines = lines, !.counts = counts] = b /\ a.built = built
  OBVIOUS
<1>2. r = [status |-> "fold", built |-> built, i |-> j, counts |-> oldCounts, lines |-> oldLines]
  OBVIOUS
<1> HIDE DEF r
<1>3. p = [status |-> "fold", built |-> built, i |-> j, counts |-> oldCounts, lines |-> lines]
  BY ONLY <1>2
<1> HIDE DEF p
<1>4. b = [status |-> "fold", built |-> built, i |-> j, counts |-> counts, lines |-> lines]
  BY ONLY <1>3
<1> HIDE DEF b
<1> QED BY <1>1, <1>4

(* A block that counts is the first of its node's so far.                    *)
LEMMA BlockKept ==
  ASSUME NEW s, NEW a, NEW i, NEW e, AtEntry(s, a, i, e), s.lang = "go", e.of # NoNode,
         e.of \in DOMAIN a.lines => e.line < a.lines[e.of],
         NEW b, b = [a EXCEPT !.i = i + 1, !.lines = With(a.lines, e.of, e.line),
                              !.counts = With(a.counts, e.of, e.count)]
  PROVE  FoldInv(s, b)
<1> DEFINE x == e.of
<1>1. /\ FoldInv(s, a) /\ ProperScenario(s) /\ i \in Nat /\ i < Len(s.coverage) /\ a.i = i
      /\ e = s.coverage[i + 1] /\ ProperEntry(s, e)
  BY DEF AtEntry
<1>2. /\ b = [status |-> "fold", built |-> b.built, i |-> b.i, counts |-> b.counts, lines |-> b.lines]
      /\ b.built = a.built /\ b.i = i + 1 /\ b.counts = With(a.counts, x, e.count)
      /\ b.lines = With(a.lines, x, e.line)
  <2> DEFINE counts == With(a.counts, x, e.count)
             lines == With(a.lines, x, e.line)
  <2>1. b = [a EXCEPT !.i = i + 1, !.lines = lines, !.counts = counts]
    OBVIOUS
  <2> HIDE DEF counts, lines
  <2>2. a = [status |-> "fold", built |-> a.built, i |-> a.i, counts |-> a.counts, lines |-> a.lines]
    BY <1>1 DEF FoldInv
  <2>3. b = [status |-> "fold", built |-> a.built, i |-> i + 1, counts |-> counts, lines |-> lines]
    <3> DEFINE built == a.built
               old == a.i
               oldCounts == a.counts
               oldLines == a.lines
               j == i + 1
    <3> HIDE DEF built, old, oldCounts, oldLines, j
    <3>1. a = [status |-> "fold", built |-> built, i |-> old, counts |-> oldCounts, lines |-> oldLines]
      BY <2>2 DEF built, old, oldCounts, oldLines
    <3>2. b = [a EXCEPT !.i = j, !.lines = lines, !.counts = counts]
      BY <2>1 DEF j
    <3>3. b = [status |-> "fold", built |-> built, i |-> j, counts |-> counts, lines |-> lines]
      BY ONLY <3>1, <3>2, GoRecord
    <3> QED BY ONLY <3>3 DEF built, j
  <2>4. b.built = a.built /\ b.i = i + 1 /\ b.counts = counts /\ b.lines = lines
    BY ONLY <2>3
  <2> QED BY <2>3, <2>4 DEF counts, lines
<1>3. b.i \in 0 .. Len(s.coverage)
  BY <1>1, <1>2 DEF ProperScenario
<1>4. Counted(s, e) /\ GoKept(s, i, a) /\ DOMAIN a.lines = DOMAIN a.counts
  BY <1>1 DEF FoldInv, GoKept, Counted
<1>5. /\ Folded(s, i + 1, x) = Folded(s, i, x) \union {i + 1}
      /\ \A n : n # x => Folded(s, i + 1, n) = Folded(s, i, n)
  BY <1>1, <1>4, FoldedNext
<1>6. /\ DOMAIN b.counts = DOMAIN a.counts \union {x} /\ DOMAIN b.lines = DOMAIN b.counts
      /\ b.counts[x] = e.count /\ b.lines[x] = e.line
      /\ \A n \in DOMAIN a.counts : n # x => b.counts[n] = a.counts[n] /\ b.lines[n] = a.lines[n]
      /\ b.counts = [n \in DOMAIN b.counts |-> b.counts[n]]
      /\ b.lines = [n \in DOMAIN b.lines |-> b.lines[n]]
  <2>1. /\ DOMAIN b.counts = DOMAIN a.counts \union {x} /\ b.counts[x] = e.count
        /\ \A n \in DOMAIN a.counts : n # x => b.counts[n] = a.counts[n]
        /\ b.counts = [n \in DOMAIN b.counts |-> b.counts[n]]
    <3>1. b.counts = With(a.counts, x, e.count)
      BY <1>2
    <3> QED BY ONLY <3>1 DEF With
  <2>2. /\ DOMAIN b.lines = DOMAIN a.lines \union {x} /\ b.lines[x] = e.line
        /\ \A n \in DOMAIN a.lines : n # x => b.lines[n] = a.lines[n]
        /\ b.lines = [n \in DOMAIN b.lines |-> b.lines[n]]
    <3>1. b.lines = With(a.lines, x, e.line)
      BY <1>2
    <3> QED BY ONLY <3>1 DEF With
  <2> QED BY <1>4, <2>1, <2>2
<1>7. \A n : n \in DOMAIN b.counts <=> n # NoNode /\ Folded(s, b.i, n) # {}
  <2>1. \A n : n \in DOMAIN a.counts <=> n # NoNode /\ Folded(s, i, n) # {}
    BY <1>1 DEF FoldInv
  <2>2. b.i = i + 1 /\ DOMAIN b.counts = DOMAIN a.counts \union {x} /\ x # NoNode
    BY <1>2, <1>6
  <2> QED BY ONLY <1>5, <2>1, <2>2
<1>8. ASSUME NEW n \in DOMAIN b.counts
      PROVE  \E k \in Folded(s, i + 1, n) : /\ b.lines[n] = s.coverage[k].line /\ b.counts[n] = s.coverage[k].count
                                           /\ \A c \in Folded(s, i + 1, n) : ComesFirst(s, k, c)
  <2>1. CASE n # x
    BY <1>4, <1>5, <1>6, <1>8, <2>1 DEF GoKept
  <2>2. CASE n = x
    <3>1. e.line \in Nat /\ ComesFirst(s, i + 1, i + 1)
      BY <1>1 DEF ProperEntry, ComesFirst
    <3>2. ASSUME NEW c \in Folded(s, i, x) PROVE ComesFirst(s, i + 1, c)
      <4>1. x \in DOMAIN a.lines /\ e.line < a.lines[x]
        BY <1>1, <1>4, <3>2 DEF FoldInv
      <4>2. PICK k \in Folded(s, i, x) : a.lines[x] = s.coverage[k].line /\ ComesFirst(s, k, c)
        BY <1>4, <4>1 DEF GoKept
      <4>3. s.coverage[k].line \in Nat /\ s.coverage[c].line \in Nat
        <5>1. k \in DOMAIN s.coverage /\ c \in DOMAIN s.coverage
          BY DEF Folded, EntriesOf
        <5> QED BY <1>1, <5>1 DEF ProperScenario, ProperEntry
      <4> QED BY <1>1, <3>1, <4>1, <4>2, <4>3 DEF ComesFirst
    <3>3. \A c \in Folded(s, i + 1, x) : ComesFirst(s, i + 1, c)
      BY <1>5, <3>1, <3>2
    <3> QED BY <1>1, <1>5, <1>6, <2>2, <3>3
  <2> QED BY <2>1, <2>2
<1>9. GoKept(s, b.i, b)
  BY <1>2, <1>6, <1>8 DEF GoKept
<1> QED BY <1>1, <1>2, <1>3, <1>6, <1>7, <1>9 DEF FoldInv

(* An instantiation that counts adds its calls to its node's.                *)
LEMMA FunctionAdded ==
  ASSUME NEW s, NEW a, NEW i, NEW e, AtEntry(s, a, i, e), s.lang = "rust", e.of # NoNode, Counted(s, e),
         NEW before, before = IF e.of \in DOMAIN a.counts THEN a.counts[e.of] ELSE 0,
         NEW b, b = [a EXCEPT !.i = i + 1, !.counts = With(a.counts, e.of, before + e.count)]
  PROVE  FoldInv(s, b)
<1> DEFINE x == e.of
<1>1. /\ FoldInv(s, a) /\ ProperScenario(s) /\ i \in Nat /\ i < Len(s.coverage) /\ a.i = i
      /\ e = s.coverage[i + 1] /\ ProperEntry(s, e)
  BY DEF AtEntry
<1>2. /\ b = [status |-> "fold", built |-> b.built, i |-> b.i, counts |-> b.counts, lines |-> b.lines]
      /\ b.built = a.built /\ b.i = i + 1 /\ b.counts = With(a.counts, x, before + e.count)
      /\ b.lines = a.lines
  <2> DEFINE counts == With(a.counts, x, before + e.count)
  <2>1. b = [a EXCEPT !.i = i + 1, !.counts = counts]
    OBVIOUS
  <2> HIDE DEF counts
  <2>2. a = [status |-> "fold", built |-> a.built, i |-> a.i, counts |-> a.counts, lines |-> a.lines]
    BY <1>1 DEF FoldInv
  <2>3. b = [status |-> "fold", built |-> a.built, i |-> i + 1, counts |-> counts, lines |-> a.lines]
    <3> DEFINE j == i + 1
    <3> HIDE DEF j
    <3>1. [a EXCEPT !.i = j, !.counts = counts] =
            [status |-> "fold", built |-> a.built, i |-> j, counts |-> counts, lines |-> a.lines]
      BY ONLY <2>2, RustRecord
    <3> QED BY ONLY <2>1, <3>1 DEF j
  <2>4. b.built = a.built /\ b.i = i + 1 /\ b.counts = counts /\ b.lines = a.lines
    BY ONLY <2>3
  <2> QED BY <2>3, <2>4 DEF counts
<1>3. b.i \in 0 .. Len(s.coverage)
  BY <1>1, <1>2 DEF ProperScenario
<1>4. RustAdded(s, i, a)
  BY <1>1 DEF FoldInv
<1>5. /\ Folded(s, i + 1, x) = Folded(s, i, x) \union {i + 1} /\ i + 1 \notin Folded(s, i, x)
      /\ \A n : n # x => Folded(s, i + 1, n) = Folded(s, i, n)
  BY <1>1, FoldedNext
<1>6. /\ DOMAIN b.counts = DOMAIN a.counts \union {x} /\ b.counts[x] = before + e.count
      /\ \A n \in DOMAIN a.counts : n # x => b.counts[n] = a.counts[n]
      /\ b.counts = [n \in DOMAIN b.counts |-> b.counts[n]]
  <2>1. b.counts = With(a.counts, x, before + e.count)
    BY <1>2
  <2> DEFINE total == before + e.count
  <2> HIDE DEF total
  <2>2. b.counts = With(a.counts, x, total)
    BY <2>1 DEF total
  <2>3. /\ DOMAIN b.counts = DOMAIN a.counts \union {x} /\ b.counts[x] = total
        /\ \A n \in DOMAIN a.counts : n # x => b.counts[n] = a.counts[n]
        /\ b.counts = [n \in DOMAIN b.counts |-> b.counts[n]]
    BY ONLY <2>2 DEF With
  <2> QED BY <2>3 DEF total
<1>7. \A n : n \in DOMAIN b.counts <=> n # NoNode /\ Folded(s, b.i, n) # {}
  BY <1>1, <1>2, <1>5, <1>6 DEF FoldInv
<1>8. b.counts[x] = Cardinality(EntryCalls(s, Folded(s, i + 1, x)))
  <2> DEFINE n == Len(s.coverage)
             S == Folded(s, i, x)
  <2>1. n \in Nat /\ i + 1 \in 1 .. n /\ \A k \in 1 .. n : s.coverage[k].count \in Nat
    BY <1>1 DEF ProperScenario, ProperEntry
  <2>2. S \in SUBSET (1 .. n)
    BY <1>1, <2>1 DEF Folded
  <2>3. Cardinality(EntryCalls(s, S \union {i + 1})) = Cardinality(EntryCalls(s, S)) + s.coverage[i + 1].count
    <3>1. i + 1 \in (1 .. n) \ S
      BY <1>5, <2>1
    <3> HIDE DEF n, S
    <3> QED BY <2>1, <2>2, <3>1, OneMoreEntry
  <2>4. before = Cardinality(EntryCalls(s, S))
    <3>1. CASE x \in DOMAIN a.counts
      BY <1>4, <3>1 DEF RustAdded
    <3>2. CASE x \notin DOMAIN a.counts
      <4>1. S = {}
        BY <1>1, <3>2 DEF FoldInv
      <4>2. EntryCalls(s, {}) = {}
        BY DEF EntryCalls
      <4> QED BY <3>2, <4>1, <4>2, FS_EmptySet
    <3> QED BY <3>1, <3>2
  <2> HIDE DEF S
  <2> QED BY <1>1, <1>5, <1>6, <2>3, <2>4 DEF S
<1>9. RustAdded(s, b.i, b)
  <2>1. ASSUME NEW n \in DOMAIN b.counts
        PROVE  b.counts[n] = Cardinality(EntryCalls(s, Folded(s, i + 1, n)))
    BY <1>4, <1>5, <1>6, <1>8 DEF RustAdded
  <2> QED BY <1>2, <2>1 DEF RustAdded
<1>10. b.lines = [n \in DOMAIN b.lines |-> b.lines[n]] /\ s.lang # "go"
  BY <1>1, <1>2 DEF FoldInv
<1>11. Working(s) /\ StepsDone(s) /\ b.built = ResolvePackage(s.script, s.manifest) /\ s.lang \in {"go", "rust"}
  BY <1>1, <1>2 DEF FoldInv
<1>12. b = [status |-> "fold", built |-> b.built, i |-> b.i, counts |-> b.counts, lines |-> b.lines]
  BY <1>2
<1>13. b.counts = [n \in DOMAIN b.counts |-> b.counts[n]]
  BY <1>6
<1> QED BY <1>3, <1>7, <1>9, <1>10, <1>11, <1>12, <1>13 DEF FoldInv

LEMMA FoldStands == ASSUME NEW s, NEW a, FoldInv(s, a) PROVE a.status = "fold"
BY DEF FoldInv

LEMMA FoldMoves ==
  ASSUME ColdInv, KeepBlock \/ PassBlock \/ AddFunction \/ PassFunction
  PROVE  answer'.status = "fold" /\ FoldInv(asked, answer')
<1> DEFINE e == NextEntry
           i == answer.i
<1>1. More /\ asked.lang \in {"go", "rust"}
  BY DEF KeepBlock, PassBlock, AddFunction, PassFunction
<1>2. /\ AtEntry(asked, answer, i, e)
      /\ asked.lang = "go" => BlockNode = e.of
      /\ asked.lang = "rust" /\ e.regions # {} => FunctionNode = e.of
  BY <1>1, EntryTurn
<1>3. FoldInv(asked, answer) /\ DOMAIN answer = {"status", "built", "i", "counts", "lines"}
  BY <1>2 DEF AtEntry, FoldInv
<1> HIDE DEF e, i
<1>4. CASE KeepBlock
  <2>1. /\ asked.lang = "go" /\ e.of # NoNode /\ (e.of \in DOMAIN answer.lines => e.line < answer.lines[e.of])
        /\ answer' = [answer EXCEPT !.i = i + 1, !.lines = With(answer.lines, e.of, e.line),
                                    !.counts = With(answer.counts, e.of, e.count)]
    BY <1>2, <1>3, <1>4 DEF KeepBlock, BlockCounts, GoReplaces, e, i
  <2>2. FoldInv(asked, answer')
    BY <1>2, <2>1, BlockKept
  <2> QED BY <2>2, FoldStands
<1>5. CASE PassBlock
  <2>1. /\ asked.lang = "go" /\ (e.of = NoNode \/ (e.of \in DOMAIN answer.lines /\ ~(e.line < answer.lines[e.of])))
        /\ answer' = [answer EXCEPT !.i = i + 1]
    BY <1>2, <1>3, <1>5 DEF PassBlock, BlockCounts, GoReplaces, e, i
  <2>2. FoldInv(asked, answer')
    BY <1>2, <2>1, Passed
  <2> QED BY <2>2, FoldStands
<1>6. CASE AddFunction
  <2> DEFINE before == IF e.of \in DOMAIN answer.counts THEN answer.counts[e.of] ELSE 0
  <2>1. /\ asked.lang = "rust" /\ e.of # NoNode /\ Counted(asked, e)
        /\ answer' = [answer EXCEPT !.i = i + 1, !.counts = With(answer.counts, e.of, before + e.count)]
    BY <1>2, <1>3, <1>6 DEF AddFunction, FunctionCounts, Counted, e, i
  <2> HIDE DEF before
  <2>2. FoldInv(asked, answer')
    BY <1>2, <2>1, FunctionAdded DEF before
  <2> QED BY <2>2, FoldStands
<1>7. CASE PassFunction
  <2>1. /\ asked.lang = "rust" /\ (e.of = NoNode \/ ~Counted(asked, e))
        /\ answer' = [answer EXCEPT !.i = i + 1]
    BY <1>2, <1>3, <1>7 DEF PassFunction, FunctionCounts, Counted, e, i
  <2>2. FoldInv(asked, answer')
    BY <1>2, <2>1, Passed
  <2> QED BY <2>2, FoldStands
<1> QED BY <1>4, <1>5, <1>6, <1>7

(* At the end of the coverage the fold has the calls of every node.          *)
LEMMA FoldEnds ==
  ASSUME NEW s, ProperScenario(s), NEW a, FoldInv(s, a), a.i = Len(s.coverage)
  PROVE  /\ DOMAIN a.counts = DOMAIN s.calls
         /\ \A n \in DOMAIN a.counts : a.counts[n] \in Nat /\ a.counts[n] = CallsOf(s, n)
<1>1. /\ Len(s.coverage) \in Nat /\ DOMAIN s.coverage = 1 .. Len(s.coverage) /\ CallsAreCounted(s)
      /\ \A i \in DOMAIN s.coverage : ProperEntry(s, s.coverage[i])
  BY DEF ProperScenario, FoldInv
<1>2. \A n : Folded(s, a.i, n) = EntriesOf(s, n)
  BY <1>1 DEF Folded, EntriesOf
<1>3. \A n : n \in DOMAIN a.counts <=> n # NoNode /\ EntriesOf(s, n) # {}
  BY <1>2 DEF FoldInv
<1>4. DOMAIN a.counts = DOMAIN s.calls
  <2>1. \A n : EntriesOf(s, n) # {} => n \in {s.coverage[i].of : i \in DOMAIN s.coverage}
    BY DEF EntriesOf
  <2>2. \A n : n \in DOMAIN s.calls <=> n # NoNode /\ EntriesOf(s, n) # {}
    BY <1>1, <2>1 DEF CallsAreCounted
  <2> QED BY <1>3, <2>2
<1>5. ASSUME NEW n \in DOMAIN a.counts, s.lang = "go"
      PROVE  a.counts[n] \in Nat /\ a.counts[n] = CallsOf(s, n)
  <2>1. PICK k \in EntriesOf(s, n) : a.counts[n] = s.coverage[k].count
                                     /\ \A c \in EntriesOf(s, n) : ComesFirst(s, k, c)
    BY <1>2, <1>5 DEF FoldInv, GoKept
  <2>2. PICK i \in EntriesOf(s, n) : s.coverage[i].count = CallsOf(s, n)
                                     /\ \A c \in EntriesOf(s, n) : ComesFirst(s, i, c)
    BY <1>1, <1>4, <1>5 DEF CallsAreCounted
  <2>3. /\ i \in Nat /\ k \in Nat /\ s.coverage[i].line \in Nat /\ s.coverage[k].line \in Nat
        /\ s.coverage[k].count \in Nat
    BY <1>1, <1>5 DEF EntriesOf, ProperEntry
  <2>4. i = k
    <3>1. ComesFirst(s, i, k) /\ ComesFirst(s, k, i)
      BY <2>1, <2>2
    <3> QED BY <2>3, <3>1 DEF ComesFirst
  <2> QED BY <2>1, <2>2, <2>3, <2>4
<1>6. ASSUME NEW n \in DOMAIN a.counts, s.lang = "rust"
      PROVE  a.counts[n] \in Nat /\ a.counts[n] = CallsOf(s, n)
  <2> DEFINE S == EntriesOf(s, n)
             last == Len(s.coverage)
  <2>1. a.counts[n] = Cardinality(EntryCalls(s, S))
    BY <1>2, <1>6 DEF FoldInv, RustAdded
  <2>2. s.calls[n] = Cardinality(EntryCalls(s, S))
    BY <1>1, <1>4, <1>6 DEF CallsAreCounted
  <2>3. s.ended = "flushed"
    BY <1>6 DEF FoldInv, StepsDone
  <2>4. Cardinality(EntryCalls(s, S)) \in Nat
    <3>1. S \in SUBSET (1 .. last) /\ last \in Nat /\ \A i \in 1 .. last : s.coverage[i].count \in Nat
      BY <1>1 DEF EntriesOf, ProperEntry
    <3> HIDE DEF S, last
    <3> QED BY <3>1, OneMoreEntry
  <2> QED BY <2>1, <2>2, <2>3, <2>4 DEF CallsOf
<1> QED BY <1>4, <1>5, <1>6 DEF FoldInv

LEMMA FoldAnswered ==
  ASSUME ColdInv, Emit \/ CapExceeded
  PROVE  answer'.status # "fold" /\ ColdAnswer(asked, answer')
<1> DEFINE s == asked
           ran == {n \in DOMAIN s.calls : CallsOf(s, n) > 0}
<1>1. ProperScenario(s) /\ FoldInv(s, answer) /\ answer.i = Len(s.coverage)
  BY ScenariosAreProper DEF ColdInv, Emit, CapExceeded, Folding
<1>2. /\ DOMAIN answer.counts = DOMAIN s.calls
      /\ \A n \in DOMAIN answer.counts : answer.counts[n] \in Nat /\ answer.counts[n] = CallsOf(s, n)
  BY <1>1, FoldEnds
<1>3. Hit = ran
  BY <1>2 DEF Hit
<1>4. Working(s) /\ StepsDone(s) /\ answer.built = ResolvePackage(s.script, s.manifest)
  BY <1>1 DEF FoldInv
<1>5. Cardinality(ran) \in Nat
  <2> DEFINE f == [i \in DOMAIN s.coverage |-> s.coverage[i].of]
             owners == {s.coverage[i].of : i \in DOMAIN s.coverage}
  <2>1. DOMAIN s.coverage = 1 .. Len(s.coverage) /\ Len(s.coverage) \in Nat
    BY <1>1 DEF ProperScenario
  <2>2. IsFiniteSet(DOMAIN s.coverage)
    BY <2>1, FS_Interval
  <2>3. f \in Surjection(DOMAIN s.coverage, owners)
    BY DEF Surjection
  <2>4. IsFiniteSet(owners)
    BY <2>2, <2>3, FS_Surjection
  <2>5. ran \in SUBSET owners
    BY <1>1 DEF ProperScenario, CallsAreCounted, FoldInv
  <2> QED BY <2>4, <2>5, FS_Subset, FS_CardinalityType
<1>6. s.cap # Nothing => s.cap \in Nat
  BY <1>1 DEF ProperScenario
<1> HIDE DEF ran
<1>7. CASE Emit
  <2> DEFINE emitted == [n \in Hit |-> answer.counts[n]]
  <2>1. answer' = [status |-> "traced", built |-> answer.built, events |-> emitted] /\ ~OverCap
    BY <1>7 DEF Emit
  <2>2. emitted = [n \in ran |-> CallsOf(s, n)]
    BY <1>2, <1>3 DEF Hit
  <2>3. s.cap # Nothing => Cardinality(ran) <= s.cap
    BY <1>3, <1>5, <1>6, <2>1 DEF OverCap
  <2> HIDE DEF emitted
  <2>4. answer'.status = "traced" /\ answer'.built = answer.built /\ answer'.events = emitted
    BY ONLY <2>1
  <2> QED BY <1>4, <2>2, <2>3, <2>4 DEF ColdAnswer, GateWords, ran
<1>8. CASE CapExceeded
  <2>1. answer'.status = "capped" /\ answer'.built = answer.built /\ OverCap
    BY <1>8 DEF CapExceeded
  <2>2. s.cap # Nothing /\ Cardinality(ran) > s.cap
    BY <1>3, <2>1 DEF OverCap
  <2> QED BY <1>4, <2>1, <2>2 DEF ColdAnswer, GateWords, ran
<1> QED BY <1>7, <1>8

(* A trace that stops before there is coverage says what is missing.         *)
LEMMA StopAnswered ==
  ASSUME ColdInv, RefuseCold \/ DeferToNode \/ FailCold
  PROVE  answer'.status # "fold" /\ ColdAnswer(asked, answer')
<1> DEFINE s == asked
<1>1. ProperScenario(s)
  BY ScenariosAreProper DEF ColdInv
<1>2. Opens(s, Gate(s))
  BY <1>1, GateOpens
<1>3. CASE RefuseCold
  <2>1. answer'.status = Gate(s) /\ Gate(s) # "open"
    BY <1>3 DEF RefuseCold, Asked, Answer, Stopped
  <2>2. Gate(s) \in GateWords /\ ~Working(s)
    BY <1>2, <2>1 DEF Opens
  <2> QED BY <2>1, <2>2 DEF ColdAnswer, GateWords
<1>4. CASE DeferToNode
  <2>1. answer'.status = "open" /\ Gate(s) = "open"
    BY <1>4 DEF DeferToNode, Asked, Answer, Stopped
  <2>2. Working(s)
    BY <1>2, <2>1 DEF Opens
  <2> QED BY <2>1, <2>2 DEF ColdAnswer, GateWords
<1>5. CASE FailCold
  <2>1. answer'.status = Failure(s) /\ Failure(s) # "none" /\ Gate(s) = "open" /\ s.lang # "node"
    BY <1>5 DEF FailCold, MayBuild, Asked, Answer, Stopped
  <2>2. Working(s)
    BY <1>2, <2>1 DEF Opens
  <2>3. Failure(s) \in FailureWords
    BY <1>1, <2>1, GoSteps, RustSteps DEF Failure, ProperScenario
  <2> QED BY <2>1, <2>2, <2>3 DEF ColdAnswer, GateWords, FailureWords
<1> QED BY <1>3, <1>4, <1>5

LEMMA ColdStep == ASSUME ColdInv, [TraceCold]_questionVars PROVE ColdInv'
<1>1. CASE RefuseCold \/ DeferToNode \/ FailCold
  <2>1. asked' = asked
    BY <1>1 DEF RefuseCold, DeferToNode, FailCold, Answer
  <2> QED BY <1>1, <2>1, StopAnswered DEF ColdInv
<1>2. CASE BeginFold
  <2>1. asked' = asked
    BY <1>2 DEF BeginFold, Answer
  <2>2. FoldInv(asked, answer')
    BY <1>2, FoldBegins
  <2> QED BY <2>1, <2>2, FoldStands DEF ColdInv
<1>3. CASE KeepBlock \/ PassBlock \/ AddFunction \/ PassFunction
  <2>1. asked' = asked
    BY <1>3 DEF KeepBlock, PassBlock, AddFunction, PassFunction
  <2> QED BY <1>3, <2>1, FoldMoves DEF ColdInv
<1>4. CASE Emit \/ CapExceeded
  <2>1. asked' = asked
    BY <1>4 DEF Emit, CapExceeded
  <2> QED BY <1>4, <2>1, FoldAnswered DEF ColdInv
<1>5. CASE UNCHANGED questionVars
  BY <1>5 DEF questionVars, ColdInv
<1> QED BY <1>1, <1>2, <1>3, <1>4, <1>5 DEF TraceCold

LEMMA ColdInvariant == ColdSpec => []ColdInv
<1>1. ASSUME AnyScenario PROVE ColdInv
  BY <1>1 DEF AnyScenario, ColdInv
<1> QED BY <1>1, ColdStep, PTL DEF ColdSpec

(* A coverage trace is delivered only when the toolchain, every step and the *)
(* one binary of the script's package were there, and then it has exactly    *)
(* one event per executed function with the number of its calls; a refusal   *)
(* names what is missing.                                                     *)
THEOREM ColdTracesAreExact == ColdSpec => []ColdTraceIsExact
<1>1. ASSUME ColdInv PROVE ColdTraceIsExact
  <2> DEFINE s == asked
             ran == {n \in DOMAIN s.calls : CallsOf(s, n) > 0}
  <2>1. SUFFICES ASSUME Answered("cold") PROVE
          /\ answer.status \in GateWords <=> ~Working(s)
          /\ answer.status # "unknown reason"
          /\ answer.status \in {"traced", "capped"} =>
               /\ s.build = "ok" /\ s.run # "raised" /\ s.export = "ok" /\ s.ended # "killed"
               /\ s.lang = "rust" =>
                    /\ s.merge = "ok" /\ s.ended = "flushed"
                    /\ Home(s, answer.built) /\ answer.built # "none"
                    /\ \E i \in DOMAIN s.messages : s.messages[i].bin /\ s.messages[i].source = s.script
          /\ answer.status = "capped" => s.cap # Nothing /\ Cardinality(ran) > s.cap
          /\ answer.status = "traced" =>
               /\ s.cap # Nothing => Cardinality(ran) <= s.cap
               /\ answer.events = [n \in ran |-> CallsOf(s, n)]
    BY DEF ColdTraceIsExact
  <2>2. ProperScenario(s) /\ answer # Nothing
    BY <1>1, <2>1, ScenariosAreProper DEF ColdInv, Answered
  <2>3. CASE answer.status = "fold"
    <3>1. Working(s)
      BY <1>1, <2>2, <2>3 DEF ColdInv, FoldInv
    <3> QED BY <2>3, <3>1 DEF GateWords
  <2>4. CASE answer.status # "fold"
    <3>1. ColdAnswer(s, answer)
      BY <1>1, <2>2, <2>4 DEF ColdInv
    <3>2. answer.status \in {"traced", "capped"} => Home(s, answer.built)
      BY <2>2, <3>1, BuiltIsHome DEF ColdAnswer
    <3>3. /\ answer.status \in GateWords <=> ~Working(s)
          /\ answer.status # "unknown reason"
          /\ answer.status \in {"traced", "capped"} =>
               StepsDone(s) /\ answer.built = ResolvePackage(s.script, s.manifest)
          /\ answer.status = "capped" => s.cap # Nothing /\ Cardinality(ran) > s.cap
          /\ answer.status = "traced" => /\ s.cap # Nothing => Cardinality(ran) <= s.cap
                                         /\ answer.events = [n \in ran |-> CallsOf(s, n)]
      BY <3>1 DEF ColdAnswer
    <3>4. answer.status \in {"traced", "capped"} =>
               /\ s.build = "ok" /\ s.run # "raised" /\ s.export = "ok" /\ s.ended # "killed"
               /\ s.lang = "rust" =>
                    /\ s.merge = "ok" /\ s.ended = "flushed"
                    /\ Home(s, answer.built) /\ answer.built # "none"
                    /\ \E i \in DOMAIN s.messages : s.messages[i].bin /\ s.messages[i].source = s.script
      BY <3>2, <3>3 DEF StepsDone
    <3> HIDE DEF ran
    <3> QED BY <3>3, <3>4
  <2> QED BY <2>3, <2>4
<1> QED BY <1>1, ColdInvariant, PTL
=============================================================================
