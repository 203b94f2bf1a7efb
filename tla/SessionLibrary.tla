--------------------------- MODULE SessionLibrary ----------------------------
(***************************************************************************)
(* Live sessions recorded by `grackle serve --store` and loaded back:      *)
(* RecordingSink and its use in _receive_loop, SessionStore, the sweep at  *)
(* startup, load_stored_session and the per-server map of seekable         *)
(* sessions.                                                               *)
(*                                                                         *)
(* A recording is a file with an identity of its own, whatever name it     *)
(* has: part[s] is the file named <s>.jsonl.part, final[s] the one named   *)
(* <s>.jsonl.  lines[f] counts its whole lines (JsonlPartWriter.count,     *)
(* TraceOutput has the bytes), torn[f] says that a failed write left more. *)
(* Session ids come from producers, so one may be used again.              *)
(*                                                                         *)
(* published and orphans are history variables: the files that were ever   *)
(* renamed to a session's name, and those whose recorder ended without     *)
(* freeing the .part.                                                      *)
(***************************************************************************)
EXTENDS Naturals, FiniteSets

CONSTANTS
  Conns,      \* producer connections
  Viewers,    \* clients that load stored sessions
  Sids,
  MaxFiles,   \* bound: recordings opened
  MaxEvents,  \* bound: events of one recording
  None

Recordings == 1 .. MaxFiles

ASSUME LibraryAssumption ==
  /\ MaxFiles \in Nat /\ MaxEvents \in Nat
  /\ None \notin Sids \cup Recordings

VARIABLES
  up,                    \* the server runs
  pc, sid, file, broken, \* each connection's receive loop and recorder
  opened,                \* recordings opened so far
  part, final, lines, torn,  \* <store_dir>/recordings
  row,                   \* the event_count the store has for each session
  seekable,              \* the file each seekable session was built from
  loading, index, told,  \* each viewer's load, and the total it was told
  published, orphans

recorder == <<pc, sid, file, broken, opened>>
files == <<part, final, lines, torn, published, orphans>>
loads == <<seekable, loading, index, told>>
vars == <<up, pc, sid, file, broken, opened, part, final, lines, torn, row,
          seekable, loading, index, told, published, orphans>>

Init ==
  /\ up = TRUE
  /\ pc = [c \in Conns |-> "free"]
  /\ sid = [c \in Conns |-> None]
  /\ file = [c \in Conns |-> None]
  /\ broken = [c \in Conns |-> FALSE]
  /\ opened = 0
  /\ part = [s \in Sids |-> None] /\ final = [s \in Sids |-> None]
  /\ lines = [f \in Recordings |-> 0] /\ torn = [f \in Recordings |-> FALSE]
  /\ row = [s \in Sids |-> None]
  /\ seekable = [s \in Sids |-> None]
  /\ loading = [v \in Viewers |-> None]
  /\ index = [v \in Viewers |-> None]
  /\ told = [v \in Viewers |-> None]
  /\ published = [s \in Sids |-> {}]
  /\ orphans = {}
-----------------------------------------------------------------------------
(* Recording.                                                              *)

\* trace_session_start on a connection that has no recorder.
StartSession(c, s) ==
  /\ up /\ pc[c] = "free"
  /\ pc' = [pc EXCEPT ![c] = "opening"]
  /\ sid' = [sid EXCEPT ![c] = s]
  /\ UNCHANGED <<up, file, broken, opened, files, row, loads>>

\* Mutant: the .part is opened whoever has it open.
OpenShared(c) ==
  /\ pc[c] = "opening"
  /\ opened < MaxFiles
  /\ pc' = [pc EXCEPT ![c] = "recording"]
  /\ opened' = opened + 1
  /\ file' = [file EXCEPT ![c] = opened + 1]
  /\ broken' = [broken EXCEPT ![c] = FALSE]
  /\ part' = [part EXCEPT ![sid[c]] = opened + 1]
  /\ UNCHANGED <<up, sid, final, lines, torn, published, orphans, row, loads>>

\* RecordingSink opens <sid>.jsonl.part for exclusive creation.
Open(c) ==
  /\ pc[c] = "opening"
  /\ part[sid[c]] = None
  /\ opened < MaxFiles
  /\ pc' = [pc EXCEPT ![c] = "recording"]
  /\ opened' = opened + 1
  /\ file' = [file EXCEPT ![c] = opened + 1]
  /\ broken' = [broken EXCEPT ![c] = FALSE]
  /\ part' = [part EXCEPT ![sid[c]] = opened + 1]
  /\ UNCHANGED <<up, sid, final, lines, torn, published, orphans, row, loads>>

\* FileExistsError, or another OSError: this session is not recorded.
Skip(c) ==
  /\ pc[c] = "opening"
  /\ pc' = [pc EXCEPT ![c] = "free"]
  /\ UNCHANGED <<up, sid, file, broken, opened, files, row, loads>>

Write(c) ==
  /\ pc[c] = "recording" /\ ~broken[c]
  /\ lines[file[c]] < MaxEvents
  /\ lines' = [lines EXCEPT ![file[c]] = @ + 1]
  /\ UNCHANGED <<up, recorder, part, final, torn, published, orphans, row, loads>>

\* The first failure ends the writing, not the fan-out; what is there of the
\* event is cut off later.
WriteFails(c) ==
  /\ pc[c] = "recording" /\ ~broken[c]
  /\ broken' = [broken EXCEPT ![c] = TRUE]
  /\ torn' = [torn EXCEPT ![file[c]] = TRUE]
  /\ UNCHANGED <<up, pc, sid, file, opened, part, final, lines, published,
                 orphans, row, loads>>

\* trace_session_end, a disconnect or shutdown; or the start of session s on
\* a connection whose last session never ended, which is finalized first.
Then(c, s) ==
  /\ sid' = [sid EXCEPT ![c] = s]
  /\ pc' = [pc EXCEPT ![c] = IF s = None THEN "free" ELSE "opening"]

\* _discard(): the .part goes, or cannot be removed and stays in the way.
Discard(c, s) ==
  /\ pc[c] = "recording"
  /\ Then(c, s)
  /\ \/ part' = [part EXCEPT ![sid[c]] = None] /\ UNCHANGED orphans
     \/ orphans' = orphans \cup {file[c]} /\ UNCHANGED part
  /\ UNCHANGED <<up, file, broken, opened, final, lines, torn, published, row,
                 loads>>

\* No events: nothing to load.
DiscardEmpty(c, s) == pc[c] = "recording" /\ lines[file[c]] = 0 /\ Discard(c, s)

\* Truncate, close or rename failed.
FinalizeFails(c, s) == pc[c] = "recording" /\ lines[file[c]] > 0 /\ Discard(c, s)

\* Mutant: a broken writer's tail is not cut.
FinalizeTorn(c) ==
  /\ pc[c] = "recording" /\ lines[file[c]] > 0
  /\ pc' = [pc EXCEPT ![c] = "saving"]
  /\ final' = [final EXCEPT ![sid[c]] = file[c]]
  /\ part' = [part EXCEPT ![sid[c]] = None]
  /\ published' = [published EXCEPT ![sid[c]] = @ \cup {file[c]}]
  /\ UNCHANGED <<up, sid, file, broken, opened, lines, torn, orphans, row, loads>>

\* finalize() up to its only await.
Finalize(c) ==
  /\ pc[c] = "recording" /\ lines[file[c]] > 0
  /\ pc' = [pc EXCEPT ![c] = "saving"]
  /\ final' = [final EXCEPT ![sid[c]] = part[sid[c]]]
  /\ torn' = [torn EXCEPT ![file[c]] = FALSE]
  /\ part' = [part EXCEPT ![sid[c]] = None]
  /\ published' = [published EXCEPT ![sid[c]] = @ \cup {file[c]}]
  /\ UNCHANGED <<up, sid, file, broken, opened, lines, orphans, row, loads>>

\* save_session in an executor thread: insert or replace.
Save(c, s) ==
  /\ pc[c] = "saving"
  /\ row' = [row EXCEPT ![sid[c]] = lines[file[c]]]
  /\ Then(c, s)
  /\ UNCHANGED <<up, file, broken, opened, files, loads>>

\* The file stays, unregistered.
SaveFails(c, s) ==
  /\ pc[c] = "saving"
  /\ Then(c, s)
  /\ UNCHANGED <<up, file, broken, opened, files, row, loads>>
-----------------------------------------------------------------------------
(* Loading.                                                                *)

\* session_load_request for a session that is in the store and on disk.
Load(v, s) ==
  /\ up /\ loading[v] = None
  /\ row[s] # None /\ final[s] # None
  /\ IF seekable[s] # None
       THEN /\ told' = [told EXCEPT ![v] = [sid |-> s, total |-> lines[seekable[s]]]]
            /\ UNCHANGED loading
       ELSE /\ loading' = [loading EXCEPT ![v] = s]
            /\ UNCHANGED told
  /\ UNCHANGED <<up, recorder, files, row, seekable, index>>

\* Mutant: the index may be built from a recording that is still going on.
BuildFromPart(v) ==
  /\ loading[v] # None /\ index[v] = None
  /\ index' = [index EXCEPT ![v] =
       IF part[loading[v]] # None THEN part[loading[v]] ELSE final[loading[v]]]
  /\ UNCHANGED <<up, recorder, files, row, seekable, loading, told>>

\* build_seekable, in an executor thread, reads what has the name by then.
Build(v) ==
  /\ loading[v] # None /\ index[v] = None
  /\ index' = [index EXCEPT ![v] = final[loading[v]]]
  /\ UNCHANGED <<up, recorder, files, row, seekable, loading, told>>

\* Back on the event loop: registered, and replayed as a seekable session.
Register(v) ==
  /\ index[v] # None
  /\ seekable' = [seekable EXCEPT ![loading[v]] = index[v]]
  /\ told' = [told EXCEPT ![v] = [sid |-> loading[v], total |-> lines[index[v]]]]
  /\ loading' = [loading EXCEPT ![v] = None]
  /\ index' = [index EXCEPT ![v] = None]
  /\ UNCHANGED <<up, recorder, files, row>>
-----------------------------------------------------------------------------
\* SIGKILL: the files and the store stay.
Kill ==
  /\ up /\ up' = FALSE
  /\ orphans' = orphans \cup {part[s] : s \in {t \in Sids : part[t] # None}}
  /\ pc' = [c \in Conns |-> "free"]
  /\ sid' = [c \in Conns |-> None]
  /\ file' = [c \in Conns |-> None]
  /\ broken' = [c \in Conns |-> FALSE]
  /\ seekable' = [s \in Sids |-> None]
  /\ loading' = [v \in Viewers |-> None]
  /\ index' = [v \in Viewers |-> None]
  /\ told' = [v \in Viewers |-> None]
  /\ UNCHANGED <<opened, part, final, lines, torn, published, row>>

\* The sweep removes the .part files that are old enough; one that is not
\* stays until the next start.
Restart ==
  /\ ~up /\ up' = TRUE
  /\ \E old \in SUBSET Sids :
       part' = [s \in Sids |-> IF s \in old THEN None ELSE part[s]]
  /\ UNCHANGED <<recorder, final, lines, torn, published, orphans, row, loads>>

Producer(c) ==
  \/ \E s \in Sids : StartSession(c, s)
  \/ Open(c) \/ Skip(c) \/ Write(c) \/ WriteFails(c) \/ Finalize(c)
  \/ \E s \in Sids \cup {None} :
       DiscardEmpty(c, s) \/ FinalizeFails(c, s) \/ Save(c, s) \/ SaveFails(c, s)

Viewer(v) == (\E s \in Sids : Load(v, s)) \/ Build(v) \/ Register(v)

Next ==
  \/ \E c \in Conns : Producer(c)
  \/ \E v \in Viewers : Viewer(v)
  \/ Kill \/ Restart

Spec == Init /\ [][Next]_vars
-----------------------------------------------------------------------------
\* Every variable stays in its range, and nobody loads or records while the
\* server is down.
TypeOK ==
  /\ up \in BOOLEAN
  /\ pc \in [Conns -> {"free", "opening", "recording", "saving"}]
  /\ sid \in [Conns -> Sids \cup {None}]
  /\ file \in [Conns -> Recordings \cup {None}]
  /\ broken \in [Conns -> BOOLEAN]
  /\ opened \in 0 .. MaxFiles
  /\ part \in [Sids -> Recordings \cup {None}]
  /\ final \in [Sids -> Recordings \cup {None}]
  /\ lines \in [Recordings -> 0 .. MaxEvents] /\ torn \in [Recordings -> BOOLEAN]
  /\ row \in [Sids -> (1 .. MaxEvents) \cup {None}]
  /\ seekable \in [Sids -> Recordings \cup {None}]
  /\ loading \in [Viewers -> Sids \cup {None}]
  /\ index \in [Viewers -> Recordings \cup {None}]
  /\ told \in [Viewers -> [sid : Sids, total : 1 .. MaxEvents] \cup {None}]
  /\ published \in [Sids -> SUBSET Recordings] /\ orphans \subseteq Recordings
  /\ ~up => \A c \in Conns : pc[c] = "free"

\* No two recorders share a file, none loses its .part, and a .part that no
\* recorder writes is one whose recorder was killed or could not remove it.
PartHasOwner ==
  /\ \A c \in Conns : pc[c] = "recording" => part[sid[c]] = file[c]
  /\ \A s \in Sids : part[s] # None =>
       \/ part[s] \in orphans
       \/ \E c \in Conns : pc[c] = "recording" /\ sid[c] = s

\* A file of the library is loadable: it has events, no torn line, and nobody
\* writes to it any more. A listed session has its file, and, unless its id
\* was recorded twice, with the number of events that is listed.
LibraryIsComplete ==
  \A s \in Sids :
    /\ final[s] # None =>
         /\ lines[final[s]] > 0 /\ ~torn[final[s]]
         /\ \A c \in Conns : pc[c] = "recording" => file[c] # final[s]
    /\ row[s] # None =>
         /\ final[s] # None
         /\ Cardinality(published[s]) = 1 => row[s] = lines[final[s]]

\* Unless an id was recorded twice, all viewers of a session seek in an index
\* of the file that has its name now, with the total they were told.
SeekableIsCurrent ==
  \A s \in Sids : seekable[s] # None /\ Cardinality(published[s]) = 1 =>
    /\ seekable[s] = final[s]
    /\ \A v \in Viewers :
         told[v] # None /\ told[v].sid = s => told[v].total = lines[final[s]]
=============================================================================
