----------------------------- MODULE ParseCache ------------------------------
(***************************************************************************)
(* The content-hash cache of parsed files (cache.py) as the walkers and    *)
(* the watch loop use it.  Workers are processes, or threads of one, that  *)
(* share <root>/.grackle/cache: each parses one file after another through *)
(* get(), parse and set(), or evicts a changed file.  Files are edited and  *)
(* deleted under them, and a worker may be killed at any step.             *)
(*                                                                         *)
(* A content stands for its SHA-256 too; a partial graph is the pair of    *)
(* the file and the content it was parsed from, because node ids begin     *)
(* with the path.  manifest and sidecar are the files of the cache; each   *)
(* is replaced atomically.                                                 *)
(*                                                                         *)
(* stored and seen are history variables: what the last completed set() or *)
(* evict() of each file left, and the contents a worker's file has had      *)
(* since the worker began with it.                                         *)
(***************************************************************************)
EXTENDS Naturals

CONSTANTS Files, Contents, Workers, None

ASSUME CacheAssumption == None \notin Contents \cup Workers \cup Files

VARIABLES
  content,   \* each file of the project; None if there is no such file
  manifest,  \* the hash each file has an entry for
  sidecar,   \* <hash>.json
  lock,      \* in-process lock and flock, together
  pc, file,
  hash,      \* content_hash of the call a worker is in
  copy,      \* the manifest in the memory of the lock's holder
  result,    \* the partial graph a worker has of its file
  stored, seen

disk == <<manifest, sidecar>>
local == <<file, hash, copy, result>>
vars == <<content, manifest, sidecar, lock, pc, file, hash, copy, result,
          stored, seen>>

Partials == [file : Files, content : Contents]
Entries == [Files -> Contents \cup {None}]
NoEntries == [f \in Files |-> None]

Init ==
  /\ content \in [Files -> Contents]
  /\ manifest = NoEntries
  /\ sidecar = [h \in Contents |-> None]
  /\ lock = None
  /\ pc = [w \in Workers |-> "idle"]
  /\ file = [w \in Workers |-> None]
  /\ hash = [w \in Workers |-> None]
  /\ copy = [w \in Workers |-> NoEntries]
  /\ result = [w \in Workers |-> None]
  /\ stored = NoEntries
  /\ seen = [w \in Workers |-> {}]

Goto(w, from, to) == pc[w] = from /\ pc' = [pc EXCEPT ![w] = to]

\* The call is over and its locals are gone.
Return(w) ==
  /\ pc' = [pc EXCEPT ![w] = "idle"]
  /\ file' = [file EXCEPT ![w] = None]
  /\ hash' = [hash EXCEPT ![w] = None]
  /\ copy' = [copy EXCEPT ![w] = NoEntries]
  /\ result' = [result EXCEPT ![w] = None]
  /\ seen' = [seen EXCEPT ![w] = {}]

\* Mutant: only the lock of the worker's own process is taken.
AcquireOwn(w) == lock' = w

Acquire(w) == lock = None /\ lock' = w

Release == lock' = None

\* Any editor, at any time.
Edit(f) ==
  /\ \E c \in Contents \cup {None} :
       /\ c # content[f]
       /\ content' = [content EXCEPT ![f] = c]
       /\ seen' = [w \in Workers |->
            IF seen[w] # {} /\ file[w] = f /\ c # None THEN seen[w] \cup {c}
                                                     ELSE seen[w]]
  /\ UNCHANGED <<disk, lock, pc, local, stored>>
-----------------------------------------------------------------------------
(* get(), for one file of a walk.                                          *)

\* The hash is taken before the lock.  A file that vanished since it was
\* listed raises out of the walk.
GetHash(w, f) ==
  /\ content[f] # None
  /\ Goto(w, "idle", "lookup")
  /\ file' = [file EXCEPT ![w] = f]
  /\ hash' = [hash EXCEPT ![w] = content[f]]
  /\ seen' = [seen EXCEPT ![w] = {content[f]}]
  /\ UNCHANGED <<content, disk, lock, copy, result, stored>>

\* Mutant: an entry is taken for a hit whatever its hash is.
LookupAny(w) ==
  /\ lock = None
  /\ Goto(w, "lookup", IF manifest[file[w]] # None THEN "read" ELSE "parse")
  /\ hash' = [hash EXCEPT ![w] = IF manifest[file[w]] # None THEN manifest[file[w]] ELSE @]
  /\ UNCHANGED <<content, disk, lock, file, copy, result, stored, seen>>

\* The lock is held for one read of the manifest.
Lookup(w) ==
  /\ lock = None
  /\ Goto(w, "lookup", IF manifest[file[w]] = hash[w] THEN "read" ELSE "parse")
  /\ UNCHANGED <<content, disk, lock, local, stored, seen>>

\* The sidecar is read after the lock is released: it may be gone by now.
ReadSidecar(w) ==
  /\ Goto(w, "read", IF sidecar[hash[w]] = None THEN "parse" ELSE "done")
  /\ result' = [result EXCEPT ![w] = sidecar[hash[w]]]
  /\ UNCHANGED <<content, disk, lock, file, hash, copy, stored, seen>>

\* A miss: the file is read again and hashed from the bytes that are parsed.
Parse(w) ==
  /\ Goto(w, "parse", "set")
  /\ content[file[w]] # None
  /\ hash' = [hash EXCEPT ![w] = content[file[w]]]
  /\ result' = [result EXCEPT ![w] = [file |-> file[w], content |-> content[file[w]]]]
  /\ UNCHANGED <<content, disk, lock, file, copy, stored, seen>>

\* No bytes, or none that parse: a warning, and nothing is stored.
ParseFails(w) ==
  /\ pc[w] = "parse" /\ Return(w)
  /\ UNCHANGED <<content, disk, lock, stored>>

\* set(): sidecar first, manifest second, both under the lock.
SetSidecar(w) ==
  /\ Goto(w, "set", "setting")
  /\ Acquire(w)
  /\ sidecar' = [sidecar EXCEPT ![hash[w]] = result[w]]
  /\ UNCHANGED <<content, manifest, local, stored, seen>>

SetLoad(w) ==
  /\ Goto(w, "setting", "saving")
  /\ copy' = [copy EXCEPT ![w] = [manifest EXCEPT ![file[w]] = hash[w]]]
  /\ UNCHANGED <<content, disk, lock, file, hash, result, stored, seen>>

SetSave(w) ==
  /\ Goto(w, "saving", "done")
  /\ Release
  /\ manifest' = copy[w]
  /\ stored' = [stored EXCEPT ![file[w]] = hash[w]]
  /\ UNCHANGED <<content, sidecar, local, seen>>

\* The walker has added the partial to its graph.
NextFile(w) ==
  /\ pc[w] = "done" /\ Return(w)
  /\ UNCHANGED <<content, disk, lock, stored>>
-----------------------------------------------------------------------------
(* evict(), for a file the watcher reported.                               *)

EvictBegin(w, f) ==
  /\ Goto(w, "idle", "evict")
  /\ file' = [file EXCEPT ![w] = f]
  /\ UNCHANGED <<content, disk, lock, hash, copy, result, stored, seen>>

EvictLoad(w) ==
  /\ Goto(w, "evict", "evicting")
  /\ Acquire(w)
  /\ copy' = [copy EXCEPT ![w] = [manifest EXCEPT ![file[w]] = None]]
  /\ UNCHANGED <<content, disk, file, hash, result, stored, seen>>

\* The sidecar of the entry goes, whoever else has an entry for that hash.
EvictUnlink(w) ==
  /\ Goto(w, "evicting", "evicted")
  /\ sidecar' = [h \in Contents |-> IF h = manifest[file[w]] THEN None ELSE sidecar[h]]
  /\ UNCHANGED <<content, manifest, lock, local, stored, seen>>

EvictSave(w) ==
  /\ pc[w] = "evicted" /\ Return(w)
  /\ Release
  /\ manifest' = copy[w]
  /\ stored' = [stored EXCEPT ![file[w]] = None]
  /\ UNCHANGED <<content, sidecar>>

\* The kernel drops the flock of a killed process; another worker takes over.
Kill(w) ==
  /\ pc[w] # "idle" /\ Return(w)
  /\ lock' = IF lock = w THEN None ELSE lock
  /\ UNCHANGED <<content, disk, stored>>

Begin(w) == \E f \in Files : GetHash(w, f) \/ EvictBegin(w, f)

Continue(w) ==
  \/ Lookup(w) \/ ReadSidecar(w) \/ Parse(w) \/ ParseFails(w)
  \/ SetSidecar(w) \/ SetLoad(w) \/ SetSave(w) \/ NextFile(w)
  \/ EvictLoad(w) \/ EvictUnlink(w) \/ EvictSave(w)

Next ==
  \/ \E w \in Workers : Begin(w) \/ Continue(w) \/ Kill(w)
  \/ \E f \in Files : Edit(f)

Spec == Init /\ [][Next]_vars
-----------------------------------------------------------------------------
\* Every variable stays in its range, and the lock is held exactly by a worker
\* that is inside set() or evict(): a killed one leaves it to the others.
TypeOK ==
  /\ content \in Entries /\ manifest \in Entries /\ stored \in Entries
  /\ sidecar \in [Contents -> Partials \cup {None}]
  /\ pc \in [Workers -> {"idle", "lookup", "read", "parse", "set", "setting",
                         "saving", "done", "evict", "evicting", "evicted"}]
  /\ file \in [Workers -> Files \cup {None}] /\ hash \in [Workers -> Contents \cup {None}]
  /\ copy \in [Workers -> Entries] /\ result \in [Workers -> Partials \cup {None}]
  /\ seen \in [Workers -> SUBSET Contents]
  /\ \A w \in Workers :
       pc[w] \in {"setting", "saving", "evicting", "evicted"} <=> lock = w

\* What a walk takes for its file was parsed from a content the file had since
\* the walk came to it: neither an edit between hash and read nor another
\* worker's write can make a hit stale.
FreshContent ==
  \A w \in Workers : pc[w] = "done" => result[w].content \in seen[w]

\* A sidecar is named for the content it was parsed from.
SidecarMatchesHash ==
  \A h \in Contents : sidecar[h] # None => sidecar[h].content = h

\* Nobody's completed set() or evict() is undone by another worker's
\* read-modify-write of the manifest, or by a kill.
SetSticks == manifest = stored

\* "Return the cached partial graph for `path`": what get() returns for a file
\* has the nodes of that file.
OwnPartial == \A w \in Workers : pc[w] = "done" => result[w].file = file[w]
=============================================================================
