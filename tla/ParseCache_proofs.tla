-------------------------- MODULE ParseCache_proofs --------------------------
(***************************************************************************)
(* Proofs about the graphs of files, in the cache and as they are built.    *)
(*                                                                         *)
(* ParseCache: what is in the cache is what was parsed, for any files,      *)
(* contents and workers.                                                    *)
(* PythonGraph: every definition keeps an id of its own, and names are      *)
(* resolved in scope, for any files of proper Python.                       *)
(* CompiledGraph: the names and interfaces of Go, for any files.            *)
(***************************************************************************)
EXTENDS ParseCache, CompiledGraph, FiniteSetTheorems, SequenceTheorems, WellFoundedInduction, TLAPS

(***************************************************************************)
(* SetSticks is not inductive: it needs that the manifest in the memory of *)
(* the lock's holder is still the one on disk but for the holder's own     *)
(* entry.  FreshContent needs that a hash in use is of a content the file  *)
(* had, and that a partial on its way to the disk is filed under the hash  *)
(* of what was parsed.                                                     *)
(***************************************************************************)
CopyIsCurrent(w) ==
  /\ pc[w] = "saving" => copy[w] = [manifest EXCEPT ![file[w]] = hash[w]]
  /\ pc[w] \in {"evicting", "evicted"} =>
       copy[w] = [manifest EXCEPT ![file[w]] = None]

CallIsSound(w) ==
  /\ pc[w] # "idle" => file[w] \in Files
  /\ pc[w] \in {"lookup", "read", "parse"} =>
       /\ hash[w] \in Contents /\ hash[w] \in seen[w]
       /\ content[file[w]] # None => content[file[w]] \in seen[w]
  /\ pc[w] \in {"set", "setting", "saving"} =>
       /\ hash[w] \in seen[w]
       /\ result[w] \in Partials /\ result[w].content = hash[w]
  /\ pc[w] = "done" => result[w].content \in seen[w]

CacheInv ==
  /\ TypeOK
  /\ SidecarMatchesHash
  /\ SetSticks
  /\ \A w \in Workers : CopyIsCurrent(w) /\ CallIsSound(w)

LEMMA CacheInit == Init => CacheInv
<1>1. SUFFICES ASSUME Init PROVE CacheInv
  OBVIOUS
<1>2. TypeOK
  BY <1>1, CacheAssumption DEF Init, TypeOK, Entries, NoEntries
<1>3. SidecarMatchesHash /\ SetSticks
  BY <1>1 DEF Init, SidecarMatchesHash, SetSticks
<1>4. \A w \in Workers : CopyIsCurrent(w) /\ CallIsSound(w)
  BY <1>1 DEF Init, CopyIsCurrent, CallIsSound
<1>5. QED
  BY <1>2, <1>3, <1>4 DEF CacheInv

\* A worker that ends a call, and leaves the lock if it had it, keeps whatever
\* is said of the calls of the others.
LEMMA ReturnKeeps ==
  ASSUME CacheInv, NEW w \in Workers, Return(w),
         UNCHANGED <<content, sidecar>>,
         lock' = IF lock = w THEN None ELSE lock,
         \/ UNCHANGED <<manifest, stored>>
         \/ pc[w] = "evicted" /\ manifest' = copy[w]
                             /\ stored' = [stored EXCEPT ![file[w]] = None]
  PROVE  CacheInv'
<1>1. SetSticks'
  <2>1. CASE UNCHANGED <<manifest, stored>>
    BY <2>1 DEF CacheInv, SetSticks
  <2>2. CASE /\ pc[w] = "evicted" /\ manifest' = copy[w]
             /\ stored' = [stored EXCEPT ![file[w]] = None]
    <3>1. manifest = stored /\ copy[w] = [manifest EXCEPT ![file[w]] = None]
      BY <2>2 DEF CacheInv, SetSticks, CopyIsCurrent
    <3>2. QED
      BY <2>2, <3>1 DEF SetSticks
  <2>3. QED
    BY <2>1, <2>2
<1>2. TypeOK'
  <2>1. manifest' \in Entries
    BY DEF CacheInv, TypeOK
  <2>2. stored' = manifest'
    BY <1>1 DEF SetSticks
  <2>3. /\ file' \in [Workers -> Files \cup {None}]
        /\ hash' \in [Workers -> Contents \cup {None}]
        /\ result' \in [Workers -> Partials \cup {None}]
        /\ seen' \in [Workers -> SUBSET Contents]
    BY DEF CacheInv, TypeOK, Return
  <2>4. copy' \in [Workers -> Entries]
    <3>1. NoEntries \in Entries
      BY DEF NoEntries, Entries
    <3>2. QED
      BY <3>1 DEF CacheInv, TypeOK, Return
  <2>5. \A v \in Workers :
          pc'[v] \in {"setting", "saving", "evicting", "evicted"} <=> lock' = v
    BY CacheAssumption DEF CacheInv, TypeOK, Return
  <2>6. pc' \in [Workers -> {"idle", "lookup", "read", "parse", "set", "setting",
                             "saving", "done", "evict", "evicting", "evicted"}]
    BY DEF CacheInv, TypeOK, Return
  <2>7. QED
    BY <2>1, <2>2, <2>3, <2>4, <2>5, <2>6 DEF CacheInv, TypeOK
<1>3. SidecarMatchesHash'
  BY DEF CacheInv, SidecarMatchesHash
<1>4. ASSUME NEW v \in Workers PROVE (CopyIsCurrent(v) /\ CallIsSound(v))'
  <2>1. CASE v = w
    BY <2>1 DEF CacheInv, TypeOK, Return, CopyIsCurrent, CallIsSound
  <2>2. CASE v # w
    <3>1. UNCHANGED <<pc[v], file[v], hash[v], copy[v], result[v], seen[v]>>
      BY <2>2 DEF CacheInv, TypeOK, Return
    <3>2. pc[w] = "evicted" => pc[v] \notin {"saving", "evicting", "evicted"}
      BY <2>2 DEF CacheInv, TypeOK
    <3>3. QED
      BY <3>1, <3>2 DEF CacheInv, CopyIsCurrent, CallIsSound
  <2>3. QED
    BY <2>1, <2>2
<1>5. QED
  BY <1>1, <1>2, <1>3, <1>4 DEF CacheInv

LEMMA EditKeeps ==
  ASSUME CacheInv, NEW f \in Files, Edit(f)
  PROVE  CacheInv'
<1>1. PICK c \in Contents \cup {None} :
        /\ content' = [content EXCEPT ![f] = c]
        /\ seen' = [w \in Workers |->
             IF seen[w] # {} /\ file[w] = f /\ c # None THEN seen[w] \cup {c}
                                                      ELSE seen[w]]
  BY DEF Edit
<1>2. UNCHANGED <<manifest, sidecar, lock, pc, file, hash, copy, result, stored>>
  BY DEF Edit, disk, local
<1>3. TypeOK'
  <2>1. content' \in Entries
    BY <1>1 DEF CacheInv, TypeOK, Entries
  <2>2. seen' \in [Workers -> SUBSET Contents]
    BY <1>1 DEF CacheInv, TypeOK
  <2>3. QED
    BY <1>2, <2>1, <2>2 DEF CacheInv, TypeOK
<1>4. SidecarMatchesHash' /\ SetSticks'
  BY <1>2 DEF CacheInv, SidecarMatchesHash, SetSticks
<1>5. ASSUME NEW v \in Workers PROVE (CopyIsCurrent(v) /\ CallIsSound(v))'
  <2>1. CopyIsCurrent(v)'
    BY <1>2 DEF CacheInv, CopyIsCurrent
  <2>2. seen[v] \subseteq seen'[v]
    BY <1>1
  <2>3. ASSUME pc[v] \in {"lookup", "read", "parse"}, content'[file[v]] # None
        PROVE  content'[file[v]] \in seen'[v]
    <3>1. file[v] \in Files /\ hash[v] \in seen[v] /\ content \in [Files -> Contents \cup {None}]
      BY <2>3 DEF CacheInv, CallIsSound, TypeOK, Entries
    <3>2. CASE file[v] = f
      BY <1>1, <2>3, <3>1, <3>2
    <3>3. CASE file[v] # f
      BY <1>1, <2>2, <2>3, <3>1, <3>3 DEF CacheInv, CallIsSound
    <3>4. QED
      BY <3>2, <3>3
  <2>4. CallIsSound(v)'
    BY <1>2, <2>2, <2>3 DEF CacheInv, CallIsSound
  <2>5. QED
    BY <2>1, <2>4
<1>6. QED
  BY <1>3, <1>4, <1>5 DEF CacheInv

\* A step of a call that neither ends it nor writes to the disk.
LEMMA LocalKeeps ==
  ASSUME CacheInv, NEW w \in Workers,
         UNCHANGED <<content, disk, stored>>,
         TypeOK',
         \A v \in Workers \ {w} :
           UNCHANGED <<pc[v], file[v], hash[v], copy[v], result[v], seen[v]>>,
         CopyIsCurrent(w)', CallIsSound(w)'
  PROVE  CacheInv'
<1>1. SidecarMatchesHash' /\ SetSticks'
  BY DEF CacheInv, SidecarMatchesHash, SetSticks, disk
<1>2. ASSUME NEW v \in Workers PROVE (CopyIsCurrent(v) /\ CallIsSound(v))'
  BY DEF CacheInv, CopyIsCurrent, CallIsSound, disk
<1>3. QED
  BY <1>1, <1>2 DEF CacheInv

LEMMA GetKeeps ==
  ASSUME CacheInv, NEW w \in Workers, NEW f \in Files,
         GetHash(w, f) \/ EvictBegin(w, f)
  PROVE  CacheInv'
<1>1. UNCHANGED <<content, disk, stored>>
  BY DEF GetHash, EvictBegin
<1>2. TypeOK'
  <2>1. CASE GetHash(w, f)
    <3>1. content[f] \in Contents
      BY <2>1 DEF GetHash, CacheInv, TypeOK, Entries
    <3>2. UNCHANGED <<copy, result, lock>>
      BY <2>1 DEF GetHash
    <3>3. /\ file' \in [Workers -> Files \cup {None}]
          /\ hash' \in [Workers -> Contents \cup {None}]
          /\ seen' \in [Workers -> SUBSET Contents]
      BY <2>1, <3>1 DEF GetHash, CacheInv, TypeOK
    <3>4. QED
      BY <1>1, <2>1, <3>2, <3>3 DEF GetHash, Goto, CacheInv, TypeOK, disk
  <2>2. CASE EvictBegin(w, f)
    <3>1. UNCHANGED <<hash, copy, result, lock, seen>>
      BY <2>2 DEF EvictBegin
    <3>2. file' \in [Workers -> Files \cup {None}]
      BY <2>2 DEF EvictBegin, CacheInv, TypeOK
    <3>3. QED
      BY <1>1, <2>2, <3>1, <3>2 DEF EvictBegin, Goto, CacheInv, TypeOK, disk
  <2>3. QED
    BY <2>1, <2>2
<1>3. \A v \in Workers \ {w} :
        UNCHANGED <<pc[v], file[v], hash[v], copy[v], result[v], seen[v]>>
  BY DEF GetHash, EvictBegin, Goto, CacheInv, TypeOK
<1>4. CopyIsCurrent(w)' /\ CallIsSound(w)'
  BY DEF GetHash, EvictBegin, Goto, CacheInv, TypeOK, Entries, CopyIsCurrent, CallIsSound
<1>5. QED
  BY <1>1, <1>2, <1>3, <1>4, LocalKeeps

LEMMA MissKeeps ==
  ASSUME CacheInv, NEW w \in Workers,
         Lookup(w) \/ ReadSidecar(w) \/ Parse(w)
  PROVE  CacheInv'
<1>1. UNCHANGED <<content, disk, lock, file, copy, stored, seen>>
  BY DEF Lookup, ReadSidecar, Parse, local
<1>2. \A v \in Workers \ {w} :
        UNCHANGED <<pc[v], file[v], hash[v], copy[v], result[v], seen[v]>>
  BY DEF Lookup, ReadSidecar, Parse, Goto, local, CacheInv, TypeOK
<1>3. CASE Lookup(w)
  <2>1. TypeOK' /\ CopyIsCurrent(w)' /\ CallIsSound(w)'
    BY <1>3 DEF Lookup, Goto, local, disk, CacheInv, TypeOK, CopyIsCurrent, CallIsSound
  <2>2. QED
    BY <1>1, <1>2, <2>1, LocalKeeps
<1>4. CASE ReadSidecar(w)
  <2>1. /\ hash[w] \in Contents /\ hash[w] \in seen[w] /\ file[w] \in Files
        /\ content[file[w]] # None => content[file[w]] \in seen[w]
        /\ sidecar[hash[w]] \in Partials \cup {None}
    BY <1>4 DEF ReadSidecar, Goto, CacheInv, TypeOK, CallIsSound
  <2>2. TypeOK'
    BY <1>4, <2>1 DEF ReadSidecar, Goto, disk, CacheInv, TypeOK
  <2>3. CopyIsCurrent(w)' /\ CallIsSound(w)'
    BY <1>4, <2>1 DEF ReadSidecar, Goto, CacheInv, TypeOK, CopyIsCurrent, CallIsSound,
                      SidecarMatchesHash
  <2>4. QED
    BY <1>1, <1>2, <2>2, <2>3, LocalKeeps
<1>5. CASE Parse(w)
  <2>1. /\ file[w] \in Files /\ content[file[w]] \in Contents
        /\ content[file[w]] \in seen[w]
    BY <1>5 DEF Parse, Goto, CacheInv, TypeOK, Entries, CallIsSound
  <2>2. result'[w] \in Partials /\ result'[w].content = hash'[w] /\ hash'[w] = content[file[w]]
    BY <1>5, <2>1 DEF Parse, CacheInv, TypeOK, Partials
  <2>3. TypeOK'
    <3>1. result' \in [Workers -> Partials \cup {None}]
      BY <1>5, <2>1 DEF Parse, CacheInv, TypeOK, Partials
    <3>2. hash' \in [Workers -> Contents \cup {None}]
      BY <1>5, <2>1 DEF Parse, CacheInv, TypeOK
    <3>3. QED
      BY <1>1, <1>5, <3>1, <3>2 DEF Parse, Goto, disk, CacheInv, TypeOK
  <2>4. CopyIsCurrent(w)' /\ CallIsSound(w)'
    BY <1>1, <1>5, <2>1, <2>2 DEF Parse, Goto, CacheInv, TypeOK, CopyIsCurrent, CallIsSound
  <2>5. QED
    BY <1>1, <1>2, <2>3, <2>4, LocalKeeps
<1>6. QED
  BY <1>3, <1>4, <1>5

LEMMA SetSidecarKeeps ==
  ASSUME CacheInv, NEW w \in Workers, SetSidecar(w)
  PROVE  CacheInv'
<1>1. UNCHANGED <<content, manifest, file, hash, copy, result, stored, seen>>
  BY DEF SetSidecar, local
<1>2. result[w] \in Partials /\ result[w].content = hash[w] /\ hash[w] \in seen[w]
  BY DEF SetSidecar, Goto, CacheInv, CallIsSound
<1>3. TypeOK'
  <2>1. sidecar' \in [Contents -> Partials \cup {None}]
    BY <1>2 DEF SetSidecar, CacheInv, TypeOK
  <2>2. \A v \in Workers :
          pc'[v] \in {"setting", "saving", "evicting", "evicted"} <=> lock' = v
    BY CacheAssumption DEF SetSidecar, Goto, Acquire, CacheInv, TypeOK
  <2>3. QED
    BY <1>1, <2>1, <2>2 DEF SetSidecar, Goto, CacheInv, TypeOK
<1>4. SidecarMatchesHash' /\ SetSticks'
  BY <1>1, <1>2 DEF SetSidecar, CacheInv, TypeOK, SidecarMatchesHash, SetSticks
<1>5. ASSUME NEW v \in Workers PROVE (CopyIsCurrent(v) /\ CallIsSound(v))'
  BY <1>1, <1>2 DEF SetSidecar, Goto, CacheInv, TypeOK, CopyIsCurrent, CallIsSound
<1>6. QED
  BY <1>3, <1>4, <1>5 DEF CacheInv

LEMMA LoadKeeps ==
  ASSUME CacheInv, NEW w \in Workers, SetLoad(w) \/ EvictLoad(w)
  PROVE  CacheInv'
<1>1. UNCHANGED <<content, disk, file, hash, result, stored, seen>>
  BY DEF SetLoad, EvictLoad
<1>2. \A v \in Workers \ {w} :
        UNCHANGED <<pc[v], file[v], hash[v], copy[v], result[v], seen[v]>>
  BY DEF SetLoad, EvictLoad, Goto, CacheInv, TypeOK
<1>3. TypeOK'
  <2>1. copy' \in [Workers -> Entries]
    <3>1. [manifest EXCEPT ![file[w]] = hash[w]] \in Entries
      BY DEF CacheInv, TypeOK, Entries
    <3>2. [manifest EXCEPT ![file[w]] = None] \in Entries
      BY DEF CacheInv, TypeOK, Entries
    <3>3. QED
      BY <3>1, <3>2 DEF SetLoad, EvictLoad, CacheInv, TypeOK
  <2>2. lock' \in {lock, w}
    BY DEF SetLoad, EvictLoad, Acquire
  <2>3. \A v \in Workers :
          pc'[v] \in {"setting", "saving", "evicting", "evicted"} <=> lock' = v
    BY CacheAssumption DEF SetLoad, EvictLoad, Goto, Acquire, CacheInv, TypeOK
  <2>4. pc' \in [Workers -> {"idle", "lookup", "read", "parse", "set", "setting",
                             "saving", "done", "evict", "evicting", "evicted"}]
    BY DEF SetLoad, EvictLoad, Goto, CacheInv, TypeOK
  <2>5. QED
    BY <1>1, <2>1, <2>3, <2>4 DEF CacheInv, TypeOK, disk
<1>4. CopyIsCurrent(w)' /\ CallIsSound(w)'
  BY <1>1 DEF SetLoad, EvictLoad, Goto, disk, CacheInv, TypeOK, CopyIsCurrent, CallIsSound
<1>5. QED
  BY <1>1, <1>2, <1>3, <1>4, LocalKeeps

LEMMA SetSaveKeeps ==
  ASSUME CacheInv, NEW w \in Workers, SetSave(w)
  PROVE  CacheInv'
<1>1. UNCHANGED <<content, sidecar, file, hash, copy, result, seen>>
  BY DEF SetSave, local
<1>2. /\ pc[w] = "saving" /\ manifest' = copy[w]
      /\ stored' = [stored EXCEPT ![file[w]] = hash[w]]
      /\ result[w].content = hash[w] /\ hash[w] \in seen[w] /\ lock = w
  BY DEF SetSave, Goto, Release, CacheInv, TypeOK, CallIsSound
<1>3. SetSticks'
  BY <1>2 DEF CacheInv, SetSticks, CopyIsCurrent
<1>4. TypeOK'
  <2>1. manifest' \in Entries /\ stored' \in Entries
    <3>1. copy[w] \in Entries
      BY DEF CacheInv, TypeOK
    <3>2. stored' = manifest'
      BY <1>3 DEF SetSticks
    <3>3. QED
      BY <1>2, <3>1, <3>2
  <2>2. \A v \in Workers :
          pc'[v] \in {"setting", "saving", "evicting", "evicted"} <=> lock' = v
    BY <1>2, CacheAssumption DEF SetSave, Goto, Release, CacheInv, TypeOK
  <2>3. QED
    BY <1>1, <2>1, <2>2 DEF SetSave, Goto, CacheInv, TypeOK
<1>5. SidecarMatchesHash'
  BY <1>1 DEF CacheInv, SidecarMatchesHash
<1>6. ASSUME NEW v \in Workers PROVE (CopyIsCurrent(v) /\ CallIsSound(v))'
  <2>1. v # w => pc[v] \notin {"saving", "evicting", "evicted"}
    BY <1>2 DEF CacheInv, TypeOK
  <2>2. pc' = [pc EXCEPT ![w] = "done"]
    BY DEF SetSave, Goto
  <2>3. CopyIsCurrent(v)'
    BY <2>1, <2>2 DEF CacheInv, TypeOK, CopyIsCurrent
  <2>4. CallIsSound(v)'
    BY <1>1, <1>2, <2>2 DEF CacheInv, TypeOK, CallIsSound
  <2>5. QED
    BY <2>3, <2>4
<1>7. QED
  BY <1>3, <1>4, <1>5, <1>6 DEF CacheInv

LEMMA EvictUnlinkKeeps ==
  ASSUME CacheInv, NEW w \in Workers, EvictUnlink(w)
  PROVE  CacheInv'
<1>1. UNCHANGED <<content, manifest, lock, file, hash, copy, result, stored, seen>>
  BY DEF EvictUnlink, local
<1>2. TypeOK'
  <2>1. sidecar' \in [Contents -> Partials \cup {None}]
    BY DEF EvictUnlink, CacheInv, TypeOK
  <2>2. \A v \in Workers :
          pc'[v] \in {"setting", "saving", "evicting", "evicted"} <=> lock' = v
    BY <1>1 DEF EvictUnlink, Goto, CacheInv, TypeOK
  <2>3. QED
    BY <1>1, <2>1, <2>2 DEF EvictUnlink, Goto, CacheInv, TypeOK
<1>3. SidecarMatchesHash' /\ SetSticks'
  BY <1>1 DEF EvictUnlink, CacheInv, SidecarMatchesHash, SetSticks
<1>4. ASSUME NEW v \in Workers PROVE (CopyIsCurrent(v) /\ CallIsSound(v))'
  BY <1>1 DEF EvictUnlink, Goto, CacheInv, TypeOK, CopyIsCurrent, CallIsSound
<1>5. QED
  BY <1>2, <1>3, <1>4 DEF CacheInv

LEMMA CacheStep == CacheInv /\ [Next]_vars => CacheInv'
<1>1. SUFFICES ASSUME CacheInv, [Next]_vars PROVE CacheInv'
  OBVIOUS
<1>2. CASE UNCHANGED vars
  BY <1>1, <1>2 DEF vars, disk, local, CacheInv, TypeOK, SidecarMatchesHash, SetSticks,
                    CopyIsCurrent, CallIsSound
<1>3. ASSUME NEW f \in Files, Edit(f) PROVE CacheInv'
  BY <1>1, <1>3, EditKeeps
<1>4. ASSUME NEW w \in Workers, Begin(w) PROVE CacheInv'
  BY <1>1, <1>4, GetKeeps DEF Begin
<1>5. ASSUME NEW w \in Workers, Continue(w) PROVE CacheInv'
  <2>1. CASE Lookup(w) \/ ReadSidecar(w) \/ Parse(w)
    BY <1>1, <2>1, MissKeeps
  <2>2. CASE ParseFails(w) \/ NextFile(w)
    <3>1. lock # w
      BY <1>1, <2>2 DEF ParseFails, NextFile, CacheInv, TypeOK
    <3>2. QED
      BY <1>1, <2>2, <3>1, ReturnKeeps DEF ParseFails, NextFile, disk
  <2>3. CASE SetSidecar(w)
    BY <1>1, <2>3, SetSidecarKeeps
  <2>4. CASE SetLoad(w) \/ EvictLoad(w)
    BY <1>1, <2>4, LoadKeeps
  <2>5. CASE SetSave(w)
    BY <1>1, <2>5, SetSaveKeeps
  <2>6. CASE EvictUnlink(w)
    BY <1>1, <2>6, EvictUnlinkKeeps
  <2>7. CASE EvictSave(w)
    <3>1. lock = w /\ pc[w] = "evicted"
      BY <1>1, <2>7 DEF EvictSave, CacheInv, TypeOK
    <3>2. QED
      BY <1>1, <2>7, <3>1, ReturnKeeps DEF EvictSave, Release
  <2>8. QED
    BY <1>5, <2>1, <2>2, <2>3, <2>4, <2>5, <2>6, <2>7 DEF Continue
<1>6. ASSUME NEW w \in Workers, Kill(w) PROVE CacheInv'
  BY <1>1, <1>6, ReturnKeeps DEF Kill, disk
<1>7. QED
  BY <1>1, <1>2, <1>3, <1>4, <1>5, <1>6 DEF Next

LEMMA CacheInvariant == Spec => []CacheInv
BY CacheInit, CacheStep, PTL DEF Spec

\* The cache's variables keep their ranges and the lock is held exactly by a
\* worker inside set() or evict(): the lock of CacheManager survives kills.
THEOREM CacheTypes == Spec => []TypeOK
<1>1. CacheInv => TypeOK
  BY DEF CacheInv
<1>2. QED
  BY <1>1, CacheInvariant, PTL

\* No completed set() or evict() is lost, however many workers share the cache.
THEOREM ManifestKeepsUpdates == Spec => []SetSticks
<1>1. CacheInv => SetSticks
  BY DEF CacheInv
<1>2. QED
  BY <1>1, CacheInvariant, PTL

\* Every sidecar was parsed from the content it is named for, whatever is
\* edited between the hash and the parse.
THEOREM SidecarsMatch == Spec => []SidecarMatchesHash
<1>1. CacheInv => SidecarMatchesHash
  BY DEF CacheInv
<1>2. QED
  BY <1>1, CacheInvariant, PTL

\* A walk never takes a partial of a content its file did not have since the
\* walk came to it.
THEOREM HitsAreFresh == Spec => []FreshContent
<1>1. CacheInv => FreshContent
  BY DEF CacheInv, CallIsSound, FreshContent
<1>2. QED
  BY <1>1, CacheInvariant, PTL

(***************************************************************************)
(* Numbers.                                                                  *)
(***************************************************************************)
LEMMA Least ==
  ASSUME NEW T \in SUBSET Nat, T # {}
  PROVE  \E x \in T : \A y \in T : x <= y
<1> DEFINE R == OpToRel(<, Nat)
<1>1. IsWellFoundedOn(R, Nat)
  BY NatLessThanWellFounded
<1>2. \A x, y \in Nat : y < x => <<y, x>> \in R
  BY Zenon DEF OpToRel
<1> HIDE DEF R
<1>3. PICK x \in T : \A y \in T : ~ (<<y, x>> \in R)
  BY <1>1, WFMin
<1>4. \A y \in T : ~(y < x)
  BY <1>2, <1>3
<1> QED BY <1>4

(***************************************************************************)
(* The graph of a Python project.                                            *)
(***************************************************************************)
Parts == [name : STRING \union {""}, line : Nat]
Ids == [file : Seq(STRING), qual : Seq(Parts)]
NodeRecords ==
  [id : Ids, qual : Seq(Parts), kind : {"file", "class", "function", "method"}, name : STRING,
   path : Seq(STRING), line : Nat, overload : BOOLEAN]
EdgeRecords == [source : Ids, name : DottedNames, kind : {"call", "inherit"}, resolved : BOOLEAN, target : Ids]
ImportRecords ==
  [at : Nat, level : Nat, module : Seq(STRING), names : SUBSET STRING, alias : STRING, flags : SUBSET {"type_checking", "try", "platform"}]
GraphRecords ==
  [file : Seq(STRING), nodes : Seq(NodeRecords), index : UNION {[S -> Nat] : S \in SUBSET Ids},
   edges : Seq(EdgeRecords), stored : Ids, imports : SUBSET ImportRecords]

BaseId(g, i) == [file |-> g.file, qual |-> g.nodes[i].qual]
IdsOf(nodes) == {nodes[i].id : i \in DOMAIN nodes}

\* The node at i is that of the definition before i, under its base id or
\* under that with its line; a part with a line has one of the definition's.
NodeFits(g, d, i) ==
  LET n == g.nodes[i] IN
  /\ n.kind \in {"class", "function", "method"} /\ (n.kind = "class" <=> d.kind = "class")
  /\ n.name = d.name /\ n.line = d.first /\ n.overload = d.overload
  /\ n.qual # <<>> /\ n.qual[Len(n.qual)].line \in {0, d.line}
  /\ n.id \in {BaseId(g, i), Suffixed(BaseId(g, i), d.first)}

NodesFit(g, defs) ==
  /\ Len(g.nodes) \in 1 .. Len(defs) + 1
  /\ g.nodes[1].kind = "file" /\ g.nodes[1].qual = <<>> /\ g.nodes[1].id = BaseId(g, 1)
  /\ ~g.nodes[1].overload
  /\ \A i \in 2 .. Len(g.nodes) : NodeFits(g, defs[i - 1], i)

\* The index is the inverse of the ids.
IndexFits(g) ==
  /\ DOMAIN g.index = IdsOf(g.nodes)
  /\ \A i \in DOMAIN g.nodes : g.index[g.nodes[i].id] = i

\* The base id of a name belongs to the canonical of its definitions so far.
CanonicalAt(g, c, qual) ==
  LET same == {j \in 2 .. Len(g.nodes) : g.nodes[j].qual = qual} IN
  /\ c \in same
  /\ g.nodes[c].id = [file |-> g.file, qual |-> qual]
  /\ \A j \in same : j < c => g.nodes[j].overload
  /\ g.nodes[c].overload => \A j \in same : g.nodes[j].overload /\ c <= j
BasesFit(g) ==
  \A i \in 2 .. Len(g.nodes) : \E c \in DOMAIN g.nodes : CanonicalAt(g, c, g.nodes[i].qual)

\* An edge resolved while its class is visited leads to a class of the file.
EdgesFit(g) ==
  \A k \in DOMAIN g.edges :
    LET e == g.edges[k] IN
    /\ e.source \in IdsOf(g.nodes) /\ e.target \in IdsOf(g.nodes)
    /\ e.resolved => \E i \in DOMAIN g.nodes :
         g.nodes[i].kind = "class" /\ g.nodes[i].id = e.target /\ e.name = <<g.nodes[i].name>>

GraphFits(g, s) ==
  /\ g \in GraphRecords /\ g.file = s.file /\ g.imports = ImportEdges(s.imports)
  /\ NodesFit(g, s.defs) /\ IndexFits(g) /\ BasesFit(g) /\ EdgesFit(g)
  /\ g.stored \in IdsOf(g.nodes)

LastLine(id) == id.qual[Len(id.qual)].line

LEMMA SuffixedIs ==
  ASSUME NEW id \in Ids, NEW line \in Nat
  PROVE  /\ Suffixed(id, line) \in Ids /\ Suffixed(id, line).file = id.file
         /\ Suffixed(id, line).qual = Append(id.qual, Numbered(line))
         /\ LastLine(Suffixed(id, line)) = line /\ Suffixed(id, line) # id
         /\ Suffixed(id, line).qual # <<>>
<1>1. Numbered(line) \in Parts /\ Numbered(line).line = line
  BY DEF Numbered, Parts
<1>2. id.qual \in Seq(Parts)
  BY DEF Ids
<1> DEFINE q == Append(id.qual, Numbered(line))
<1>3. /\ q \in Seq(Parts) /\ Len(q) = Len(id.qual) + 1 /\ q[Len(q)] = Numbered(line)
      /\ q # id.qual /\ q # <<>>
  BY <1>1, <1>2
<1> HIDE DEF q
<1>4. Suffixed(id, line) = [id EXCEPT !.qual = q]
  BY DEF Suffixed, q
<1>5. Suffixed(id, line).qual = q /\ Suffixed(id, line).file = id.file /\ Suffixed(id, line) \in Ids
  BY <1>3, <1>4 DEF Ids
<1> QED BY <1>1, <1>3, <1>5 DEF LastLine, q

\* What a name with a line leads to is the definition of that line.
LEMMA LineTells ==
  ASSUME NEW g \in GraphRecords, NEW defs, NodesFit(g, defs),
         \A i \in DOMAIN defs : ProperDefinition(defs, i), defs \in Seq(Range(defs)),
         NEW m \in 2 .. Len(defs) + 1, NEW line \in {defs[m - 1].first, defs[m - 1].line},
         NEW j \in DOMAIN g.nodes, g.nodes[j].id.qual # <<>>, LastLine(g.nodes[j].id) = line
  PROVE  j = m
<1>1. g.nodes \in Seq(NodeRecords) /\ DOMAIN g.nodes = 1 .. Len(g.nodes)
  BY DEF GraphRecords
<1>2. g.nodes[j] \in NodeRecords
  BY <1>1
<1>3. BaseId(g, j) \in Ids /\ BaseId(g, j).qual = g.nodes[j].qual
  BY <1>2 DEF BaseId, Ids, NodeRecords, GraphRecords
<1>4. j # 1
  BY <1>3 DEF NodesFit
<1>5. j \in 2 .. Len(g.nodes) /\ NodeFits(g, defs[j - 1], j) /\ j - 1 \in DOMAIN defs /\ j <= Len(defs) + 1
  BY <1>1, <1>4 DEF NodesFit
<1>6. ProperDefinition(defs, j - 1) /\ ProperDefinition(defs, m - 1) /\ m - 1 \in DOMAIN defs
  BY <1>5
<1>7. line \in {0, defs[j - 1].first, defs[j - 1].line}
  <2>1. CASE g.nodes[j].id = BaseId(g, j)
    BY <1>3, <1>5, <2>1 DEF NodeFits, LastLine
  <2>2. CASE g.nodes[j].id = Suffixed(BaseId(g, j), defs[j - 1].first)
    <3>1. defs[j - 1].first \in Nat
      BY <1>6 DEF ProperDefinition
    <3>2. LastLine(Suffixed(BaseId(g, j), defs[j - 1].first)) = defs[j - 1].first
      BY <1>3, <3>1, SuffixedIs
    <3> QED BY <2>2, <3>2
  <2> QED BY <1>5, <2>1, <2>2 DEF NodeFits
<1>8. /\ defs[j - 1].first \in Nat \ {0} /\ defs[j - 1].line \in Nat /\ defs[j - 1].first <= defs[j - 1].line
      /\ defs[m - 1].first \in Nat \ {0} /\ defs[m - 1].line \in Nat /\ defs[m - 1].first <= defs[m - 1].line
  BY <1>6 DEF ProperDefinition
<1>9. ~(j < m)
  <2>1. \A k \in 1 .. (m - 1) - 1 : defs[k].line < defs[m - 1].first
    BY <1>6 DEF ProperDefinition
  <2>2. j < m => j - 1 \in 1 .. (m - 1) - 1
    BY <1>5
  <2>3. j < m => defs[j - 1].line < defs[m - 1].first
    BY <2>1, <2>2
  <2> QED BY <1>7, <1>8, <2>3
<1>10. ~(m < j)
  <2>1. \A k \in 1 .. (j - 1) - 1 : defs[k].line < defs[j - 1].first
    BY <1>6 DEF ProperDefinition
  <2>2. m < j => m - 1 \in 1 .. (j - 1) - 1
    BY <1>5
  <2>3. m < j => defs[m - 1].line < defs[j - 1].first
    BY <2>1, <2>2
  <2> QED BY <1>7, <1>8, <2>3
<1> QED BY <1>5, <1>9, <1>10

\* What the node of the next definition is before it is stored.
NextNode(g, s, node) ==
  LET d == s.defs[Len(g.nodes)] IN
  /\ node \in NodeRecords /\ node.kind # "file" /\ (node.kind = "class" <=> d.kind = "class")
  /\ node.name = d.name /\ node.line = d.first /\ node.overload = d.overload
  /\ node.qual # <<>> /\ node.qual[Len(node.qual)].line \in {0, d.line}
  /\ node.id = [file |-> g.file, qual |-> node.qual]

LEMMA GraphFacts ==
  ASSUME NEW g, NEW s, ProperPythonFile(s), GraphFits(g, s)
  PROVE  /\ g.nodes \in Seq(NodeRecords) /\ DOMAIN g.nodes = 1 .. Len(g.nodes) /\ Len(g.nodes) \in Nat \ {0}
         /\ \A i \in DOMAIN g.nodes : g.nodes[i] \in NodeRecords /\ g.nodes[i].id \in Ids
                                      /\ g.nodes[i].qual \in Seq(Parts) /\ BaseId(g, i) \in Ids
         /\ g.file \in Seq(STRING) /\ g.edges \in Seq(EdgeRecords) /\ g.stored \in Ids
         /\ g.index \in [IdsOf(g.nodes) -> Nat] /\ IdsOf(g.nodes) \subseteq Ids
         /\ DOMAIN s.defs = 1 .. Len(s.defs) /\ Len(s.defs) \in Nat
         /\ s.defs \in Seq(Range(s.defs)) /\ \A i \in DOMAIN s.defs : ProperDefinition(s.defs, i)
         /\ \A i, j \in DOMAIN g.nodes : g.nodes[i].id = g.nodes[j].id => i = j
<1>1. g \in GraphRecords /\ NodesFit(g, s.defs) /\ IndexFits(g)
  BY DEF GraphFits
<1>2. /\ g.nodes \in Seq(NodeRecords) /\ DOMAIN g.nodes = 1 .. Len(g.nodes) /\ Len(g.nodes) \in Nat \ {0}
      /\ g.file \in Seq(STRING) /\ g.edges \in Seq(EdgeRecords) /\ g.stored \in Ids
  BY <1>1 DEF GraphRecords, NodesFit
<1>3. \A i \in DOMAIN g.nodes : g.nodes[i] \in NodeRecords
  BY <1>2
<1>4. \A i \in DOMAIN g.nodes : /\ g.nodes[i].id \in Ids /\ g.nodes[i].qual \in Seq(Parts)
                                /\ BaseId(g, i) \in Ids
  BY <1>2, <1>3 DEF NodeRecords, BaseId, Ids
<1>5. s.defs \in Seq(Range(s.defs)) /\ \A i \in DOMAIN s.defs : ProperDefinition(s.defs, i)
  BY DEF ProperPythonFile
<1>6. DOMAIN s.defs = 1 .. Len(s.defs) /\ Len(s.defs) \in Nat
  BY <1>5
<1>7. DOMAIN g.index = IdsOf(g.nodes) /\ \A i \in DOMAIN g.nodes : g.index[g.nodes[i].id] = i
  BY <1>1 DEF IndexFits
<1>8. g.index \in [IdsOf(g.nodes) -> Nat]
  <2>1. PICK S \in SUBSET Ids : g.index \in [S -> Nat]
    BY <1>1 DEF GraphRecords
  <2> QED BY <1>7, <2>1
<1>9. IdsOf(g.nodes) \subseteq Ids
  BY <1>4 DEF IdsOf
<1> QED BY <1>2, <1>3, <1>4, <1>5, <1>6, <1>7, <1>8, <1>9

\* A base id that is taken is taken by a definition of the same name.
LEMMA TakenBase ==
  ASSUME NEW g, NEW s, ProperPythonFile(s), GraphFits(g, s), Len(g.nodes) <= Len(s.defs),
         NEW node, NextNode(g, s, node), node.id \in DOMAIN g.index
  PROVE  LET at == g.index[node.id] IN
         /\ at \in 2 .. Len(g.nodes) /\ g.nodes[at].id = node.id /\ g.nodes[at].qual = node.qual
         /\ CanonicalAt(g, at, node.qual)
<1> USE GraphFacts
<1>1. PICK at \in DOMAIN g.nodes : g.nodes[at].id = node.id
  BY DEF GraphFits, IndexFits, IdsOf
<1>2. g.index[node.id] = at
  BY <1>1 DEF GraphFits, IndexFits
<1>3. node.id \in Ids /\ node.qual \in Seq(Parts) /\ node.id.qual = node.qual /\ node.qual # <<>>
  BY DEF NextNode, NodeRecords
<1>4. at # 1
  BY <1>1, <1>3 DEF GraphFits, NodesFit, BaseId
<1>5. at \in 2 .. Len(g.nodes) /\ NodeFits(g, s.defs[at - 1], at) /\ at - 1 \in DOMAIN s.defs
  <2>1. Len(g.nodes) \in Nat /\ Len(s.defs) \in Nat /\ DOMAIN g.nodes = 1 .. Len(g.nodes) /\ DOMAIN s.defs = 1 .. Len(s.defs)
    OBVIOUS
  <2>2. NodesFit(g, s.defs)
    BY DEF GraphFits
  <2>3. at \in 2 .. Len(g.nodes) /\ at - 1 \in DOMAIN s.defs
    BY <1>1, <1>4, <2>1
  <2> QED BY <2>2, <2>3 DEF NodesFit
<1>6. g.nodes[at].id = BaseId(g, at)
  <2> SUFFICES ASSUME g.nodes[at].id = Suffixed(BaseId(g, at), s.defs[at - 1].first) PROVE FALSE
    BY <1>5 DEF NodeFits
  <2>1. ProperDefinition(s.defs, at - 1)
    BY <1>5
  <2>2. LastLine(g.nodes[at].id) = s.defs[at - 1].first
    <3>1. s.defs[at - 1].first \in Nat /\ BaseId(g, at) \in Ids
      BY <2>1 DEF ProperDefinition
    <3>2. LastLine(Suffixed(BaseId(g, at), s.defs[at - 1].first)) = s.defs[at - 1].first
      BY <3>1, SuffixedIs
    <3> QED BY <3>2
  <2>3. LastLine(g.nodes[at].id) \in {0, s.defs[Len(g.nodes)].line}
    BY <1>1, <1>3 DEF LastLine, NextNode
  <2>4. Len(g.nodes) \in DOMAIN s.defs /\ at - 1 \in 1 .. Len(g.nodes) - 1
    BY <1>5
  <2>5. ProperDefinition(s.defs, Len(g.nodes))
    BY <2>4
  <2>6. /\ s.defs[at - 1].first \in Nat \ {0} /\ s.defs[at - 1].line \in Nat
        /\ s.defs[at - 1].first <= s.defs[at - 1].line
    BY <2>1 DEF ProperDefinition
  <2>7. /\ s.defs[Len(g.nodes)].line \in Nat /\ s.defs[Len(g.nodes)].first \in Nat
        /\ s.defs[Len(g.nodes)].first <= s.defs[Len(g.nodes)].line
    BY <2>5 DEF ProperDefinition
  <2>8. s.defs[at - 1].line < s.defs[Len(g.nodes)].first
    BY <2>4, <2>5 DEF ProperDefinition
  <2> QED BY <2>2, <2>3, <2>6, <2>7, <2>8
<1>7. g.nodes[at].qual = node.qual
  BY <1>1, <1>3, <1>6 DEF BaseId
<1>8. PICK c \in DOMAIN g.nodes : CanonicalAt(g, c, g.nodes[at].qual)
  BY <1>5 DEF GraphFits, BasesFit
<1>9. g.nodes[c].id = node.id
  BY <1>7, <1>8 DEF CanonicalAt, NextNode
<1>10. c = at
  BY <1>1, <1>9
<1> QED BY <1>1, <1>2, <1>5, <1>7, <1>8, <1>10

\* A suffix makes an id that no node has.
LEMMA SuffixIsFresh ==
  ASSUME NEW g, NEW s, ProperPythonFile(s), GraphFits(g, s), Len(g.nodes) <= Len(s.defs),
         NEW id \in Ids, NEW m \in 2 .. Len(g.nodes) + 1,
         m \in DOMAIN g.nodes => g.nodes[m].id = id
  PROVE  Suffixed(id, s.defs[m - 1].first) \notin IdsOf(g.nodes)
<1> USE GraphFacts
<1> DEFINE x == Suffixed(id, s.defs[m - 1].first)
<1>1. m - 1 \in DOMAIN s.defs /\ m \in 2 .. Len(s.defs) + 1
  OBVIOUS
<1>2. s.defs[m - 1].first \in Nat
  BY <1>1 DEF ProperDefinition
<1>3. LastLine(x) = s.defs[m - 1].first /\ x # id /\ x.qual # <<>>
  BY <1>2, SuffixedIs
<1> HIDE DEF x
<1> SUFFICES ASSUME NEW j \in DOMAIN g.nodes, g.nodes[j].id = x PROVE FALSE
  BY DEF IdsOf, x
<1>4. g \in GraphRecords /\ NodesFit(g, s.defs)
  BY DEF GraphFits
<1>5. j = m
  BY <1>1, <1>3, <1>4, LineTells
<1> QED BY <1>3, <1>5

\* What the two ways of storing a node have in common.
Grown(g, r, node, id) ==
  LET h == Len(g.nodes) + 1 IN
  /\ Len(r.nodes) = h /\ r.nodes[h] = [node EXCEPT !.id = id]
  /\ r.file = g.file /\ r.imports = g.imports /\ r.edges = g.edges
  /\ r.stored = id

\* A node under an id that no node has.
StoreUnder(g, node, id) ==
  [g EXCEPT !.nodes = Append(@, [node EXCEPT !.id = id]), !.index = Indexed(@, id, Len(g.nodes) + 1),
            !.stored = id]

LEMMA StoredAside ==
  ASSUME NEW g, NEW s, ProperPythonFile(s), GraphFits(g, s), Len(g.nodes) <= Len(s.defs),
         NEW node, NextNode(g, s, node),
         NEW id, id = node.id \/ id = Suffixed(node.id, node.line), id \notin IdsOf(g.nodes)
  PROVE  LET r == StoreUnder(g, node, id) IN
         /\ Grown(g, r, node, id) /\ \A i \in DOMAIN g.nodes : r.nodes[i] = g.nodes[i]
         /\ r \in GraphRecords /\ NodesFit(r, s.defs) /\ IndexFits(r)
         /\ IdsOf(r.nodes) = IdsOf(g.nodes) \union {id}
<1> DEFINE h == Len(g.nodes) + 1
           m == [node EXCEPT !.id = id]
           r == StoreUnder(g, node, id)
           ns == Append(g.nodes, m)
           ix == Indexed(g.index, id, h)
<1>0. r = [g EXCEPT !.nodes = ns, !.index = ix, !.stored = id]
  BY DEF StoreUnder
<1>1. /\ g.nodes \in Seq(NodeRecords) /\ DOMAIN g.nodes = 1 .. Len(g.nodes) /\ Len(g.nodes) \in Nat \ {0}
      /\ g.index \in [IdsOf(g.nodes) -> Nat] /\ IdsOf(g.nodes) \subseteq Ids
      /\ DOMAIN s.defs = 1 .. Len(s.defs) /\ Len(s.defs) \in Nat
      /\ \A i \in DOMAIN s.defs : ProperDefinition(s.defs, i)
  BY GraphFacts
<1>2. node \in NodeRecords /\ node.id \in Ids /\ node.line \in Nat
  BY DEF NextNode, NodeRecords
<1>3. id \in Ids
  BY <1>2, SuffixedIs
<1>4. m \in NodeRecords /\ m.id = id
  BY <1>2, <1>3 DEF NodeRecords
<1>5. /\ ns \in Seq(NodeRecords) /\ Len(ns) = h /\ ns[h] = m /\ DOMAIN ns = 1 .. h
      /\ \A i \in DOMAIN g.nodes : ns[i] = g.nodes[i]
  BY <1>1, <1>4
<1>6. /\ DOMAIN ix = IdsOf(g.nodes) \union {id} /\ ix[id] = h
      /\ \A x \in IdsOf(g.nodes) : ix[x] = g.index[x]
  BY <1>1, <1>3 DEF Indexed
<1>7. IdsOf(ns) = IdsOf(g.nodes) \union {id}
  <2>1. DOMAIN ns = DOMAIN g.nodes \union {h} /\ h \notin DOMAIN g.nodes
    BY <1>1, <1>5
  <2>2. ns[h].id = id /\ \A i \in DOMAIN g.nodes : ns[i].id = g.nodes[i].id
    BY <1>1, <1>4, <1>5
  <2> HIDE DEF ns
  <2> QED BY <2>1, <2>2 DEF IdsOf
<1>8. ix \in UNION {[S -> Nat] : S \in SUBSET Ids}
  <2>1. \A x \in DOMAIN ix : ix[x] \in Nat
    BY <1>1, <1>6
  <2>2. ix = [x \in DOMAIN ix |-> ix[x]]
    BY DEF Indexed
  <2> HIDE DEF ix
  <2>3. DOMAIN ix \in SUBSET Ids
    BY <1>1, <1>3, <1>6
  <2>4. ix \in [DOMAIN ix -> Nat]
    BY <2>1, <2>2
  <2> QED BY <2>3, <2>4
<1> HIDE DEF ns, ix, r
<1>9. g \in GraphRecords
  BY DEF GraphFits
<1>10. /\ r \in GraphRecords /\ r.nodes = ns /\ r.index = ix /\ r.stored = id
       /\ r.file = g.file /\ r.imports = g.imports /\ r.edges = g.edges
  BY <1>0, <1>3, <1>5, <1>8, <1>9 DEF GraphRecords
<1>11. Grown(g, r, node, id)
  BY <1>5, <1>10 DEF Grown
<1>12. IndexFits(r)
  <2>1. DOMAIN r.index = IdsOf(r.nodes)
    BY <1>6, <1>7, <1>10
  <2>2. ASSUME NEW i \in DOMAIN r.nodes PROVE r.index[r.nodes[i].id] = i
    <3>1. CASE i = h
      BY <1>4, <1>5, <1>6, <1>10, <3>1
    <3>2. CASE i # h
      <4>1. i \in DOMAIN g.nodes /\ r.nodes[i] = g.nodes[i]
        BY <1>1, <1>5, <1>10, <3>2
      <4>2. g.nodes[i].id \in IdsOf(g.nodes) /\ g.index[g.nodes[i].id] = i
        BY <4>1 DEF IdsOf, GraphFits, IndexFits
      <4> QED BY <1>6, <1>10, <4>1, <4>2
    <3> QED BY <3>1, <3>2
  <2> QED BY <2>1, <2>2 DEF IndexFits
<1>13. NodesFit(r, s.defs)
  <2>1. NodesFit(g, s.defs)
    BY DEF GraphFits
  <2>2. r.nodes[1] = g.nodes[1] /\ BaseId(r, 1) = BaseId(g, 1)
    BY <1>1, <1>5, <1>10 DEF BaseId
  <2>3. ASSUME NEW i \in 2 .. Len(r.nodes) PROVE NodeFits(r, s.defs[i - 1], i)
    <3>1. CASE i = h
      <4>1. r.nodes[i] = m /\ i - 1 = Len(g.nodes)
        BY <1>1, <1>5, <1>10, <3>1
      <4>2. BaseId(r, i) = node.id /\ m.qual = node.qual
        BY <1>2, <1>10, <4>1 DEF BaseId, NextNode, NodeRecords
      <4>3. /\ m.kind = node.kind /\ m.name = node.name /\ m.line = node.line
            /\ m.overload = node.overload /\ node.kind \in {"file", "class", "function", "method"}
        BY <1>2 DEF NodeRecords
      <4> HIDE DEF m
      <4> QED BY <1>4, <4>1, <4>2, <4>3 DEF NodeFits, NextNode
    <3>2. CASE i # h
      <4>1. i \in 2 .. Len(g.nodes) /\ r.nodes[i] = g.nodes[i] /\ BaseId(r, i) = BaseId(g, i)
        BY <1>1, <1>5, <1>10, <3>2 DEF BaseId
      <4> QED BY <2>1, <4>1 DEF NodesFit, NodeFits
    <3> QED BY <3>1, <3>2
  <2>4. Len(r.nodes) \in 1 .. Len(s.defs) + 1
    BY <1>1, <1>5, <1>10
  <2> QED BY <2>1, <2>2, <2>3, <2>4 DEF NodesFit
<1> QED BY <1>5, <1>7, <1>10, <1>11, <1>12, <1>13 DEF r

\* A node that takes the base id of a stub, which is demoted.
LEMMA StoredAsBase ==
  ASSUME NEW g, NEW s, ProperPythonFile(s), GraphFits(g, s), Len(g.nodes) <= Len(s.defs),
         NEW node, NextNode(g, s, node), node.id \in DOMAIN g.index
  PROVE  LET h == Len(g.nodes) + 1
             at == g.index[node.id]
             demoted == Suffixed(node.id, g.nodes[at].line)
             r == [g EXCEPT !.nodes = Append([@ EXCEPT ![at].id = demoted], node),
                            !.index = Indexed(Indexed(@, demoted, at), node.id, h),
                            !.stored = node.id]
         IN  /\ Grown(g, r, node, node.id)
             /\ \A i \in DOMAIN g.nodes :
                  r.nodes[i] = IF i = at THEN [g.nodes[i] EXCEPT !.id = demoted] ELSE g.nodes[i]
             /\ r \in GraphRecords /\ NodesFit(r, s.defs) /\ IndexFits(r)
             /\ IdsOf(r.nodes) = IdsOf(g.nodes) \union {demoted} /\ demoted \notin IdsOf(g.nodes)
<1> DEFINE h == Len(g.nodes) + 1
           at == g.index[node.id]
           demoted == Suffixed(node.id, g.nodes[at].line)
           stub == [g.nodes[at] EXCEPT !.id = demoted]
           old == [g.nodes EXCEPT ![at].id = demoted]
           ns == Append(old, node)
           ix == Indexed(Indexed(g.index, demoted, at), node.id, h)
           r == [g EXCEPT !.nodes = ns, !.index = ix, !.stored = node.id]
<1>1. /\ g.nodes \in Seq(NodeRecords) /\ DOMAIN g.nodes = 1 .. Len(g.nodes) /\ Len(g.nodes) \in Nat \ {0}
      /\ g.index \in [IdsOf(g.nodes) -> Nat] /\ IdsOf(g.nodes) \subseteq Ids
      /\ DOMAIN s.defs = 1 .. Len(s.defs) /\ Len(s.defs) \in Nat
      /\ \A i \in DOMAIN s.defs : ProperDefinition(s.defs, i)
      /\ \A i \in DOMAIN g.nodes : g.nodes[i] \in NodeRecords
      /\ \A i, j \in DOMAIN g.nodes : g.nodes[i].id = g.nodes[j].id => i = j
  BY GraphFacts
<1>2. node \in NodeRecords /\ node.id \in Ids
  BY DEF NextNode, NodeRecords
<1>3. at \in 2 .. Len(g.nodes) /\ g.nodes[at].id = node.id /\ g.nodes[at].qual = node.qual
  BY TakenBase
<1> HIDE DEF at
<1>4. NodesFit(g, s.defs)
  BY DEF GraphFits
<1>5. NodeFits(g, s.defs[at - 1], at) /\ at \in DOMAIN g.nodes /\ at - 1 \in DOMAIN s.defs
  BY <1>1, <1>3, <1>4 DEF NodesFit
<1>6. g.nodes[at].line = s.defs[at - 1].first /\ g.nodes[at] \in NodeRecords /\ g.nodes[at].line \in Nat
  BY <1>1, <1>5 DEF NodeFits, NodeRecords
<1>7. demoted \in Ids /\ demoted \notin IdsOf(g.nodes) /\ demoted # node.id
  BY <1>2, <1>3, <1>6, SuffixedIs, SuffixIsFresh
<1>8. demoted = Suffixed(BaseId(g, at), s.defs[at - 1].first)
  BY <1>3, <1>6 DEF BaseId, NextNode
<1> HIDE DEF demoted
<1>9. /\ stub \in NodeRecords /\ stub.id = demoted
      /\ stub.kind = g.nodes[at].kind /\ stub.name = g.nodes[at].name /\ stub.line = g.nodes[at].line
      /\ stub.overload = g.nodes[at].overload /\ stub.qual = g.nodes[at].qual
  BY <1>6, <1>7 DEF NodeRecords
<1>10. /\ old \in Seq(NodeRecords) /\ Len(old) = Len(g.nodes) /\ DOMAIN old = DOMAIN g.nodes
       /\ \A i \in DOMAIN g.nodes : old[i] = IF i = at THEN stub ELSE g.nodes[i]
  <2>1. old = [g.nodes EXCEPT ![at] = stub]
    OBVIOUS
  <2> HIDE DEF old, stub
  <2> QED BY <1>1, <1>5, <1>9, <2>1
<1> HIDE DEF old, stub
<1>11. /\ ns \in Seq(NodeRecords) /\ Len(ns) = h /\ ns[h] = node /\ DOMAIN ns = 1 .. h
       /\ \A i \in DOMAIN g.nodes : ns[i] = IF i = at THEN stub ELSE g.nodes[i]
  BY <1>1, <1>2, <1>10
<1>12. /\ DOMAIN ix = IdsOf(g.nodes) \union {demoted} /\ ix[node.id] = h /\ ix[demoted] = at
       /\ \A x \in IdsOf(g.nodes) : x # node.id => ix[x] = g.index[x]
  <2>1. node.id \in IdsOf(g.nodes)
    BY <1>3, <1>5 DEF IdsOf
  <2> QED BY <1>1, <1>7, <2>1 DEF Indexed
<1>13. IdsOf(ns) = IdsOf(g.nodes) \union {demoted}
  <2>1. DOMAIN ns = DOMAIN g.nodes \union {h} /\ h \notin DOMAIN g.nodes
    BY <1>1, <1>11
  <2>2. \A i \in DOMAIN g.nodes : i # at => ns[i].id = g.nodes[i].id
    BY <1>11
  <2>3. ns[at].id = demoted /\ ns[h].id = g.nodes[at].id
    BY <1>3, <1>5, <1>9, <1>11
  <2> HIDE DEF ns
  <2> QED BY <1>5, <2>1, <2>2, <2>3 DEF IdsOf
<1>14. ix \in UNION {[S -> Nat] : S \in SUBSET Ids}
  <2>1. \A x \in DOMAIN ix : ix[x] \in Nat
    BY <1>1, <1>3, <1>12
  <2>2. ix = [x \in DOMAIN ix |-> ix[x]]
    BY DEF Indexed
  <2> HIDE DEF ix
  <2>3. DOMAIN ix \in SUBSET Ids
    BY <1>1, <1>7, <1>12
  <2>4. ix \in [DOMAIN ix -> Nat]
    BY <2>1, <2>2
  <2> QED BY <2>3, <2>4
<1> HIDE DEF ns, ix
<1>15. g \in GraphRecords
  BY DEF GraphFits
<1>16. /\ r \in GraphRecords /\ r.nodes = ns /\ r.index = ix /\ r.stored = node.id
       /\ r.file = g.file /\ r.imports = g.imports /\ r.edges = g.edges
  BY <1>2, <1>11, <1>14, <1>15 DEF GraphRecords
<1> HIDE DEF r
<1>17. Grown(g, r, node, node.id)
  <2>1. [node EXCEPT !.id = node.id] = node
    BY <1>2 DEF NodeRecords
  <2> QED BY <1>11, <1>16, <2>1 DEF Grown
<1>18. IndexFits(r)
  <2>1. DOMAIN r.index = IdsOf(r.nodes)
    BY <1>12, <1>13, <1>16
  <2>2. ASSUME NEW i \in DOMAIN r.nodes PROVE r.index[r.nodes[i].id] = i
    <3>1. CASE i = h
      BY <1>11, <1>12, <1>16, <3>1
    <3>2. CASE i = at
      BY <1>5, <1>9, <1>11, <1>12, <1>16, <3>2
    <3>3. CASE i # h /\ i # at
      <4>1. i \in DOMAIN g.nodes /\ r.nodes[i] = g.nodes[i]
        BY <1>1, <1>11, <1>16, <3>3
      <4>2. g.nodes[i].id \in IdsOf(g.nodes) /\ g.index[g.nodes[i].id] = i
        BY <4>1 DEF IdsOf, GraphFits, IndexFits
      <4>3. g.nodes[i].id # node.id
        BY <1>1, <1>3, <1>5, <3>3, <4>1
      <4> QED BY <1>12, <1>16, <4>1, <4>2, <4>3
    <3> QED BY <3>1, <3>2, <3>3
  <2> QED BY <2>1, <2>2 DEF IndexFits
<1>19. NodesFit(r, s.defs)
  <2>1. r.nodes[1] = g.nodes[1] /\ BaseId(r, 1) = BaseId(g, 1)
    <3>1. 1 \in DOMAIN g.nodes /\ 1 # at
      BY <1>1, <1>3
    <3> QED BY <1>11, <1>16, <3>1 DEF BaseId
  <2>2. ASSUME NEW i \in 2 .. Len(r.nodes) PROVE NodeFits(r, s.defs[i - 1], i)
    <3>1. CASE i = h
      <4>1. r.nodes[i] = node /\ i - 1 = Len(g.nodes)
        BY <1>1, <1>11, <1>16, <3>1
      <4>2. BaseId(r, i) = node.id
        BY <1>16, <4>1 DEF BaseId, NextNode
      <4>3. node.kind \in {"file", "class", "function", "method"}
        BY <1>2 DEF NodeRecords
      <4> QED BY <4>1, <4>2, <4>3 DEF NodeFits, NextNode
    <3>2. CASE i = at
      <4>1. r.nodes[i] = stub /\ BaseId(r, i) = BaseId(g, i)
        BY <1>5, <1>9, <1>11, <1>16, <3>2 DEF BaseId
      <4> QED BY <1>5, <1>8, <1>9, <3>2, <4>1 DEF NodeFits
    <3>3. CASE i # h /\ i # at
      <4>1. i \in 2 .. Len(g.nodes) /\ r.nodes[i] = g.nodes[i] /\ BaseId(r, i) = BaseId(g, i)
        BY <1>1, <1>11, <1>16, <3>3 DEF BaseId
      <4> QED BY <1>4, <4>1 DEF NodesFit, NodeFits
    <3> QED BY <3>1, <3>2, <3>3
  <2>3. Len(r.nodes) \in 1 .. Len(s.defs) + 1
    BY <1>1, <1>11, <1>16
  <2> QED BY <1>4, <2>1, <2>2, <2>3 DEF NodesFit
<1> QED BY <1>7, <1>11, <1>13, <1>16, <1>17, <1>18, <1>19 DEF r, ns, ix, old, stub, at, demoted

\* The canonical of a name once one more node is stored: of another name it
\* stays, of this one the base id tells.
LEMMA CanonicalStays ==
  ASSUME NEW g, NEW r, NEW n \in Nat, Len(g.nodes) = n, Len(r.nodes) = n + 1, r.file = g.file,
         \A i \in 2 .. n : r.nodes[i].qual = g.nodes[i].qual /\ r.nodes[i].overload = g.nodes[i].overload,
         NEW qual, NEW c, CanonicalAt(g, c, qual), r.nodes[c].id = g.nodes[c].id,
         r.nodes[n + 1].qual = qual => (g.nodes[c].overload => r.nodes[n + 1].overload)
  PROVE  CanonicalAt(r, c, qual)
<1> DEFINE old == {j \in 2 .. n : g.nodes[j].qual = qual}
           new == {j \in 2 .. n + 1 : r.nodes[j].qual = qual}
<1>1. /\ c \in old /\ g.nodes[c].id = [file |-> g.file, qual |-> qual]
      /\ \A j \in old : j < c => g.nodes[j].overload
      /\ g.nodes[c].overload => \A j \in old : g.nodes[j].overload /\ c <= j
  BY DEF CanonicalAt
<1>2. c \in new /\ r.nodes[c].overload = g.nodes[c].overload
  BY <1>1
<1>3. ASSUME NEW j \in new, j < c PROVE r.nodes[j].overload
  <2>1. j \in old
    BY <1>1, <1>3
  <2> QED BY <1>1, <1>3, <2>1
<1>4. ASSUME g.nodes[c].overload, NEW j \in new PROVE r.nodes[j].overload /\ c <= j
  <2>1. CASE j = n + 1
    BY <1>1, <1>4, <2>1
  <2>2. CASE j # n + 1
    <3>1. j \in old
      BY <2>2
    <3> QED BY <1>1, <1>4, <2>2, <3>1
  <2> QED BY <2>1, <2>2
<1> QED BY <1>1, <1>2, <1>3, <1>4 DEF CanonicalAt

LEMMA AddNodeFits ==
  ASSUME NEW g, NEW s, ProperPythonFile(s), GraphFits(g, s), Len(g.nodes) <= Len(s.defs),
         NEW node, NextNode(g, s, node)
  PROVE  LET r == AddNode(g, node) IN
         /\ r \in GraphRecords /\ r.file = g.file /\ r.imports = g.imports /\ r.edges = g.edges
         /\ Len(r.nodes) = Len(g.nodes) + 1
         /\ NodesFit(r, s.defs) /\ IndexFits(r) /\ BasesFit(r)
         /\ IdsOf(g.nodes) \subseteq IdsOf(r.nodes) /\ r.stored \in IdsOf(r.nodes)
         /\ \A i \in DOMAIN g.nodes : g.nodes[i].kind = "class" => r.nodes[i] = g.nodes[i]
<1> DEFINE n == Len(g.nodes)
           h == n + 1
           at == g.index[node.id]
           demoted == Suffixed(node.id, g.nodes[at].line)
           aside == Suffixed(node.id, node.line)
           r == AddNode(g, node)
<1>1. /\ g.nodes \in Seq(NodeRecords) /\ DOMAIN g.nodes = 1 .. n /\ n \in Nat \ {0}
      /\ DOMAIN g.index = IdsOf(g.nodes)
      /\ DOMAIN s.defs = 1 .. Len(s.defs) /\ Len(s.defs) \in Nat
      /\ \A i \in DOMAIN s.defs : ProperDefinition(s.defs, i)
      /\ \A i \in DOMAIN g.nodes : g.nodes[i] \in NodeRecords
  BY GraphFacts
<1>2. node \in NodeRecords /\ node.id \in Ids /\ node.overload \in BOOLEAN
  BY DEF NextNode, NodeRecords
<1>3. NodesFit(g, s.defs) /\ BasesFit(g)
  BY DEF GraphFits
<1>4. \A i \in 2 .. n : \E c \in 2 .. n : CanonicalAt(g, c, g.nodes[i].qual)
  BY <1>3 DEF BasesFit, CanonicalAt
<1>5. ASSUME NEW id, id = node.id \/ id = aside, id \notin IdsOf(g.nodes), r = StoreUnder(g, node, id)
      PROVE  /\ Grown(g, r, node, id) /\ \A i \in DOMAIN g.nodes : r.nodes[i] = g.nodes[i]
             /\ r \in GraphRecords /\ NodesFit(r, s.defs) /\ IndexFits(r)
             /\ IdsOf(r.nodes) = IdsOf(g.nodes) \union {id}
  <2> HIDE DEF r
  <2> QED BY <1>5, StoredAside
<1>6. CASE node.id \notin DOMAIN g.index
  <2>1. r = StoreUnder(g, node, node.id)
    <3>1. node = [node EXCEPT !.id = node.id]
      BY <1>2 DEF NodeRecords
    <3> QED BY <1>6, <3>1 DEF AddNode, StoreUnder
  <2>2. /\ Grown(g, r, node, node.id) /\ \A i \in DOMAIN g.nodes : r.nodes[i] = g.nodes[i]
        /\ r \in GraphRecords /\ NodesFit(r, s.defs) /\ IndexFits(r)
        /\ IdsOf(r.nodes) = IdsOf(g.nodes) \union {node.id}
    <3> HIDE DEF r
    <3> QED BY <1>1, <1>5, <1>6, <2>1
  <2> HIDE DEF r
  <2>3. BasesFit(r)
    <3>1. \A i \in 2 .. n : g.nodes[i].qual # node.qual
      <4> SUFFICES ASSUME NEW i \in 2 .. n, g.nodes[i].qual = node.qual PROVE FALSE
        OBVIOUS
      <4>1. PICK c \in 2 .. n : CanonicalAt(g, c, node.qual)
        BY <1>4
      <4>2. g.nodes[c].id = node.id /\ c \in DOMAIN g.nodes
        BY <1>1, <4>1 DEF CanonicalAt, NextNode
      <4> QED BY <1>1, <1>6, <4>2 DEF IdsOf
    <3>2. r.nodes[h].qual = node.qual /\ r.nodes[h].id = node.id /\ Len(r.nodes) = h /\ r.file = g.file
      BY <1>2, <2>2 DEF Grown, NodeRecords
    <3>3. ASSUME NEW i \in 2 .. h PROVE \E c \in 2 .. h : CanonicalAt(r, c, r.nodes[i].qual)
      <4>1. CASE i = h
        <5>1. CanonicalAt(r, h, node.qual)
          <6>1. \A j \in 2 .. h : r.nodes[j].qual = node.qual <=> j = h
            BY <1>1, <2>2, <3>1, <3>2
          <6> QED BY <1>1, <3>2, <6>1 DEF CanonicalAt, NextNode
        <5> QED BY <1>1, <3>2, <4>1, <5>1
      <4>2. CASE i # h
        <5>1. i \in 2 .. n
          BY <1>1, <4>2
        <5>2. PICK c \in 2 .. n : CanonicalAt(g, c, g.nodes[i].qual)
          BY <1>4, <5>1
        <5>3. CanonicalAt(r, c, g.nodes[i].qual)
          <6>1. r.nodes[h].qual # g.nodes[i].qual
            BY <3>1, <3>2, <5>1
          <6>2. c \in DOMAIN g.nodes /\ n \in Nat /\ \A j \in 2 .. n : r.nodes[j] = g.nodes[j]
            BY <1>1, <2>2
          <6> QED BY <3>2, <5>2, <6>1, <6>2, CanonicalStays
        <5> QED BY <1>1, <2>2, <5>1, <5>3
      <4> QED BY <4>1, <4>2
    <3>4. DOMAIN r.nodes = 1 .. h
      BY <2>2, <3>2 DEF GraphRecords
    <3>5. \A i \in 2 .. Len(r.nodes) : \E c \in DOMAIN r.nodes : CanonicalAt(r, c, r.nodes[i].qual)
      <4> TAKE i \in 2 .. Len(r.nodes)
      <4>1. i \in 2 .. h /\ Len(r.nodes) \in Nat
        BY <1>1, <3>2
      <4>2. PICK c \in 2 .. h : CanonicalAt(r, c, r.nodes[i].qual)
        BY <3>3, <4>1
      <4>3. c \in DOMAIN r.nodes
        BY <1>1, <3>4, <4>1
      <4> QED BY <4>2, <4>3
    <3> QED BY <3>5 DEF BasesFit
  <2>4. node.id \in IdsOf(r.nodes)
    BY <2>2
  <2> QED BY <1>1, <2>2, <2>3, <2>4 DEF Grown, r
<1>7. CASE node.id \in DOMAIN g.index /\ TakesBase(g.nodes[at], node)
  <2>1. r = [g EXCEPT !.nodes = Append([@ EXCEPT ![at].id = demoted], node),
                      !.index = Indexed(Indexed(@, demoted, at), node.id, h),
                      !.stored = node.id]
    BY <1>7 DEF AddNode
  <2>2. /\ at \in 2 .. n /\ g.nodes[at].id = node.id /\ g.nodes[at].qual = node.qual
        /\ CanonicalAt(g, at, node.qual)
    BY <1>7, TakenBase
  <2>3. /\ Grown(g, r, node, node.id)
        /\ \A i \in DOMAIN g.nodes :
             r.nodes[i] = IF i = at THEN [g.nodes[i] EXCEPT !.id = demoted] ELSE g.nodes[i]
        /\ r \in GraphRecords /\ NodesFit(r, s.defs) /\ IndexFits(r)
        /\ IdsOf(r.nodes) = IdsOf(g.nodes) \union {demoted} /\ demoted \notin IdsOf(g.nodes)
    <3> DEFINE longer == [g EXCEPT !.nodes = Append([@ EXCEPT ![at].id = demoted], node),
                                   !.index = Indexed(Indexed(@, demoted, at), node.id, h),
                                   !.stored = node.id]
    <3>1. /\ Grown(g, longer, node, node.id)
          /\ \A i \in DOMAIN g.nodes :
               longer.nodes[i] = IF i = at THEN [g.nodes[i] EXCEPT !.id = demoted] ELSE g.nodes[i]
          /\ longer \in GraphRecords /\ NodesFit(longer, s.defs) /\ IndexFits(longer)
          /\ IdsOf(longer.nodes) = IdsOf(g.nodes) \union {demoted} /\ demoted \notin IdsOf(g.nodes)
      BY <1>7, StoredAsBase, Zenon
    <3>2. r = longer
      BY <2>1
    <3> HIDE DEF longer, r
    <3> QED BY <3>1, <3>2
  <2> HIDE DEF r, at, demoted
  <2>4. g.nodes[at].overload /\ ~node.overload
    BY <1>7 DEF TakesBase
  <2>5. \A i \in DOMAIN g.nodes : /\ r.nodes[i].qual = g.nodes[i].qual /\ r.nodes[i].overload = g.nodes[i].overload
                                  /\ i # at => r.nodes[i] = g.nodes[i]
    BY <1>1, <2>3 DEF NodeRecords
  <2>6. /\ r.nodes[h].qual = node.qual /\ r.nodes[h].id = node.id /\ r.nodes[h].overload = node.overload
        /\ Len(r.nodes) = h /\ r.file = g.file
    BY <1>2, <2>3 DEF Grown, NodeRecords
  <2>7. BasesFit(r)
    <3>1. ASSUME NEW i \in 2 .. h PROVE \E c \in 2 .. h : CanonicalAt(r, c, r.nodes[i].qual)
      <4>1. CASE r.nodes[i].qual = node.qual
        <5>1. CanonicalAt(r, h, node.qual)
          <6>1. \A j \in 2 .. n : g.nodes[j].qual = node.qual => g.nodes[j].overload
            BY <2>2, <2>4 DEF CanonicalAt
          <6>2. \A j \in 2 .. h : r.nodes[j].qual = node.qual /\ j < h => r.nodes[j].overload
            BY <1>1, <2>5, <6>1
          <6>3. h \in 2 .. h /\ r.nodes[h].id = [file |-> r.file, qual |-> node.qual]
            BY <1>1, <2>6 DEF NextNode
          <6> QED BY <2>4, <2>6, <6>2, <6>3 DEF CanonicalAt
        <5> QED BY <1>1, <4>1, <5>1
      <4>2. CASE r.nodes[i].qual # node.qual
        <5>1. i \in 2 .. n /\ g.nodes[i].qual = r.nodes[i].qual
          BY <1>1, <2>5, <2>6, <4>2
        <5>2. PICK c \in 2 .. n : CanonicalAt(g, c, g.nodes[i].qual)
          BY <1>4, <5>1
        <5>3. CanonicalAt(r, c, g.nodes[i].qual)
          <6>1. c # at /\ r.nodes[h].qual # g.nodes[i].qual
            BY <2>2, <2>6, <4>2, <5>1, <5>2 DEF CanonicalAt
          <6>2. /\ r.nodes[c].id = g.nodes[c].id /\ n \in Nat
                /\ \A j \in 2 .. n : r.nodes[j].qual = g.nodes[j].qual /\ r.nodes[j].overload = g.nodes[j].overload
            BY <1>1, <2>5, <6>1
          <6> QED BY <2>6, <5>2, <6>1, <6>2, CanonicalStays
        <5> QED BY <1>1, <5>1, <5>3
      <4> QED BY <4>1, <4>2
    <3>2. DOMAIN r.nodes = 1 .. h
      BY <2>3, <2>6 DEF GraphRecords
    <3>3. \A i \in 2 .. Len(r.nodes) : \E c \in DOMAIN r.nodes : CanonicalAt(r, c, r.nodes[i].qual)
      <4> TAKE i \in 2 .. Len(r.nodes)
      <4>1. i \in 2 .. h /\ Len(r.nodes) \in Nat
        BY <1>1, <2>6
      <4>2. PICK c \in 2 .. h : CanonicalAt(r, c, r.nodes[i].qual)
        BY <3>1, <4>1
      <4>3. c \in DOMAIN r.nodes
        BY <1>1, <3>2, <4>1
      <4> QED BY <4>2, <4>3
    <3> QED BY <3>3 DEF BasesFit
  <2>8. ASSUME NEW i \in DOMAIN g.nodes, g.nodes[i].kind = "class" PROVE r.nodes[i] = g.nodes[i]
    <3>1. at - 1 \in DOMAIN s.defs /\ NodeFits(g, s.defs[at - 1], at)
      BY <1>1, <1>3, <2>2 DEF NodesFit
    <3>2. ProperDefinition(s.defs, at - 1)
      BY <1>1, <3>1
    <3>3. g.nodes[at].kind # "class"
      BY <2>4, <3>1, <3>2 DEF NodeFits, ProperDefinition
    <3> QED BY <2>5, <2>8, <3>3
  <2>9. node.id \in IdsOf(r.nodes) /\ r.stored = node.id
    <3>1. node.id \in IdsOf(g.nodes)
      BY <1>1, <1>7
    <3> QED BY <2>3, <3>1 DEF Grown
  <2> QED BY <2>3, <2>7, <2>8, <2>9 DEF Grown, r
<1>8. CASE node.id \in DOMAIN g.index /\ ~TakesBase(g.nodes[at], node)
  <2>1. r = StoreUnder(g, node, aside)
    BY <1>8 DEF AddNode, StoreUnder
  <2>2. /\ at \in 2 .. n /\ g.nodes[at].id = node.id /\ g.nodes[at].qual = node.qual
        /\ CanonicalAt(g, at, node.qual)
    BY <1>8, TakenBase
  <2>3. aside \notin IdsOf(g.nodes)
    <3>1. node.line = s.defs[h - 1].first /\ h \in 2 .. n + 1 /\ h \notin DOMAIN g.nodes
      BY <1>1 DEF NextNode
    <3> QED BY <1>2, <3>1, SuffixIsFresh
  <2>4. /\ Grown(g, r, node, aside) /\ \A i \in DOMAIN g.nodes : r.nodes[i] = g.nodes[i]
        /\ r \in GraphRecords /\ NodesFit(r, s.defs) /\ IndexFits(r)
        /\ IdsOf(r.nodes) = IdsOf(g.nodes) \union {aside}
    <3> HIDE DEF r, aside
    <3> QED BY <1>5, <2>1, <2>3
  <2> HIDE DEF r, at, aside
  <2>5. ~(g.nodes[at].overload /\ ~node.overload)
    BY <1>8 DEF TakesBase
  <2>6. /\ r.nodes[h].qual = node.qual /\ r.nodes[h].overload = node.overload
        /\ Len(r.nodes) = h /\ r.file = g.file
    BY <1>2, <2>4 DEF Grown, NodeRecords
  <2>7. \A j \in 2 .. n : r.nodes[j] = g.nodes[j]
    BY <1>1, <2>4
  <2>8. BasesFit(r)
    <3>1. ASSUME NEW i \in 2 .. h PROVE \E c \in 2 .. h : CanonicalAt(r, c, r.nodes[i].qual)
      <4>1. CASE r.nodes[i].qual = node.qual
        <5>1. CanonicalAt(r, at, node.qual)
          BY <1>1, <2>2, <2>5, <2>6, <2>7, CanonicalStays
        <5> QED BY <1>1, <2>2, <4>1, <5>1
      <4>2. CASE r.nodes[i].qual # node.qual
        <5>1. i \in 2 .. n /\ g.nodes[i].qual = r.nodes[i].qual
          BY <1>1, <2>6, <2>7, <4>2
        <5>2. PICK c \in 2 .. n : CanonicalAt(g, c, g.nodes[i].qual)
          BY <1>4, <5>1
        <5>3. CanonicalAt(r, c, g.nodes[i].qual)
          BY <1>1, <2>6, <2>7, <4>2, <5>1, <5>2, CanonicalStays
        <5> QED BY <1>1, <5>1, <5>3
      <4> QED BY <4>1, <4>2
    <3>2. DOMAIN r.nodes = 1 .. h
      BY <2>4, <2>6 DEF GraphRecords
    <3>3. \A i \in 2 .. Len(r.nodes) : \E c \in DOMAIN r.nodes : CanonicalAt(r, c, r.nodes[i].qual)
      <4> TAKE i \in 2 .. Len(r.nodes)
      <4>1. i \in 2 .. h /\ Len(r.nodes) \in Nat
        BY <1>1, <2>6
      <4>2. PICK c \in 2 .. h : CanonicalAt(r, c, r.nodes[i].qual)
        BY <3>1, <4>1
      <4>3. c \in DOMAIN r.nodes
        BY <1>1, <3>2, <4>1
      <4> QED BY <4>2, <4>3
    <3> QED BY <3>3 DEF BasesFit
  <2> QED BY <2>4, <2>8 DEF Grown, r
<1> QED BY <1>6, <1>7, <1>8

LEMMA MinIs ==
  ASSUME NEW T \in SUBSET Nat, T # {}
  PROVE  Min(T) \in T /\ \A y \in T : Min(T) <= y
<1>1. \E x \in T : \A y \in T : x <= y
  BY Least
<1> QED BY <1>1 DEF Min

LEMMA MaxIs ==
  ASSUME NEW n \in Nat, NEW T \in SUBSET (1 .. n), T # {}
  PROVE  Max(T) \in T /\ \A y \in T : Max(T) >= y
<1> DEFINE S == {n - x : x \in T}
<1>1. S \in SUBSET Nat /\ S # {}
  <2>1. \A x \in 1 .. n : n - x \in Nat
    OBVIOUS
  <2>2. PICK x : x \in T
    OBVIOUS
  <2>3. n - x \in S
    BY <2>2
  <2> QED BY <2>1, <2>3
<1>2. PICK z \in S : \A y \in S : z <= y
  <2> HIDE DEF S
  <2> QED BY <1>1, Least
<1>3. PICK x \in T : z = n - x
  OBVIOUS
<1>4. \A y \in T : x >= y
  <2> TAKE y \in T
  <2>1. n - x <= n - y
    BY <1>2, <1>3
  <2> QED BY <2>1
<1>5. \E u \in T : \A y \in T : u >= y
  BY <1>4
<1> QED BY <1>5 DEF Max

LEMMA QualnameIs ==
  ASSUME NEW outer \in NodeRecords, NEW d, d.name \in STRING, d.line \in Nat
  PROVE  /\ Qualname(outer, d) \in Seq(Parts) /\ Qualname(outer, d) # <<>>
         /\ Qualname(outer, d)[Len(Qualname(outer, d))].line \in {0, d.line}
<1>1. /\ Named(d.name) \in Parts /\ Numbered(d.line) \in Parts
      /\ Named(d.name).line = 0 /\ Numbered(d.line).line = d.line
  BY DEF Named, Numbered, Parts
<1>2. outer.qual \in Seq(Parts)
  BY DEF NodeRecords
<1>3. ASSUME NEW tail \in Seq(Parts), tail # <<>>
      PROVE  /\ outer.qual \o tail \in Seq(Parts) /\ outer.qual \o tail # <<>>
             /\ (outer.qual \o tail)[Len(outer.qual \o tail)] = tail[Len(tail)]
  BY <1>2, <1>3
<1>4. CASE d.kind = "class" \/ outer.kind \in {"file", "class"}
  <2>1. Qualname(outer, d) = outer.qual \o <<Named(d.name)>>
    BY <1>4 DEF Qualname
  <2>2. <<Named(d.name)>> \in Seq(Parts) /\ <<Named(d.name)>> # <<>> /\ Len(<<Named(d.name)>>) = 1
    BY <1>1
  <2> QED BY <1>1, <1>3, <2>1, <2>2
<1>5. CASE ~(d.kind = "class" \/ outer.kind \in {"file", "class"})
  <2> DEFINE t == <<Named(d.name), Numbered(d.line)>>
  <2>1. Qualname(outer, d) = outer.qual \o t
    BY <1>5 DEF Qualname
  <2>2. t \in Seq(Parts) /\ t # <<>> /\ t[Len(t)] = Numbered(d.line)
    BY <1>1
  <2> HIDE DEF t
  <2> QED BY <1>1, <1>3, <2>1, <2>2
<1> QED BY <1>4, <1>5

\* An edge that leads to a class of the file, or to nothing yet.
EdgeFits(g, e) ==
  /\ e \in EdgeRecords
  /\ e.source \in IdsOf(g.nodes) /\ e.target \in IdsOf(g.nodes)
  /\ e.resolved => \E i \in DOMAIN g.nodes :
       g.nodes[i].kind = "class" /\ g.nodes[i].id = e.target /\ e.name = <<g.nodes[i].name>>

LEMMA NewEdgeFits ==
  ASSUME NEW g \in GraphRecords, g.stored \in IdsOf(g.nodes), NEW name \in DottedNames
  PROVE  EdgeFits(g, Edge(g.stored, name, "call")) /\ EdgeFits(g, InheritEdge(g, name))
<1>1. g.stored \in Ids /\ g.nodes \in Seq(NodeRecords) /\ DOMAIN g.nodes = 1 .. Len(g.nodes)
  BY DEF GraphRecords
<1>2. \A kind \in {"call", "inherit"} : EdgeFits(g, Edge(g.stored, name, kind))
  BY <1>1 DEF EdgeFits, Edge, EdgeRecords
<1> DEFINE near == {i \in DOMAIN g.nodes : g.nodes[i].kind = "class" /\ name = <<g.nodes[i].name>>}
           edge == Edge(g.stored, name, "inherit")
           to == g.nodes[Min(near)].id
<1>3. CASE near = {}
  <2>1. InheritEdge(g, name) = edge
    BY <1>3 DEF InheritEdge
  <2> QED BY <1>2, <2>1
<1>4. CASE near # {}
  <2>1. InheritEdge(g, name) = Resolved(edge, to)
    BY <1>4 DEF InheritEdge
  <2>2. Min(near) \in near
    <3>1. near \in SUBSET Nat
      BY <1>1
    <3> HIDE DEF near
    <3> QED BY <1>4, <3>1, MinIs
  <2>3. /\ Min(near) \in DOMAIN g.nodes /\ g.nodes[Min(near)].kind = "class" /\ g.nodes[Min(near)].id = to
        /\ name = <<g.nodes[Min(near)].name>> /\ to \in Ids
    <3>1. /\ Min(near) \in DOMAIN g.nodes /\ g.nodes[Min(near)].kind = "class"
          /\ name = <<g.nodes[Min(near)].name>>
      <4> DEFINE at == Min(near)
      <4>1. at \in near
        BY <2>2
      <4> HIDE DEF at
      <4> QED BY <4>1 DEF at
    <3>2. g.nodes[Min(near)] \in NodeRecords
      <4>1. \A i \in DOMAIN g.nodes : g.nodes[i] \in NodeRecords
        BY <1>1
      <4> HIDE DEF near
      <4> QED BY <3>1, <4>1
    <3> QED BY <3>1, <3>2 DEF NodeRecords
  <2>4. to \in IdsOf(g.nodes)
    BY <2>3 DEF IdsOf
  <2>5. edge \in EdgeRecords /\ edge.source = g.stored /\ edge.name = name
    BY <1>1 DEF Edge, EdgeRecords
  <2> HIDE DEF edge, to, near
  <2>6. /\ Resolved(edge, to) \in EdgeRecords /\ Resolved(edge, to).source = g.stored
        /\ Resolved(edge, to).target = to /\ Resolved(edge, to).name = name
    BY <2>3, <2>5 DEF Resolved, EdgeRecords
  <2>7. EdgeFits(g, Resolved(edge, to))
    BY <2>3, <2>4, <2>6 DEF EdgeFits
  <2> QED BY <1>2, <2>1, <2>7
<1> QED BY <1>3, <1>4

LEMMA EdgesFitIs ==
  ASSUME NEW g \in GraphRecords
  PROVE  EdgesFit(g) <=> \A k \in DOMAIN g.edges : EdgeFits(g, g.edges[k])
<1>1. \A k \in DOMAIN g.edges : g.edges[k] \in EdgeRecords
  BY DEF GraphRecords
<1> QED BY <1>1 DEF EdgesFit, EdgeFits

\* A definition visited leaves a graph that fits the file.
LEMMA VisitDefFits ==
  ASSUME NEW g, NEW s, ProperPythonFile(s), GraphFits(g, s), Len(g.nodes) <= Len(s.defs)
  PROVE  GraphFits(VisitDef(g, s.defs[Len(g.nodes)]), s)
<1> DEFINE n == Len(g.nodes)
           d == s.defs[n]
           outer == g.nodes[d.parent + 1]
           kind == IF d.kind = "class" THEN "class" ELSE IF outer.kind = "class" THEN "method" ELSE "function"
           qual == Qualname(outer, d)
           node == [id |-> [file |-> g.file, qual |-> qual], qual |-> qual, kind |-> kind,
                    name |-> d.name, path |-> g.file, line |-> d.first, overload |-> d.overload]
           added == AddNode(g, node)
           new == IF kind = "class" THEN [k \in DOMAIN d.bases |-> InheritEdge(added, d.bases[k])]
                  ELSE [k \in DOMAIN d.calls |-> Edge(added.stored, d.calls[k], "call")]
           r == [added EXCEPT !.edges = @ \o new]
<1>1. /\ DOMAIN g.nodes = 1 .. n /\ n \in Nat \ {0} /\ g.edges \in Seq(EdgeRecords)
      /\ \A i \in DOMAIN g.nodes : g.nodes[i] \in NodeRecords
      /\ g.file \in Seq(STRING) /\ DOMAIN s.defs = 1 .. Len(s.defs) /\ Len(s.defs) \in Nat
      /\ \A i \in DOMAIN s.defs : ProperDefinition(s.defs, i)
  BY GraphFacts
<1>2. ProperDefinition(s.defs, n)
  BY <1>1
<1>3. /\ d.kind \in {"class", "function"} /\ d.parent \in 0 .. n - 1 /\ d.name \in STRING
      /\ d.first \in Nat /\ d.line \in Nat /\ d.overload \in BOOLEAN
      /\ d.calls \in Seq(DottedNames) /\ d.bases \in Seq(DottedNames)
  BY <1>2 DEF ProperDefinition
<1> HIDE DEF d
<1>4. outer \in NodeRecords
  <2>1. d.parent + 1 \in DOMAIN g.nodes
    BY <1>1, <1>3
  <2> QED BY <1>1, <2>1
<1> HIDE DEF outer
<1>5. qual \in Seq(Parts) /\ qual # <<>> /\ qual[Len(qual)].line \in {0, d.line}
  BY <1>3, <1>4, QualnameIs
<1>6. kind \in {"class", "function", "method"} /\ (kind = "class" <=> d.kind = "class")
  BY <1>3
<1> HIDE DEF qual, kind
<1>7. NextNode(g, s, node)
  <2>1. [file |-> g.file, qual |-> qual] \in Ids
    BY <1>1, <1>5 DEF Ids
  <2>2. node \in NodeRecords
    BY <1>1, <1>3, <1>5, <1>6, <2>1 DEF NodeRecords
  <2>3. /\ node.kind = kind /\ node.name = d.name /\ node.line = d.first /\ node.overload = d.overload
        /\ node.qual = qual /\ node.id = [file |-> g.file, qual |-> qual]
    OBVIOUS
  <2> HIDE DEF node
  <2> QED BY <1>5, <1>6, <2>2, <2>3 DEF NextNode, d
<1> HIDE DEF node
<1>8. /\ added \in GraphRecords /\ added.file = g.file /\ added.imports = g.imports /\ added.edges = g.edges
      /\ NodesFit(added, s.defs) /\ IndexFits(added) /\ BasesFit(added)
      /\ Len(added.nodes) = n + 1
      /\ IdsOf(g.nodes) \subseteq IdsOf(added.nodes) /\ added.stored \in IdsOf(added.nodes)
      /\ \A i \in DOMAIN g.nodes : g.nodes[i].kind = "class" => added.nodes[i] = g.nodes[i]
  BY <1>7, AddNodeFits
<1> HIDE DEF added
<1>9. new \in Seq(EdgeRecords) /\ \A k \in DOMAIN new : EdgeFits(added, new[k])
  <2>1. CASE kind = "class"
    <3>1. \A k \in DOMAIN d.bases : EdgeFits(added, InheritEdge(added, d.bases[k]))
      BY <1>3, <1>8, NewEdgeFits
    <3>2. \A k \in DOMAIN d.bases : InheritEdge(added, d.bases[k]) \in EdgeRecords
      BY <3>1 DEF EdgeFits
    <3>3. new = [k \in DOMAIN d.bases |-> InheritEdge(added, d.bases[k])]
      BY <2>1
    <3>4. DOMAIN d.bases = 1 .. Len(d.bases) /\ Len(d.bases) \in Nat
      BY <1>3
    <3> HIDE DEF new
    <3> QED BY <3>1, <3>2, <3>3, <3>4
  <2>2. CASE kind # "class"
    <3>1. \A k \in DOMAIN d.calls : EdgeFits(added, Edge(added.stored, d.calls[k], "call"))
      BY <1>3, <1>8, NewEdgeFits
    <3>2. \A k \in DOMAIN d.calls : Edge(added.stored, d.calls[k], "call") \in EdgeRecords
      BY <3>1 DEF EdgeFits
    <3>3. new = [k \in DOMAIN d.calls |-> Edge(added.stored, d.calls[k], "call")]
      BY <2>2
    <3>4. DOMAIN d.calls = 1 .. Len(d.calls) /\ Len(d.calls) \in Nat
      BY <1>3
    <3> HIDE DEF new
    <3> QED BY <3>1, <3>2, <3>3, <3>4
  <2> QED BY <2>1, <2>2
<1>10. VisitDef(g, d) = r
  BY DEF VisitDef, outer, kind, qual, node, added
<1> HIDE DEF new
<1>11. /\ r \in GraphRecords /\ r.nodes = added.nodes /\ r.index = added.index /\ r.stored = added.stored
       /\ r.file = g.file /\ r.imports = g.imports /\ r.edges = g.edges \o new
  <2>1. g.edges \o new \in Seq(EdgeRecords)
    BY <1>1, <1>9
  <2>2. r = [added EXCEPT !.edges = g.edges \o new]
    BY <1>8
  <2> DEFINE es == g.edges \o new
  <2> HIDE DEF r, es
  <2> QED BY <1>8, <2>1, <2>2 DEF GraphRecords, es
<1> HIDE DEF r
<1>12. EdgesFit(r)
  <2>1. \A k \in DOMAIN g.edges : EdgeFits(r, g.edges[k])
    <3> TAKE k \in DOMAIN g.edges
    <3>1. EdgeFits(g, g.edges[k])
      BY EdgesFitIs DEF GraphFits
    <3>2. DOMAIN g.nodes \subseteq DOMAIN r.nodes
      BY <1>1, <1>8, <1>11 DEF GraphRecords
    <3> QED BY <1>8, <1>11, <3>1, <3>2 DEF EdgeFits
  <2>2. \A k \in DOMAIN new : EdgeFits(r, new[k])
    BY <1>9, <1>11 DEF EdgeFits
  <2>3. ASSUME NEW k \in DOMAIN r.edges PROVE EdgeFits(r, r.edges[k])
    <3>1. CASE k <= Len(g.edges)
      <4>1. k \in DOMAIN g.edges /\ r.edges[k] = g.edges[k]
        BY <1>1, <1>9, <1>11, <3>1
      <4> QED BY <2>1, <4>1
    <3>2. CASE ~(k <= Len(g.edges))
      <4>1. k - Len(g.edges) \in DOMAIN new /\ r.edges[k] = new[k - Len(g.edges)]
        BY <1>1, <1>9, <1>11, <3>2
      <4> QED BY <2>2, <4>1
    <3> QED BY <3>1, <3>2
  <2> QED BY <1>11, <2>3, EdgesFitIs
<1>13. NodesFit(r, s.defs) /\ IndexFits(r) /\ BasesFit(r)
  <2>1. \A i : BaseId(r, i) = BaseId(added, i)
    BY <1>8, <1>11 DEF BaseId
  <2>2. NodesFit(r, s.defs)
    BY <1>8, <1>11, <2>1 DEF NodesFit, NodeFits
  <2>3. IndexFits(r)
    BY <1>8, <1>11 DEF IndexFits
  <2>4. \A c, q : CanonicalAt(r, c, q) <=> CanonicalAt(added, c, q)
    BY <1>8, <1>11 DEF CanonicalAt
  <2> QED BY <1>8, <1>11, <2>2, <2>3, <2>4 DEF BasesFit
<1> QED BY <1>8, <1>10, <1>11, <1>12, <1>13 DEF GraphFits, d

LEMMA FileGraphFits ==
  ASSUME NEW s, ProperPythonFile(s)
  PROVE  GraphFits(FileGraph(s), s)
<1> DEFINE g == FileGraph(s)
           id == [file |-> s.file, qual |-> <<>>]
           node == [id |-> id, qual |-> <<>>, kind |-> "file", name |-> Last(s.file),
                    path |-> s.file, line |-> 0, overload |-> FALSE]
           ns == <<node>>
           ix == [x \in {id} |-> 1]
<1>1. s.file \in Seq(STRING) /\ s.file # <<>> /\ Last(s.file) \in STRING /\ Len(s.defs) \in Nat
  BY DEF ProperPythonFile, DottedNames, Last
<1>2. <<>> \in Seq(Parts) /\ id \in Ids
  BY <1>1 DEF Ids
<1>3. node \in NodeRecords
  BY <1>1, <1>2 DEF NodeRecords
<1>4. ns \in Seq(NodeRecords) /\ Len(ns) = 1 /\ DOMAIN ns = {1} /\ ns[1] = node
  BY <1>3
<1>5. IdsOf(ns) = {id}
  BY <1>4 DEF IdsOf
<1>6. ix \in UNION {[S -> Nat] : S \in SUBSET Ids} /\ DOMAIN ix = {id} /\ ix[id] = 1
  <2>1. {id} \in SUBSET Ids /\ ix \in [{id} -> Nat]
    BY <1>2
  <2> QED BY <2>1
<1>7. ImportEdges(s.imports) \in SUBSET ImportRecords
  <2>1. ASSUME NEW i \in DOMAIN s.imports
        PROVE  [at |-> i, level |-> s.imports[i].level, module |-> s.imports[i].module,
                names |-> s.imports[i].names, alias |-> s.imports[i].alias,
                flags |-> s.imports[i].under \intersect {"type_checking", "try", "platform"}] \in ImportRecords
    <3>1. ProperImport(s.file, s.imports[i]) /\ i \in Nat
      BY DEF ProperPythonFile
    <3>2. s.imports[i].level \in Nat /\ s.imports[i].names \in SUBSET STRING
      BY <1>1, <3>1 DEF ProperImport
    <3>3. s.imports[i].under \intersect {"type_checking", "try", "platform"} \in SUBSET {"type_checking", "try", "platform"}
      OBVIOUS
    <3> QED BY <3>1, <3>2, <3>3 DEF ProperImport, ImportRecords
  <2> QED BY <2>1 DEF ImportEdges
<1>8. g = [file |-> s.file, nodes |-> ns, index |-> ix, edges |-> <<>>, stored |-> id,
           imports |-> ImportEdges(s.imports)]
  BY DEF FileGraph
<1> HIDE DEF ns, ix, node
<1>9. /\ g.file = s.file /\ g.nodes = ns /\ g.index = ix /\ g.edges = <<>> /\ g.stored = id
      /\ g.imports = ImportEdges(s.imports)
  BY <1>8
<1>10. g \in GraphRecords
  <2>1. <<>> \in Seq(EdgeRecords)
    OBVIOUS
  <2> HIDE DEF g, id
  <2> QED BY <1>1, <1>2, <1>4, <1>6, <1>7, <1>8, <2>1 DEF GraphRecords
<1> HIDE DEF g
<1>11. NodesFit(g, s.defs)
  <2>1. node.kind = "file" /\ node.qual = <<>> /\ node.id = id /\ node.overload = FALSE
    BY DEF node
  <2>2. Len(g.nodes) = 1 /\ g.nodes[1] = node /\ 2 .. 1 = {} /\ 1 \in 1 .. Len(s.defs) + 1
    BY <1>1, <1>4, <1>9
  <2>3. g.nodes[1].id = BaseId(g, 1)
    BY <1>9, <2>1, <2>2 DEF BaseId
  <2>4. \A i \in 2 .. Len(g.nodes) : NodeFits(g, s.defs[i - 1], i)
    BY <2>2
  <2> QED BY <2>1, <2>2, <2>3, <2>4 DEF NodesFit
<1>12. IndexFits(g)
  <2>1. node.id = id
    BY DEF node
  <2> QED BY <1>4, <1>5, <1>6, <1>9, <2>1 DEF IndexFits
<1>13. BasesFit(g) /\ EdgesFit(g)
  <2>1. Len(g.nodes) = 1 /\ 2 .. 1 = {} /\ DOMAIN g.edges = {}
    BY <1>4, <1>9
  <2> QED BY <2>1 DEF BasesFit, EdgesFit
<1> QED BY <1>5, <1>9, <1>10, <1>11, <1>12, <1>13 DEF GraphFits, g

(***************************************************************************)
(* The resolver.                                                             *)
(***************************************************************************)
LEMMA LastIdIs ==
  ASSUME NEW nodes \in Seq(NodeRecords), NEW kinds, NEW name
  PROVE  /\ LastId(nodes, kinds, name) \subseteq
              {n.id : n \in {m \in Range(nodes) : m.kind \in kinds /\ m.name = name}}
         /\ (\E m \in Range(nodes) : m.kind \in kinds /\ m.name = name) => LastId(nodes, kinds, name) # {}
<1> DEFINE same == {i \in DOMAIN nodes : nodes[i].kind \in kinds /\ nodes[i].name = name}
           at == Max(same)
<1>1. same # {} => at \in same
  <2>1. same \in SUBSET (1 .. Len(nodes)) /\ Len(nodes) \in Nat
    OBVIOUS
  <2> HIDE DEF same
  <2> QED BY <2>1, MaxIs
<1>2. LastId(nodes, kinds, name) = IF same = {} THEN {} ELSE {nodes[at].id}
  BY DEF LastId
<1> HIDE DEF at
<1>3. ASSUME same # {} PROVE nodes[at] \in Range(nodes) /\ nodes[at].kind \in kinds /\ nodes[at].name = name
  BY <1>1, <1>3 DEF Range
<1>4. (\E m \in Range(nodes) : m.kind \in kinds /\ m.name = name) => same # {}
  BY DEF Range
<1> HIDE DEF same
<1> QED BY <1>2, <1>3, <1>4

LEMMA ExportsIs ==
  ASSUME NEW graphs \in Seq(GraphRecords), NEW path, NEW name
  PROVE  LET exported == {n \in UNION {Range(graphs[j].nodes) : j \in {l \in DOMAIN graphs : graphs[l].file = path}} :
                            n.kind \in {"class", "function"} /\ n.name = name}
         IN  /\ Exports(graphs, path, name) \subseteq {n.id : n \in exported}
             /\ exported # {} => Exports(graphs, path, name) # {}
<1> DEFINE at == {l \in DOMAIN graphs : graphs[l].file = path}
           kinds == {"class", "function"}
           exported == {n \in UNION {Range(graphs[j].nodes) : j \in at} : n.kind \in kinds /\ n.name = name}
<1>1. \A j \in DOMAIN graphs : graphs[j].nodes \in Seq(NodeRecords)
  <2>1. \A j \in DOMAIN graphs : graphs[j] \in GraphRecords
    OBVIOUS
  <2> QED BY <2>1 DEF GraphRecords
<1>2. Exports(graphs, path, name) = UNION {LastId(graphs[j].nodes, kinds, name) : j \in at}
  BY DEF Exports
<1>3. at \subseteq DOMAIN graphs
  OBVIOUS
<1> HIDE DEF at, kinds
<1>4. \A j \in at : /\ LastId(graphs[j].nodes, kinds, name) \subseteq
                          {n.id : n \in {m \in Range(graphs[j].nodes) : m.kind \in kinds /\ m.name = name}}
                    /\ (\E m \in Range(graphs[j].nodes) : m.kind \in kinds /\ m.name = name)
                          => LastId(graphs[j].nodes, kinds, name) # {}
  BY <1>1, <1>3, LastIdIs
<1>5. ASSUME NEW x \in Exports(graphs, path, name) PROVE x \in {n.id : n \in exported}
  <2>1. PICK j \in at : x \in LastId(graphs[j].nodes, kinds, name)
    BY <1>2
  <2>2. PICK m \in Range(graphs[j].nodes) : m.kind \in kinds /\ m.name = name /\ x = m.id
    BY <1>4, <2>1
  <2>3. m \in exported
    BY <2>1, <2>2
  <2> HIDE DEF exported
  <2> QED BY <2>2, <2>3
<1>6. ASSUME exported # {} PROVE Exports(graphs, path, name) # {}
  <2>1. PICK m : m \in exported
    BY <1>6
  <2>2. PICK j \in at : m \in Range(graphs[j].nodes)
    BY <2>1
  <2>3. LastId(graphs[j].nodes, kinds, name) # {}
    BY <1>4, <2>1, <2>2
  <2> QED BY <1>2, <2>2, <2>3
<1> QED BY <1>5, <1>6 DEF at, kinds

\* A relative import is resolved by Python's rules, and never to the root.
LEMMA ModuleIs ==
  ASSUME NEW path \in DottedNames, NEW m, ProperImport(path, m)
  PROVE  LET module == IF m.level = 0 THEN m.module ELSE ResolveRelative(path, m.level, m.module) IN
         /\ module = IF m.level = 0 THEN m.module ELSE SubSeq(path, 1, Len(path) - m.level) \o m.module
         /\ module \in DottedNames
<1> DEFINE n == Len(path)
           package == Front(path)
           up == m.level - 1
           above == SubSeq(path, 1, n - m.level)
<1>1. path \in Seq(STRING) /\ path # <<>> /\ n \in Nat \ {0}
  BY DEF DottedNames
<1>2. m.level \in 0 .. n /\ m.module \in Seq(STRING) /\ (m.module = <<>> => m.level \in 1 .. n - 1)
  BY DEF ProperImport
<1>3. CASE m.level = 0
  BY <1>2, <1>3 DEF DottedNames
<1>4. CASE m.level # 0
  <2>1. m.level \in 1 .. n /\ up \in 0 .. n - 1
    BY <1>1, <1>2, <1>4
  <2>2. package = SubSeq(path, 1, n - 1) /\ package \in Seq(STRING) /\ Len(package) = n - 1
    <3>1. package = SubSeq(path, 1, n - 1)
      BY DEF Front
    <3>2. SubSeq(path, 1, n - 1) \in Seq(STRING) /\ Len(SubSeq(path, 1, n - 1)) = n - 1
      <4>1. \A i \in 1 .. n - 1 : path[i] \in STRING
        BY <1>1
      <4>2. PICK up1 \in Nat : up1 = n - 1
        BY <1>1
      <4>3. \A i \in 1 .. up1 : path[i] \in STRING
        BY <4>1, <4>2
      <4>4. SubSeq(path, 1, up1) \in Seq(STRING) /\ Len(SubSeq(path, 1, up1)) = up1
        BY <1>1, <4>2, <4>3
      <4> HIDE DEF n
      <4> QED BY <4>2, <4>4
    <3> HIDE DEF package
    <3> QED BY <3>1, <3>2
  <2>3. above \in Seq(STRING) /\ Len(above) = n - m.level
    BY <1>1, <2>1
  <2>4. (IF up >= Len(package) THEN <<>> ELSE SubSeq(package, 1, Len(package) - up)) = above
    <3>1. CASE up >= Len(package)
      <4>1. m.level = n
        BY <1>1, <2>1, <2>2, <3>1
      <4> QED BY <1>1, <2>3, <3>1, <4>1
    <3>2. CASE ~(up >= Len(package))
      <4>1. /\ 1 \in 1 .. Len(path) /\ n - 1 \in 1 .. Len(path)
            /\ 1 \in 1 .. (n - 1) - 1 + 1 /\ n - m.level \in 1 .. (n - 1) - 1 + 1
            /\ Len(package) - up = n - m.level
        BY <1>1, <2>1, <2>2, <3>2
      <4>2. SubSeq(SubSeq(path, 1, n - 1), 1, n - m.level) = SubSeq(path, 1 + 1 - 1, 1 + (n - m.level) - 1)
        BY <1>1, <4>1, SubSeqOfSubSeq
      <4>3. 1 + 1 - 1 = 1 /\ 1 + (n - m.level) - 1 = n - m.level
        BY <1>1, <2>1
      <4> QED BY <2>2, <3>2, <4>1, <4>2, <4>3
    <3> QED BY <3>1, <3>2
  <2>5. ResolveRelative(path, m.level, m.module) = above \o m.module
    BY <2>4 DEF ResolveRelative
  <2>6. above \o m.module # <<>> /\ above \o m.module \in Seq(STRING)
    <3>1. Len(above \o m.module) = (n - m.level) + Len(m.module) /\ above \o m.module \in Seq(STRING)
      BY <1>2, <2>3
    <3>2. Len(above \o m.module) # 0
      <4>1. CASE m.module = <<>>
        BY <1>1, <1>2, <3>1, <4>1
      <4>2. CASE m.module # <<>>
        BY <1>1, <1>2, <2>1, <3>1, <4>2
      <4> QED BY <4>1, <4>2
    <3> DEFINE x == above \o m.module
    <3>3. x \in Seq(STRING) /\ Len(x) # 0
      BY <3>1, <3>2
    <3> HIDE DEF x
    <3>4. x # <<>>
      BY <3>3
    <3> QED BY <3>3, <3>4 DEF x
  <2> QED BY <1>4, <2>5, <2>6 DEF DottedNames
<1> QED BY <1>3, <1>4

LEMMA ModuleOfIs ==
  ASSUME NEW path \in DottedNames
  PROVE  path = ModuleOf(path) \/ path = Append(ModuleOf(path), "__init__")
<1>1. CASE Len(path) > 1 /\ Last(path) = "__init__"
  <2>1. path \in Seq(STRING) /\ Len(path) \in Nat
    BY DEF DottedNames
  <2>2. ModuleOf(path) = SubSeq(path, 1, Len(path) - 1) /\ path[Len(path)] = "__init__"
    BY <1>1 DEF ModuleOf, Front, Last
  <2>3. path = Append(SubSeq(path, 1, Len(path) - 1), path[Len(path)])
    BY <1>1, <2>1
  <2> QED BY <2>2, <2>3
<1>2. CASE ~(Len(path) > 1 /\ Last(path) = "__init__")
  BY <1>2 DEF ModuleOf
<1> QED BY <1>1, <1>2

LEMMA FromModuleIs ==
  ASSUME NEW graphs \in Seq(GraphRecords), \A i \in DOMAIN graphs : graphs[i].file \in DottedNames,
         NEW path \in DottedNames, NEW m, ProperImport(path, m), NEW name
  PROVE  LET away == Imported(graphs, path, m)
             exported == {n \in UNION {Range(graphs[j].nodes) : j \in {l \in DOMAIN graphs : graphs[l].file \in away}} :
                            n.kind \in {"class", "function"} /\ n.name = name}
         IN  /\ FromModule(graphs, path, m, name) \subseteq {n.id : n \in exported}
             /\ exported # {} => FromModule(graphs, path, m, name) # {}
<1> DEFINE module == IF m.level = 0 THEN m.module ELSE ResolveRelative(path, m.level, m.module)
           package == Append(module, "__init__")
           away == Imported(graphs, path, m)
           known == {i \in DOMAIN graphs : ModuleOf(graphs[i].file) = module}
           first == IF known = {} THEN <<>> ELSE <<graphs[Max(known)].file>>
           tried == first \o <<module, package>>
           hits == {i \in DOMAIN tried : Exports(graphs, tried[i], name) # {}}
           Of(f) == {n \in UNION {Range(graphs[j].nodes) : j \in {l \in DOMAIN graphs : graphs[l].file = f}} :
                       n.kind \in {"class", "function"} /\ n.name = name}
           exported == {n \in UNION {Range(graphs[j].nodes) : j \in {l \in DOMAIN graphs : graphs[l].file \in away}} :
                          n.kind \in {"class", "function"} /\ n.name = name}
<1>1. FromModule(graphs, path, m, name) =
        IF module = <<>> \/ hits = {} THEN {} ELSE Exports(graphs, tried[Min(hits)], name)
  BY DEF FromModule
<1>2. module \in DottedNames
  BY ModuleIs
<1>3. away = {f \in {graphs[i].file : i \in DOMAIN graphs} : f = module \/ f = package}
  BY ModuleIs DEF Imported
<1> HIDE DEF module, away
<1>4. \A f : Exports(graphs, f, name) \subseteq {n.id : n \in Of(f)} /\ (Of(f) # {} => Exports(graphs, f, name) # {})
  BY ExportsIs
<1>5. module # <<>>
  BY <1>2 DEF DottedNames
<1>6. ASSUME known # {} PROVE graphs[Max(known)].file \in {module, package}
  <2>1. Max(known) \in known
    <3>1. known \in SUBSET (1 .. Len(graphs)) /\ Len(graphs) \in Nat
      OBVIOUS
    <3> HIDE DEF known
    <3> QED BY <1>6, <3>1, MaxIs
  <2>2. Max(known) \in DOMAIN graphs /\ ModuleOf(graphs[Max(known)].file) = module
    <3> DEFINE at == Max(known)
    <3>1. at \in known
      BY <2>1
    <3> HIDE DEF at
    <3> QED BY <3>1 DEF at
  <2> HIDE DEF known
  <2> QED BY <2>2, ModuleOfIs
<1>7. first \in Seq({module, package}) /\ \A i \in DOMAIN first : first[i] \in {module, package}
  <2>1. CASE known = {}
    BY <2>1
  <2>2. CASE known # {}
    <3>1. first = <<graphs[Max(known)].file>>
      BY <2>2
    <3> DEFINE last == graphs[Max(known)].file
    <3>2. last \in {module, package} /\ first = <<last>>
      BY <1>6, <2>2, <3>1
    <3> HIDE DEF first, known, last, package
    <3> QED BY <3>2
  <2> QED BY <2>1, <2>2
<1> HIDE DEF first, package
<1>8. /\ Len(tried) \in Nat /\ DOMAIN tried = 1 .. Len(tried)
      /\ \A i \in DOMAIN tried : tried[i] \in {module, package}
      /\ \A f \in {module, package} : \E i \in DOMAIN tried : tried[i] = f
  <2> DEFINE last == <<module, package>>
  <2>1. last \in Seq({module, package}) /\ Len(last) = 2 /\ last[1] = module /\ last[2] = package
    OBVIOUS
  <2> HIDE DEF last
  <2>2. tried = first \o last
    BY DEF last
  <2>3. Len(first) \in Nat /\ DOMAIN first = 1 .. Len(first)
    BY <1>7
  <2>4. Len(tried) = Len(first) + 2 /\ DOMAIN tried = 1 .. Len(first) + 2
    BY <1>7, <2>1, <2>2
  <2>5. tried[Len(first) + 1] = module /\ tried[Len(first) + 2] = package
    BY <1>7, <2>1, <2>2, <2>3
  <2>6. \A i \in 1 .. Len(first) : tried[i] = first[i]
    BY <1>7, <2>1, <2>2
  <2> HIDE DEF tried
  <2>7. \A i \in DOMAIN tried : i \in 1 .. Len(first) \/ i = Len(first) + 1 \/ i = Len(first) + 2
    BY <2>3, <2>4
  <2>8. Len(first) + 1 \in DOMAIN tried /\ Len(first) + 2 \in DOMAIN tried
    BY <2>3, <2>4
  <2> QED BY <1>7, <2>3, <2>4, <2>5, <2>6, <2>7, <2>8
<1> HIDE DEF tried, Of
<1>9. ASSUME NEW f \in {module, package} PROVE Of(f) \subseteq exported
  <2>1. ASSUME NEW n \in Of(f) PROVE n \in exported
    <3>1. PICK j \in DOMAIN graphs : graphs[j].file = f /\ n \in Range(graphs[j].nodes)
      BY <2>1 DEF Of
    <3>2. graphs[j].file \in away
      BY <1>3, <3>1
    <3> QED BY <2>1, <3>1, <3>2 DEF Of
  <2> QED BY <2>1
<1>10. ASSUME NEW x \in FromModule(graphs, path, m, name) PROVE x \in {n.id : n \in exported}
  <2>1. hits # {} /\ x \in Exports(graphs, tried[Min(hits)], name)
    BY <1>1, <1>10
  <2>2. Min(hits) \in hits
    <3>1. hits \in SUBSET Nat
      BY <1>8
    <3> HIDE DEF hits
    <3> QED BY <2>1, <3>1, MinIs
  <2>3. Min(hits) \in DOMAIN tried
    <3> DEFINE at == Min(hits)
    <3>1. at \in hits
      BY <2>2
    <3> HIDE DEF at
    <3> QED BY <3>1 DEF at
  <2>4. tried[Min(hits)] \in {module, package}
    BY <1>8, <2>3
  <2>5. x \in {n.id : n \in Of(tried[Min(hits)])}
    BY <1>4, <2>1
  <2>6. Of(tried[Min(hits)]) \subseteq exported
    BY <1>9, <2>4
  <2> HIDE DEF exported, hits
  <2> QED BY <2>5, <2>6
<1>11. ASSUME exported # {} PROVE FromModule(graphs, path, m, name) # {}
  <2>1. PICK n : n \in exported
    BY <1>11
  <2>2. PICK j \in DOMAIN graphs : graphs[j].file \in away /\ n \in Range(graphs[j].nodes)
    BY <2>1
  <2>3. n \in Of(graphs[j].file)
    BY <2>1, <2>2 DEF Of
  <2>4. graphs[j].file \in {module, package}
    BY <1>3, <2>2
  <2>5. PICK i \in DOMAIN tried : tried[i] = graphs[j].file
    BY <1>8, <2>4
  <2>6. i \in hits
    BY <1>4, <2>3, <2>5
  <2>7. Min(hits) \in hits
    <3>1. hits \in SUBSET Nat
      BY <1>8
    <3> HIDE DEF hits
    <3> QED BY <2>6, <3>1, MinIs
  <2>8. Exports(graphs, tried[Min(hits)], name) # {}
    <3> DEFINE at == Min(hits)
    <3>1. at \in hits
      BY <2>7
    <3> HIDE DEF at
    <3> QED BY <3>1 DEF at
  <2>9. hits # {}
    BY <2>6
  <2> HIDE DEF hits, tried
  <2> QED BY <1>1, <1>5, <2>8, <2>9
<1> HIDE DEF known, hits
<1> QED BY <1>10, <1>11 DEF away

\* The last import that binds a name, among the edges of a file's imports.
LEMMA LatestIs ==
  ASSUME NEW s, ProperPythonFile(s), NEW simple
  PROVE  LET binding == {i \in DOMAIN s.imports :
                           "def" \notin s.imports[i].under /\ simple \in Bound(s.imports[i])}
             found == {m \in ImportEdges(s.imports) : simple \in Bound(m)}
             latest == LatestOf(found)
         IN  /\ found = {} <=> binding = {}
             /\ found # {} => /\ latest.level = s.imports[Max(binding)].level
                              /\ latest.module = s.imports[Max(binding)].module
                              /\ ProperImport(s.file, latest)
<1> DEFINE top == {j \in DOMAIN s.imports : "def" \notin s.imports[j].under}
           binding == {i \in DOMAIN s.imports :
                         "def" \notin s.imports[i].under /\ simple \in Bound(s.imports[i])}
           found == {m \in ImportEdges(s.imports) : simple \in Bound(m)}
           latest == LatestOf(found)
           E(i) == [at |-> i, level |-> s.imports[i].level, module |-> s.imports[i].module,
                    names |-> s.imports[i].names, alias |-> s.imports[i].alias,
                    flags |-> s.imports[i].under \intersect {"type_checking", "try", "platform"}]
           at == Max(binding)
<1>1. /\ Len(s.imports) \in Nat /\ DOMAIN s.imports = 1 .. Len(s.imports)
      /\ \A i \in DOMAIN s.imports : ProperImport(s.file, s.imports[i])
  BY DEF ProperPythonFile
<1>2. ImportEdges(s.imports) = {E(i) : i \in top}
  BY DEF ImportEdges
<1>3. \A i : /\ E(i).at = i /\ E(i).level = s.imports[i].level /\ E(i).module = s.imports[i].module
             /\ E(i).names = s.imports[i].names /\ E(i).alias = s.imports[i].alias
  OBVIOUS
<1> HIDE DEF E
<1>4. \A i : Bound(E(i)) = Bound(s.imports[i]) /\ (ProperImport(s.file, E(i)) <=> ProperImport(s.file, s.imports[i]))
  BY <1>3 DEF Bound, ProperImport
<1>5. \A i \in binding : E(i) \in found
  BY <1>2, <1>4
<1>6. \A m \in found : \E i \in binding : m = E(i)
  BY <1>2, <1>4
<1>7. found = {} <=> binding = {}
  <2> HIDE DEF found, binding
  <2> QED BY <1>5, <1>6
<1>8. ASSUME found # {} PROVE latest = E(at) /\ at \in binding
  <2>1. at \in binding /\ \A y \in binding : at >= y
    <3>1. binding \in SUBSET (1 .. Len(s.imports))
      BY <1>1
    <3> HIDE DEF binding, found
    <3> QED BY <1>1, <1>7, <1>8, <3>1, MaxIs
  <2>2. binding \subseteq Nat
    BY <1>1
  <2> HIDE DEF binding, found, at
  <2>3. E(at) \in found /\ \A n \in found : n.at <= E(at).at
    BY <1>3, <1>5, <1>6, <2>1, <2>2
  <2>4. latest \in found /\ \A n \in found : n.at <= latest.at
    BY <2>3 DEF LatestOf
  <2>5. PICK i \in binding : latest = E(i)
    BY <1>6, <2>4
  <2>6. i >= at /\ at >= i /\ i \in Nat /\ at \in Nat
    BY <1>3, <2>1, <2>2, <2>3, <2>4, <2>5
  <2> QED BY <2>1, <2>5, <2>6
<1>9. ASSUME found # {}
      PROVE  /\ latest.level = s.imports[at].level /\ latest.module = s.imports[at].module
             /\ ProperImport(s.file, latest)
  <2>1. at \in DOMAIN s.imports
    <3>1. binding \subseteq DOMAIN s.imports
      OBVIOUS
    <3> HIDE DEF binding, found, at
    <3> QED BY <1>8, <1>9, <3>1
  <2> HIDE DEF at, latest, found
  <2> QED BY <1>1, <1>3, <1>4, <1>8, <1>9, <2>1
<1> HIDE DEF latest, at, found, binding
<1> QED BY <1>7, <1>9 DEF latest, at, found, binding

\* A name is resolved to what it may stand for.
LEMMA ResolveNameIs ==
  ASSUME NEW graphs \in Seq(GraphRecords), NEW files,
         \A f \in DOMAIN graphs : ProperPythonFile(files[f]) /\ GraphFits(graphs[f], files[f]),
         NEW f \in DOMAIN graphs, NEW e \in EdgeRecords
  PROVE  LET meant == LocalMeanings(graphs[f], e.name) \union ImportedMeanings(files[f], graphs, e.name)
         IN  /\ ResolveName(graphs, graphs[f], e) \subseteq {n.id : n \in meant}
             /\ Len(e.name) = 1 /\ e.name[1] \notin Builtins /\ meant # {}
                  => ResolveName(graphs, graphs[f], e) # {}
<1> DEFINE g == graphs[f]
           s == files[f]
           name == e.name
           simple == name[1]
           last == Last(name)
           binding == {i \in DOMAIN s.imports :
                         "def" \notin s.imports[i].under /\ simple \in Bound(s.imports[i])}
           found == {m \in ImportEdges(s.imports) : simple \in Bound(m)}
           latest == LatestOf(found)
           mine == LocalDefs(g, simple)
           near == LocalMeanings(g, name)
           far == ImportedMeanings(s, graphs, name)
           away == Imported(graphs, s.file, latest)
           exported == {n \in UNION {Range(graphs[j].nodes) : j \in {l \in DOMAIN graphs : graphs[l].file \in away}} :
                          n.kind \in {"class", "function"} /\ n.name = last}
           ids == ResolveName(graphs, g, e)
<1>1. /\ name \in Seq(STRING) /\ name # <<>> /\ Len(name) \in Nat \ {0}
      /\ (Len(name) = 1 => name = <<simple>> /\ last = simple)
  BY DEF EdgeRecords, DottedNames, Last
<1>2. ProperPythonFile(s) /\ GraphFits(g, s) /\ s.file \in DottedNames /\ g.file = s.file
      /\ g.imports = ImportEdges(s.imports)
  BY DEF ProperPythonFile, GraphFits
<1>3. \A i \in DOMAIN graphs : graphs[i].file \in DottedNames
  BY DEF ProperPythonFile, GraphFits
<1>4. ImportsOf(g, simple) = found
  BY <1>2 DEF ImportsOf
<1>5. \/ ids = {}
      \/ Len(name) = 1 /\ simple \notin Builtins /\ mine # {} /\ ids = mine
      \/ found # {} /\ ~(Len(name) > 2) /\ ids = FromModule(graphs, s.file, latest, last)
  <2> HIDE DEF mine, found, last, simple
  <2>1. ids = CASE e.kind = "call" /\ Len(name) > 1 /\ simple \in {"self", "cls"} -> {}
                [] Len(name) = 1 /\ simple \in Builtins -> {}
                [] Len(name) = 1 /\ simple \notin Builtins /\ mine # {} -> mine
                [] OTHER -> IF found = {} \/ Len(name) > 2 THEN {}
                            ELSE FromModule(graphs, s.file, LatestOf(found), last)
    BY <1>2, <1>4 DEF ResolveName, mine, simple, last
  <2> HIDE DEF ids
  <2> QED BY <2>1
<1>6. ASSUME Len(name) = 1, simple \notin Builtins
      PROVE  ids = IF mine # {} THEN mine ELSE IF found = {} THEN {} ELSE FromModule(graphs, s.file, latest, last)
  <2> HIDE DEF mine, found, last, simple
  <2>1. ids = CASE e.kind = "call" /\ Len(name) > 1 /\ simple \in {"self", "cls"} -> {}
                [] Len(name) = 1 /\ simple \in Builtins -> {}
                [] Len(name) = 1 /\ simple \notin Builtins /\ mine # {} -> mine
                [] OTHER -> IF found = {} \/ Len(name) > 2 THEN {}
                            ELSE FromModule(graphs, s.file, LatestOf(found), last)
    BY <1>2, <1>4 DEF ResolveName, mine, simple, last
  <2> HIDE DEF ids, name
  <2> QED BY <1>6, <2>1
<1>7. /\ mine \subseteq {n.id : n \in {m \in Range(g.nodes) : m.kind \in {"class", "function", "method"} /\ m.name = simple}}
      /\ (\E m \in Range(g.nodes) : m.kind \in {"class", "function", "method"} /\ m.name = simple) => mine # {}
  <2>1. g.nodes \in Seq(NodeRecords)
    BY <1>2, GraphFacts
  <2> QED BY <2>1, LastIdIs DEF LocalDefs
<1>8. ASSUME Len(name) = 1 PROVE mine \subseteq {n.id : n \in near} /\ (near # {} => mine # {})
  <2>1. \A n \in Range(g.nodes) : n.kind \in {"file", "class", "function", "method"}
    <3>1. \A i \in DOMAIN g.nodes : g.nodes[i].kind \in {"file", "class", "function", "method"}
      BY <1>2, GraphFacts DEF NodeRecords
    <3> QED BY <3>1 DEF Range
  <2>2. near = {m \in Range(g.nodes) : m.kind \in {"class", "function", "method"} /\ m.name = simple}
    BY <1>1, <1>8, <2>1 DEF LocalMeanings
  <2> HIDE DEF near, mine
  <2> QED BY <1>7, <2>2
<1>9. /\ found = {} <=> binding = {}
      /\ found # {} => /\ latest.level = s.imports[Max(binding)].level
                       /\ latest.module = s.imports[Max(binding)].module
                       /\ ProperImport(s.file, latest)
  BY <1>2, LatestIs
<1>10. ASSUME found # {}, ~(Len(name) > 2) PROVE far = exported
  <2>1. Imported(graphs, s.file, s.imports[Max(binding)]) = away
    <3> HIDE DEF binding, found, latest
    <3> QED BY <1>9, <1>10 DEF Imported
  <2> DEFINE reached == IF binding = {} \/ Len(name) > 2 THEN {}
                        ELSE Imported(graphs, s.file, s.imports[Max(binding)])
  <2>2. far = {n \in UNION {Range(graphs[j].nodes) : j \in {l \in DOMAIN graphs : graphs[l].file \in reached}} :
                 n.kind \in {"class", "function"} /\ n.name = last}
    BY DEF ImportedMeanings
  <2>3. reached = away
    <3> HIDE DEF away, binding, found
    <3> QED BY <1>9, <1>10, <2>1
  <2> HIDE DEF reached, away, far
  <2> QED BY <2>2, <2>3
<1>11. ASSUME found # {}
       PROVE  /\ FromModule(graphs, s.file, latest, last) \subseteq {n.id : n \in exported}
              /\ exported # {} => FromModule(graphs, s.file, latest, last) # {}
  <2>1. ProperImport(s.file, latest)
    <3> HIDE DEF found, latest, binding
    <3> QED BY <1>9, <1>11
  <2> HIDE DEF latest, last
  <2> QED BY <1>2, <1>3, <2>1, FromModuleIs
<1>12. (found = {} \/ Len(name) > 2) => far = {}
  <2>1. binding = {} \/ Len(name) > 2 => far = {}
    BY DEF ImportedMeanings
  <2> HIDE DEF found, far, binding
  <2> QED BY <1>9, <2>1
<1> HIDE DEF found, latest, mine, near, far, away, exported, ids, name, simple, last
<1>13. ids \subseteq {n.id : n \in near \union far}
  BY <1>5, <1>8, <1>10, <1>11
<1>14. ASSUME Len(name) = 1, simple \notin Builtins, near \union far # {} PROVE ids # {}
  BY <1>6, <1>8, <1>10, <1>11, <1>12, <1>14
<1> QED BY <1>13, <1>14 DEF ids, near, far, name, simple

LEMMA ResolveEdgeIs ==
  ASSUME NEW graphs \in Seq(GraphRecords), NEW files,
         \A f \in DOMAIN graphs : ProperPythonFile(files[f]) /\ GraphFits(graphs[f], files[f]),
         NEW f \in DOMAIN graphs, NEW k \in DOMAIN graphs[f].edges
  PROVE  LET found == graphs[f].edges[k]
             edge == ResolveEdge(graphs, graphs[f], found)
             meant == LocalMeanings(graphs[f], found.name) \union ImportedMeanings(files[f], graphs, found.name)
         IN  /\ edge \in EdgeRecords /\ edge.name = found.name /\ edge.source = found.source
             /\ edge.resolved => edge.target \in {n.id : n \in meant}
             /\ Len(found.name) = 1 /\ found.name[1] \notin Builtins /\ meant # {} => edge.resolved
<1> DEFINE g == graphs[f]
           found == g.edges[k]
           edge == ResolveEdge(graphs, g, found)
           near == LocalMeanings(g, found.name)
           far == ImportedMeanings(files[f], graphs, found.name)
           meant == near \union far
           ids == ResolveName(graphs, g, found)
           id == CHOOSE i \in ids : TRUE
<1>1. \A j \in DOMAIN graphs : graphs[j].nodes \in Seq(NodeRecords)
  BY GraphFacts
<1>2. found \in EdgeRecords /\ EdgeFits(g, found)
  <2>1. g.edges \in Seq(EdgeRecords) /\ g \in GraphRecords /\ EdgesFit(g)
    BY GraphFacts DEF GraphFits
  <2> QED BY <2>1, EdgesFitIs
<1> HIDE DEF found
<1>3. /\ ids \subseteq {n.id : n \in meant}
      /\ Len(found.name) = 1 /\ found.name[1] \notin Builtins /\ meant # {} => ids # {}
  BY <1>2, ResolveNameIs
<1>4. \A n \in meant : n.id \in Ids
  <2>1. \A j \in DOMAIN graphs : \A n \in Range(graphs[j].nodes) : n.id \in Ids
    <3>1. ASSUME NEW j \in DOMAIN graphs, NEW i \in DOMAIN graphs[j].nodes PROVE graphs[j].nodes[i].id \in Ids
      <4>1. graphs[j].nodes \in Seq(NodeRecords)
        BY <1>1
      <4>2. graphs[j].nodes[i] \in NodeRecords
        BY <4>1
      <4> QED BY <4>2 DEF NodeRecords
    <3> QED BY <3>1 DEF Range
  <2>2. \A n \in near : n.id \in Ids
    BY <2>1 DEF LocalMeanings
  <2>3. \A n \in far : \E j \in DOMAIN graphs : n \in Range(graphs[j].nodes)
    BY DEF ImportedMeanings
  <2> HIDE DEF near, far
  <2> QED BY <2>1, <2>2, <2>3
<1>5. edge = IF found.resolved \/ ids = {} THEN found ELSE Resolved(found, id)
  BY DEF ResolveEdge
<1>6. ids # {} => id \in ids
  OBVIOUS
<1> HIDE DEF edge, id, ids, meant
<1>7. CASE found.resolved
  <2>1. PICK i \in DOMAIN g.nodes : g.nodes[i].kind = "class" /\ g.nodes[i].id = found.target
                                    /\ found.name = <<g.nodes[i].name>>
    BY <1>2, <1>7 DEF EdgeFits
  <2>2. g.nodes[i] \in near
    BY <2>1 DEF LocalMeanings, Range
  <2>3. found.target \in {n.id : n \in meant}
    <3> HIDE DEF near, far
    <3> QED BY <2>1, <2>2 DEF meant
  <2> QED BY <1>2, <1>5, <1>7, <2>3 DEF found, edge, meant
<1>8. CASE ~found.resolved /\ ids = {}
  <2>1. edge = found
    BY <1>5, <1>8
  <2> QED BY <1>2, <1>3, <1>8, <2>1 DEF found, edge, meant
<1>9. CASE ~found.resolved /\ ids # {}
  <2>1. edge = [found EXCEPT !.resolved = TRUE, !.target = id]
    BY <1>5, <1>9 DEF Resolved
  <2>2. id \in Ids /\ id \in {n.id : n \in meant}
    BY <1>3, <1>4, <1>6, <1>9
  <2>3. /\ edge \in EdgeRecords /\ edge.name = found.name /\ edge.source = found.source
        /\ edge.resolved = TRUE /\ edge.target = id
    BY <1>2, <2>1, <2>2 DEF EdgeRecords
  <2> QED BY <2>2, <2>3 DEF found, edge, meant
<1> QED BY <1>7, <1>8, <1>9

(***************************************************************************)
(* The build of a project.                                                   *)
(***************************************************************************)
ResolvedEdges(graphs, g) == [k \in DOMAIN g.edges |-> ResolveEdge(graphs, g, g.edges[k])]

\* Every graph fits its file; names are resolved once all files are visited.
ProjectFits(files, a) ==
  /\ a \in [graphs : Seq(GraphRecords), resolved : Seq(Seq(EdgeRecords))]
  /\ Len(a.graphs) <= Len(files) /\ Len(a.resolved) <= Len(a.graphs)
  /\ \A f \in DOMAIN a.graphs : GraphFits(a.graphs[f], files[f])
  /\ \A f \in DOMAIN a.resolved : a.resolved[f] = ResolvedEdges(a.graphs, a.graphs[f])

ProjectInv ==
  /\ asked \in PythonProjects
  /\ answer # Nothing =>
       /\ ProjectFits(asked.files, answer)
       /\ answer.resolved # <<>> => FileVisited /\ FilesOpened = Len(asked.files)

LEMMA FilesAre ==
  ASSUME asked \in PythonProjects
  PROVE  /\ asked.kind = "project" /\ asked.files \in Seq(Range(asked.files))
         /\ Len(asked.files) \in Nat /\ DOMAIN asked.files = 1 .. Len(asked.files)
         /\ \A i \in DOMAIN asked.files : ProperPythonFile(asked.files[i])
BY PythonProjectsAreProper

LEMMA ProjectFacts ==
  ASSUME ProjectInv, answer # Nothing
  PROVE  /\ answer.graphs \in Seq(GraphRecords) /\ answer.resolved \in Seq(Seq(EdgeRecords))
         /\ DOMAIN answer.graphs = 1 .. Len(answer.graphs) /\ DOMAIN answer.resolved = 1 .. Len(answer.resolved)
         /\ Len(answer.graphs) \in Nat /\ Len(answer.resolved) \in Nat
         /\ Len(answer.graphs) <= Len(asked.files) /\ Len(answer.resolved) <= Len(answer.graphs)
         /\ \A f \in DOMAIN answer.graphs : /\ ProperPythonFile(asked.files[f])
                                            /\ GraphFits(answer.graphs[f], asked.files[f])
<1>1. asked \in PythonProjects /\ ProjectFits(asked.files, answer)
  BY DEF ProjectInv
<1>2. /\ answer.graphs \in Seq(GraphRecords) /\ answer.resolved \in Seq(Seq(EdgeRecords))
      /\ Len(answer.graphs) <= Len(asked.files) /\ Len(answer.resolved) <= Len(answer.graphs)
      /\ \A f \in DOMAIN answer.graphs : GraphFits(answer.graphs[f], asked.files[f])
  BY <1>1 DEF ProjectFits
<1> QED BY <1>1, <1>2, FilesAre

LEMMA BeginPythonKeepsProject == ProjectInv /\ BeginPython => ProjectInv'
<1> SUFFICES ASSUME ProjectInv, BeginPython PROVE ProjectInv'
  OBVIOUS
<1> DEFINE a == [graphs |-> <<>>, resolved |-> <<>>]
<1>1. answer' = a /\ asked' = asked /\ asked \in PythonProjects
  BY DEF BeginPython, Answer, ProjectInv
<1>2. a.graphs = <<>> /\ a.resolved = <<>> /\ a \in [graphs : Seq(GraphRecords), resolved : Seq(Seq(EdgeRecords))]
  OBVIOUS
<1> HIDE DEF a
<1>3. ProjectFits(asked.files, a)
  BY <1>1, <1>2, FilesAre DEF ProjectFits
<1> QED BY <1>1, <1>2, <1>3 DEF ProjectInv

LEMMA VisitModuleKeepsProject == ProjectInv /\ VisitModule => ProjectInv'
<1> SUFFICES ASSUME ProjectInv, VisitModule PROVE ProjectInv'
  OBVIOUS
<1> DEFINE n == Len(answer.graphs)
           g == FileGraph(asked.files[n + 1])
           a == [answer EXCEPT !.graphs = Append(@, g)]
<1>1. /\ answer # Nothing /\ n < Len(asked.files) /\ answer' = a /\ asked' = asked
      /\ asked \in PythonProjects /\ ProjectFits(asked.files, answer)
      /\ answer.resolved # <<>> => n = Len(asked.files)
  BY DEF VisitModule, ParsingProject, FilesOpened, ProjectInv
<1>2. n \in Nat /\ answer.graphs \in Seq(GraphRecords) /\ DOMAIN answer.graphs = 1 .. n
  BY <1>1, ProjectFacts
<1>3. answer.resolved = <<>>
  BY <1>1, <1>2, FilesAre
<1>4. GraphFits(g, asked.files[n + 1]) /\ g \in GraphRecords
  <2>1. ProperPythonFile(asked.files[n + 1])
    BY <1>1, <1>2, FilesAre
  <2> QED BY <2>1, FileGraphFits DEF GraphFits
<1> HIDE DEF g
<1>5. a.graphs = Append(answer.graphs, g) /\ a.resolved = <<>>
      /\ a \in [graphs : Seq(GraphRecords), resolved : Seq(Seq(EdgeRecords))]
  <2> DEFINE gs == Append(answer.graphs, g)
  <2>1. gs \in Seq(GraphRecords) /\ a = [answer EXCEPT !.graphs = gs]
    BY <1>2, <1>4
  <2>2. answer \in [graphs : Seq(GraphRecords), resolved : Seq(Seq(EdgeRecords))]
    BY <1>1 DEF ProjectFits
  <2> HIDE DEF gs, a
  <2>3. a.graphs = gs /\ a.resolved = answer.resolved /\ a \in [graphs : Seq(GraphRecords), resolved : Seq(Seq(EdgeRecords))]
    BY <2>1, <2>2
  <2> QED BY <1>3, <2>3 DEF gs
<1> HIDE DEF a
<1>6. /\ Len(a.graphs) = n + 1 /\ DOMAIN a.graphs = 1 .. n + 1 /\ a.graphs[n + 1] = g
      /\ \A f \in 1 .. n : a.graphs[f] = answer.graphs[f]
  BY <1>2, <1>4, <1>5
<1>7. \A f \in DOMAIN a.graphs : GraphFits(a.graphs[f], asked.files[f])
  <2> TAKE f \in DOMAIN a.graphs
  <2>1. f \in 1 .. n \/ f = n + 1
    BY <1>2, <1>6
  <2> QED BY <1>1, <1>2, <1>4, <1>6, <2>1 DEF ProjectFits
<1>8. Len(a.graphs) <= Len(asked.files) /\ Len(a.resolved) = 0 /\ DOMAIN a.resolved = {}
  BY <1>1, <1>2, <1>5, <1>6, FilesAre
<1>9. ProjectFits(asked.files, a)
  BY <1>2, <1>5, <1>6, <1>7, <1>8 DEF ProjectFits
<1> QED BY <1>1, <1>5, <1>9 DEF ProjectInv

LEMMA VisitDefinitionKeepsProject == ProjectInv /\ VisitDefinition => ProjectInv'
<1> SUFFICES ASSUME ProjectInv, VisitDefinition PROVE ProjectInv'
  OBVIOUS
<1> DEFINE n == Len(answer.graphs)
           old == answer.graphs[n]
           g == VisitDef(old, asked.files[n].defs[Len(old.nodes)])
           a == [answer EXCEPT !.graphs[n] = g]
<1>1. /\ answer # Nothing /\ n > 0 /\ ~(Len(old.nodes) > Len(asked.files[n].defs)) /\ answer' = a /\ asked' = asked
      /\ asked \in PythonProjects /\ ProjectFits(asked.files, answer)
      /\ answer.resolved = <<>>
  BY DEF VisitDefinition, ParsingProject, FilesOpened, FileVisited, ProjectInv
<1>2. n \in Nat /\ answer.graphs \in Seq(GraphRecords) /\ DOMAIN answer.graphs = 1 .. n /\ n \in DOMAIN answer.graphs
      /\ n <= Len(asked.files) /\ ProperPythonFile(asked.files[n]) /\ GraphFits(old, asked.files[n])
  BY <1>1, ProjectFacts
<1> HIDE DEF old
<1>3. Len(old.nodes) <= Len(asked.files[n].defs)
  BY <1>1, <1>2, GraphFacts
<1>4. GraphFits(g, asked.files[n]) /\ g \in GraphRecords
  BY <1>2, <1>3, VisitDefFits DEF GraphFits
<1> HIDE DEF g
<1>5. a.graphs = [answer.graphs EXCEPT ![n] = g] /\ a.resolved = <<>>
      /\ a \in [graphs : Seq(GraphRecords), resolved : Seq(Seq(EdgeRecords))]
  <2> DEFINE gs == [answer.graphs EXCEPT ![n] = g]
  <2>1. gs \in Seq(GraphRecords) /\ a = [answer EXCEPT !.graphs = gs]
    BY <1>2, <1>4
  <2>2. answer \in [graphs : Seq(GraphRecords), resolved : Seq(Seq(EdgeRecords))]
    BY <1>1 DEF ProjectFits
  <2> HIDE DEF gs, a
  <2>3. a.graphs = gs /\ a.resolved = answer.resolved /\ a \in [graphs : Seq(GraphRecords), resolved : Seq(Seq(EdgeRecords))]
    BY <2>1, <2>2
  <2> QED BY <1>1, <2>3 DEF gs
<1> HIDE DEF a
<1>6. Len(a.graphs) = n /\ DOMAIN a.graphs = 1 .. n /\ a.graphs[n] = g
      /\ \A f \in 1 .. n : f # n => a.graphs[f] = answer.graphs[f]
  BY <1>2, <1>4, <1>5
<1>7. \A f \in DOMAIN a.graphs : GraphFits(a.graphs[f], asked.files[f])
  BY <1>1, <1>2, <1>4, <1>6 DEF ProjectFits
<1>8. Len(a.graphs) <= Len(asked.files) /\ Len(a.resolved) = 0 /\ DOMAIN a.resolved = {}
  BY <1>2, <1>5, <1>6
<1>9. ProjectFits(asked.files, a)
  BY <1>2, <1>5, <1>6, <1>7, <1>8 DEF ProjectFits
<1> QED BY <1>1, <1>5, <1>9 DEF ProjectInv

LEMMA ResolveGraphKeepsProject == ProjectInv /\ ResolveGraph => ProjectInv'
<1> SUFFICES ASSUME ProjectInv, ResolveGraph PROVE ProjectInv'
  OBVIOUS
<1> DEFINE graphs == answer.graphs
           done == Len(answer.resolved)
           g == graphs[done + 1]
           edges == ResolvedEdges(graphs, g)
           a == [answer EXCEPT !.resolved = Append(@, edges)]
<1>1. /\ answer # Nothing /\ done < Len(graphs) /\ answer' = a /\ asked' = asked
      /\ FileVisited /\ FilesOpened = Len(asked.files)
      /\ asked \in PythonProjects /\ ProjectFits(asked.files, answer)
  BY DEF ResolveGraph, ParsingProject, FilesOpened, ProjectInv, ResolvedEdges
<1>2. /\ graphs \in Seq(GraphRecords) /\ DOMAIN graphs = 1 .. Len(graphs) /\ Len(graphs) \in Nat
      /\ answer.resolved \in Seq(Seq(EdgeRecords)) /\ DOMAIN answer.resolved = 1 .. done /\ done \in Nat
      /\ \A f \in DOMAIN graphs : ProperPythonFile(asked.files[f]) /\ GraphFits(graphs[f], asked.files[f])
  BY <1>1, ProjectFacts
<1>3. done + 1 \in DOMAIN graphs
  BY <1>1, <1>2
<1>4. edges \in Seq(EdgeRecords)
  <2>1. g.edges \in Seq(EdgeRecords)
    BY <1>2, <1>3, GraphFacts
  <2>2. \A k \in DOMAIN g.edges : ResolveEdge(graphs, g, g.edges[k]) \in EdgeRecords
    BY <1>2, <1>3, ResolveEdgeIs
  <2>3. edges = [k \in DOMAIN g.edges |-> ResolveEdge(graphs, g, g.edges[k])]
    BY DEF ResolvedEdges
  <2>4. DOMAIN g.edges = 1 .. Len(g.edges) /\ Len(g.edges) \in Nat
    BY <2>1
  <2> HIDE DEF g, edges, graphs
  <2> QED BY <2>2, <2>3, <2>4
<1>5. edges = ResolvedEdges(graphs, g)
  OBVIOUS
<1> HIDE DEF edges
<1>6. /\ a.graphs = graphs /\ a.resolved = Append(answer.resolved, edges)
      /\ a \in [graphs : Seq(GraphRecords), resolved : Seq(Seq(EdgeRecords))]
  <2> DEFINE rs == Append(answer.resolved, edges)
  <2>1. rs \in Seq(Seq(EdgeRecords)) /\ a = [answer EXCEPT !.resolved = rs]
    BY <1>2, <1>4
  <2>2. answer \in [graphs : Seq(GraphRecords), resolved : Seq(Seq(EdgeRecords))]
    BY <1>1 DEF ProjectFits
  <2> HIDE DEF rs, a
  <2>3. a.graphs = answer.graphs /\ a.resolved = rs /\ a \in [graphs : Seq(GraphRecords), resolved : Seq(Seq(EdgeRecords))]
    BY <2>1, <2>2
  <2> QED BY <2>3 DEF rs
<1> HIDE DEF a
<1>7. /\ Len(a.resolved) = done + 1 /\ DOMAIN a.resolved = 1 .. done + 1 /\ a.resolved[done + 1] = edges
      /\ \A f \in 1 .. done : a.resolved[f] = answer.resolved[f]
  BY <1>2, <1>4, <1>6
<1>8. \A f \in DOMAIN a.resolved : a.resolved[f] = ResolvedEdges(a.graphs, a.graphs[f])
  <2> TAKE f \in DOMAIN a.resolved
  <2>1. f \in 1 .. done \/ f = done + 1
    BY <1>2, <1>7
  <2>2. CASE f \in 1 .. done
    BY <1>1, <1>2, <1>6, <1>7, <2>2 DEF ProjectFits
  <2>3. CASE f = done + 1
    BY <1>5, <1>6, <1>7, <2>3
  <2> QED BY <2>1, <2>2, <2>3
<1>9. ProjectFits(asked.files, a)
  <2>1. Len(a.graphs) <= Len(asked.files)
    BY <1>1, <1>6 DEF ProjectFits
  <2>2. Len(a.resolved) <= Len(a.graphs)
    BY <1>1, <1>2, <1>6, <1>7
  <2>3. \A f \in DOMAIN a.graphs : GraphFits(a.graphs[f], asked.files[f])
    BY <1>2, <1>6
  <2> HIDE DEF graphs
  <2> QED BY <1>6, <1>8, <2>1, <2>2, <2>3 DEF ProjectFits
<1>10. (FileVisited /\ FilesOpened = Len(asked.files))'
  BY <1>1, <1>6 DEF FileVisited, FilesOpened
<1> QED BY <1>1, <1>9, <1>10 DEF ProjectInv

LEMMA ProjectAlways == PythonSpec => []ProjectInv
<1>1. AnyPythonProject => ProjectInv
  BY DEF AnyPythonProject, ProjectInv
<1>2. ASSUME ProjectInv, [BuildPython]_questionVars PROVE ProjectInv'
  <2>1. CASE BuildPython
    BY <1>2, <2>1, BeginPythonKeepsProject, VisitModuleKeepsProject, VisitDefinitionKeepsProject,
       ResolveGraphKeepsProject DEF BuildPython
  <2>2. CASE UNCHANGED questionVars
    BY <1>2, <2>2 DEF ProjectInv, FileVisited, FilesOpened, questionVars
  <2> QED BY <1>2, <2>1, <2>2
<1> QED BY <1>1, <1>2, PTL DEF PythonSpec

LEMMA MinIsOnly ==
  ASSUME NEW T \in SUBSET Nat, NEW c \in T, \A y \in T : c <= y
  PROVE  Min(T) = c
<1>1. Min(T) \in T /\ \A y \in T : Min(T) <= y
  BY MinIs
<1>2. Min(T) <= c /\ c <= Min(T) /\ Min(T) \in Nat /\ c \in Nat
  BY <1>1
<1> QED BY <1>2

\* The definition that has the name without a suffix.
LEMMA CanonicalIs ==
  ASSUME NEW g, NEW s, ProperPythonFile(s), GraphFits(g, s), NEW i \in 2 .. Len(g.nodes)
  PROVE  LET Same == {j \in 2 .. Len(g.nodes) : g.nodes[j].qual = g.nodes[i].qual}
             Real == {j \in Same : ~s.defs[j - 1].overload}
             canonical == IF Real = {} THEN Min(Same) ELSE Min(Real)
         IN  g.nodes[canonical].id = [file |-> g.file, qual |-> g.nodes[i].qual]
<1> DEFINE Same == {j \in 2 .. Len(g.nodes) : g.nodes[j].qual = g.nodes[i].qual}
           Real == {j \in Same : ~s.defs[j - 1].overload}
           canonical == IF Real = {} THEN Min(Same) ELSE Min(Real)
<1>1. Len(g.nodes) \in Nat
  BY GraphFacts
<1>2. \A j \in Same : g.nodes[j].overload = s.defs[j - 1].overload /\ j \in Nat
  BY <1>1 DEF GraphFits, NodesFit, NodeFits
<1>3. PICK c \in Same :
        /\ g.nodes[c].id = [file |-> g.file, qual |-> g.nodes[i].qual]
        /\ \A j \in Same : j < c => g.nodes[j].overload
        /\ g.nodes[c].overload => \A j \in Same : g.nodes[j].overload /\ c <= j
  <2>1. BasesFit(g)
    BY DEF GraphFits
  <2>2. PICK c \in DOMAIN g.nodes : CanonicalAt(g, c, g.nodes[i].qual)
    BY <2>1 DEF BasesFit
  <2> DEFINE q == g.nodes[i].qual
  <2> HIDE DEF q
  <2>3. CanonicalAt(g, c, q)
    BY <2>2 DEF q
  <2> QED BY <2>3 DEF CanonicalAt, q
<1>4. Same \in SUBSET Nat /\ Real \in SUBSET Nat
  BY <1>2
<1>5. canonical = c
  <2>1. CASE g.nodes[c].overload
    <3>1. Real = {} /\ \A y \in Same : c <= y
      BY <1>2, <1>3, <2>1
    <3> HIDE DEF Same, Real
    <3> QED BY <1>4, <3>1, MinIsOnly
  <2>2. CASE ~g.nodes[c].overload
    <3>1. c \in Real /\ \A y \in Real : c <= y
      BY <1>2, <1>3, <2>2
    <3> HIDE DEF Same, Real
    <3> QED BY <1>4, <3>1, MinIsOnly
  <2> QED BY <2>1, <2>2
<1> HIDE DEF canonical
<1>6. g.nodes[canonical].id = [file |-> g.file, qual |-> g.nodes[i].qual]
  BY <1>3, <1>5
<1> QED BY <1>6 DEF canonical

\* Every definition of a Python file has an id of its own, at its own line,
\* and the name without a suffix is that of the first real definition; the
\* edges stay among the nodes of the file until names are resolved.
THEOREM DefinitionsAlwaysKeepIds == PythonSpec => []DefinitionsKeepIds
<1>1. ASSUME ProjectInv PROVE DefinitionsKeepIds
  <2> SUFFICES ASSUME Answered("project"), NEW f \in DOMAIN answer.graphs
               PROVE  LET graph == answer.graphs[f]
                          nodes == graph.nodes
                          defs  == asked.files[f].defs
                          Same(i) == {j \in 2 .. Len(nodes) : nodes[j].qual = nodes[i].qual}
                          Real(i) == {j \in Same(i) : ~defs[j - 1].overload}
                          canonical(i) == IF Real(i) = {} THEN Min(Same(i)) ELSE Min(Real(i))
                          ids == {nodes[i].id : i \in DOMAIN nodes}
                      IN  /\ \A i, j \in DOMAIN nodes : nodes[i].id = nodes[j].id => i = j
                          /\ \A i \in 2 .. Len(nodes) :
                               /\ nodes[i].kind # "file" /\ nodes[i].name = defs[i - 1].name
                               /\ nodes[i].line = defs[i - 1].first
                               /\ nodes[canonical(i)].id = [file |-> graph.file, qual |-> nodes[i].qual]
                          /\ \A e \in Range(graph.edges) : e.source \in ids /\ e.target \in ids
    BY ZenonT(30) DEF DefinitionsKeepIds
  <2> DEFINE g == answer.graphs[f]
             s == asked.files[f]
  <2>1. ProperPythonFile(s) /\ GraphFits(g, s)
    BY <1>1, ProjectFacts DEF Answered
  <2> HIDE DEF g, s
  <2>2. \A i, j \in DOMAIN g.nodes : g.nodes[i].id = g.nodes[j].id => i = j
    BY <2>1, GraphFacts
  <2>3. \A i \in 2 .. Len(g.nodes) : /\ g.nodes[i].kind # "file" /\ g.nodes[i].name = s.defs[i - 1].name
                                     /\ g.nodes[i].line = s.defs[i - 1].first
    BY <2>1 DEF GraphFits, NodesFit, NodeFits
  <2>4. \A e \in Range(g.edges) : e.source \in IdsOf(g.nodes) /\ e.target \in IdsOf(g.nodes)
    BY <2>1 DEF GraphFits, EdgesFit, Range
  <2>5. ASSUME NEW i \in 2 .. Len(g.nodes)
        PROVE  LET Same == {j \in 2 .. Len(g.nodes) : g.nodes[j].qual = g.nodes[i].qual}
                   Real == {j \in Same : ~s.defs[j - 1].overload}
                   canonical == IF Real = {} THEN Min(Same) ELSE Min(Real)
               IN  g.nodes[canonical].id = [file |-> g.file, qual |-> g.nodes[i].qual]
    BY <2>1, CanonicalIs, ZenonT(30)
  <2> QED BY <2>2, <2>3, <2>4, <2>5 DEF g, s, IdsOf
<1> QED BY <1>1, ProjectAlways, PTL

\* A call or a base is resolved only to what its name may stand for in the
\* file, and a bare name whenever there is such a thing.
THEOREM CallsAlwaysResolveInScope == PythonSpec => []CallsResolveInScope
<1>1. ASSUME ProjectInv PROVE CallsResolveInScope
  <2> SUFFICES ASSUME Answered("project"), NEW f \in DOMAIN answer.resolved,
                      NEW k \in DOMAIN answer.graphs[f].edges
               PROVE  LET found == answer.graphs[f].edges[k]
                          edge  == answer.resolved[f][k]
                          meant == LocalMeanings(answer.graphs[f], found.name)
                                   \union ImportedMeanings(asked.files[f], answer.graphs, found.name)
                      IN  /\ edge.name = found.name /\ edge.source = found.source
                          /\ edge.resolved => edge.target \in {n.id : n \in meant}
                          /\ Len(found.name) = 1 /\ found.name[1] \notin Builtins /\ meant # {} => edge.resolved
    BY DEF CallsResolveInScope
  <2> DEFINE graphs == answer.graphs
             files == asked.files
  <2>1. answer # Nothing /\ ProjectFits(files, answer)
    BY <1>1 DEF Answered, ProjectInv
  <2>2. /\ graphs \in Seq(GraphRecords) /\ f \in DOMAIN graphs
        /\ \A l \in DOMAIN graphs : ProperPythonFile(files[l]) /\ GraphFits(graphs[l], files[l])
    BY <1>1, <2>1, ProjectFacts
  <2>3. answer.resolved[f][k] = ResolveEdge(graphs, graphs[f], graphs[f].edges[k])
    BY <2>1 DEF ProjectFits, ResolvedEdges
  <2> HIDE DEF graphs, files
  <2>4. LET found == graphs[f].edges[k]
            edge == ResolveEdge(graphs, graphs[f], found)
            meant == LocalMeanings(graphs[f], found.name) \union ImportedMeanings(files[f], graphs, found.name)
        IN  /\ edge \in EdgeRecords /\ edge.name = found.name /\ edge.source = found.source
            /\ edge.resolved => edge.target \in {n.id : n \in meant}
            /\ Len(found.name) = 1 /\ found.name[1] \notin Builtins /\ meant # {} => edge.resolved
    <3>1. k \in DOMAIN graphs[f].edges
      BY DEF graphs
    <3> QED BY <2>2, <3>1, ResolveEdgeIs
  <2> QED BY <2>3, <2>4 DEF graphs, files
<1> QED BY <1>1, ProjectAlways, PTL

(***************************************************************************)
(* Names and interfaces in Go.                                               *)
(***************************************************************************)
GoNodes ==
  [id : Ids, kind : STRING, name : STRING, path : DottedNames, line : Nat, overload : BOOLEAN,
   owner : STRING, methods : SUBSET STRING]
GoEdges ==
  [source : Ids, name : [sep : STRING, parts : DottedNames], kind : STRING, resolved : BOOLEAN, target : Ids]

LEMMA PickedOf ==
  ASSUME NEW nodes \in Seq(GoNodes), NEW at \in SUBSET (DOMAIN nodes)
  PROVE  /\ FirstOf(nodes, at) \subseteq {nodes[i].id : i \in at} /\ (at # {} => FirstOf(nodes, at) # {})
         /\ LastOf(nodes, at) \subseteq {nodes[i].id : i \in at} /\ (at # {} => LastOf(nodes, at) # {})
<1>1. at \in SUBSET (1 .. Len(nodes)) /\ Len(nodes) \in Nat /\ at \in SUBSET Nat
  OBVIOUS
<1>2. at # {} => Min(at) \in at /\ Max(at) \in at
  BY <1>1, MinIs, MaxIs
<1> DEFINE min == Min(at)
           max == Max(at)
<1>3. /\ FirstOf(nodes, at) = IF at = {} THEN {} ELSE {nodes[min].id}
      /\ LastOf(nodes, at) = IF at = {} THEN {} ELSE {nodes[max].id}
  BY DEF FirstOf, LastOf
<1> HIDE DEF min, max
<1> QED BY <1>2, <1>3 DEF min, max

LEMMA PrefixIs ==
  ASSUME NEW a \in Seq(STRING), NEW p \in Seq(STRING)
  PROVE  /\ IsStrictPrefix(a, p) => a \o SubSeq(p, Len(a) + 1, Len(p)) = p
         /\ \A d \in Seq(STRING) : a \o d = p => /\ SubSeq(p, Len(a) + 1, Len(p)) = d
                                                /\ (p # a => IsStrictPrefix(a, p))
<1> DEFINE n == Len(a)
           tail == SubSeq(p, n + 1, Len(p))
<1>1. n \in Nat /\ Len(p) \in Nat
  OBVIOUS
<1>2. ASSUME IsStrictPrefix(a, p) PROVE a \o tail = p
  <2>1. n <= Len(p) /\ SubSeq(a, 1, n) = SubSeq(p, 1, n)
    BY <1>2 DEF IsStrictPrefix, IsPrefix
  <2>2. \A i \in 1 .. n : a[i] = p[i]
    <3>1. \A i \in 1 .. n : SubSeq(a, 1, n)[i] = a[i] /\ SubSeq(p, 1, n)[i] = p[i]
      BY <1>1, <2>1
    <3> QED BY <2>1, <3>1
  <2>3. /\ tail \in Seq(STRING) /\ Len(tail) = Len(p) - n
        /\ \A i \in 1 .. Len(p) - n : tail[i] = p[n + i]
    BY <1>1, <2>1
  <2> HIDE DEF tail
  <2>4. a \o tail \in Seq(STRING) /\ Len(a \o tail) = Len(p)
    BY <1>1, <2>1, <2>3
  <2>5. \A i \in 1 .. Len(p) : (a \o tail)[i] = p[i]
    <3> TAKE i \in 1 .. Len(p)
    <3>1. CASE i <= n
      BY <1>1, <2>2, <2>3, <3>1
    <3>2. CASE ~(i <= n)
      <4>1. i - n \in 1 .. Len(p) - n /\ n + (i - n) = i
        BY <1>1, <2>1, <3>2
      <4>2. (a \o tail)[i] = tail[i - n]
        BY <1>1, <2>3, <3>2, <4>1
      <4> QED BY <2>3, <4>1, <4>2
    <3> QED BY <3>1, <3>2
  <2> DEFINE whole == a \o tail
  <2>6. whole \in Seq(STRING) /\ Len(whole) = Len(p) /\ \A i \in 1 .. Len(p) : whole[i] = p[i]
    BY <2>4, <2>5
  <2> HIDE DEF whole
  <2>7. whole = p
    BY <2>6
  <2> QED BY <2>7 DEF whole
<1>3. ASSUME NEW d \in Seq(STRING), a \o d = p
      PROVE  tail = d /\ (p # a => IsStrictPrefix(a, p))
  <2>1. /\ Len(p) = n + Len(d) /\ Len(d) \in Nat
        /\ (\A i \in 1 .. n : p[i] = a[i]) /\ (\A i \in 1 .. Len(d) : p[n + i] = d[i])
    BY <1>1, <1>3
  <2>2. tail \in Seq(STRING) /\ Len(tail) = Len(d) /\ \A i \in 1 .. Len(d) : tail[i] = p[n + i]
    BY <1>1, <2>1
  <2> HIDE DEF tail
  <2>3. tail = d
    BY <2>1, <2>2
  <2>4. SubSeq(a, 1, n) = SubSeq(p, 1, n)
    <3> DEFINE x == SubSeq(a, 1, n)
               y == SubSeq(p, 1, n)
    <3>1. x \in Seq(STRING) /\ Len(x) = n /\ \A i \in 1 .. n : x[i] = a[i]
      BY <1>1
    <3>2. y \in Seq(STRING) /\ Len(y) = n /\ \A i \in 1 .. n : y[i] = p[i]
      BY <1>1, <2>1
    <3> HIDE DEF x, y
    <3>3. x = y
      BY <2>1, <3>1, <3>2
    <3> QED BY <3>3 DEF x, y
  <2> QED BY <1>1, <2>1, <2>3, <2>4 DEF IsStrictPrefix, IsPrefix
<1> QED BY <1>2, <1>3

\* No import is of the module's root package, and no two stand under one
\* name, blank ones included, but for one package.
ImportsApart(imports, module) ==
  /\ \A i \in DOMAIN imports : imports[i].path # module
  /\ \A i, j \in DOMAIN imports : GoName(imports[i]) = GoName(imports[j]) => imports[i].path = imports[j].path

LEMMA GoResolveIs ==
  ASSUME NEW nodes \in Seq(GoNodes), NEW settings, settings.module \in Seq(STRING),
         NEW unit, unit.imports \in Seq(Range(unit.imports)),
         \A i \in DOMAIN unit.imports : unit.imports[i].path \in Seq(STRING),
         NEW name, name.parts \in DottedNames
  PROVE  LET ids == GoResolve(nodes, unit, settings.module, name)
             meaning == GoMeaning(settings, unit, name.parts, Range(nodes))
         IN  /\ ids \subseteq {n.id : n \in meaning}
             /\ meaning # {} /\ ImportsApart(unit.imports, settings.module) => ids # {}
<1> DEFINE ids == GoResolve(nodes, unit, settings.module, name)
           meaning == GoMeaning(settings, unit, name.parts, Range(nodes))
           parts == name.parts
           module == settings.module
           imports == unit.imports
           here == InPackage(nodes, Front(unit.file), parts[1])
           In(dir) == InPackage(nodes, dir, parts[2])
           mapped == {i \in DOMAIN imports : /\ module # <<>> /\ IsStrictPrefix(module, imports[i].path)
                                             /\ parts[1] = GoName(imports[i])}
           top == Max(mapped)
           path == imports[top].path
           dir == SubSeq(path, Len(module) + 1, Len(path))
<1>1. parts \in Seq(STRING) /\ Len(parts) \in Nat \ {0} /\ Last(parts) = parts[Len(parts)]
  BY DEF DottedNames, Last
<1>2. ids = IF Len(parts) = 1 THEN FirstOf(nodes, here)
            ELSE IF Len(parts) > 2 THEN {}
            ELSE UNION {LastOf(nodes, In(d)) : d \in GoImported(unit, module, parts[1])}
  BY DEF GoResolve
<1>3. GoImported(unit, module, parts[1]) = IF mapped = {} THEN {} ELSE {dir}
  BY DEF GoImported
<1>4. DOMAIN nodes = 1 .. Len(nodes) /\ \A i \in DOMAIN nodes : nodes[i] \in GoNodes
  OBVIOUS
<1>5. \A n \in Range(nodes) : n \in GoNodes /\ Front(n.path) \in Seq(STRING)
  <2>1. \A n \in Range(nodes) : n \in GoNodes
    BY <1>4 DEF Range
  <2>2. \A n \in GoNodes : n.path \in Seq(STRING) /\ n.path # <<>>
    BY DEF GoNodes, DottedNames
  <2>3. \A q \in Seq(STRING) : q # <<>> => Front(q) \in Seq(STRING)
    BY DEF Front
  <2> QED BY <2>1, <2>2, <2>3
<1>6. mapped # {} => top \in mapped
  <2>1. mapped \in SUBSET (1 .. Len(imports)) /\ Len(imports) \in Nat
    OBVIOUS
  <2> HIDE DEF mapped
  <2> QED BY <2>1, MaxIs
<1>7. CASE Len(parts) = 1
  <2>1. meaning = {n \in Range(nodes) : n.kind \in GoKinds /\ n.name = parts[1] /\ Front(n.path) = Front(unit.file)}
    BY <1>1, <1>7 DEF GoMeaning
  <2>2. here = {i \in DOMAIN nodes : nodes[i].kind \in GoKinds /\ Front(nodes[i].path) = Front(unit.file)
                                     /\ nodes[i].name = parts[1]}
    BY DEF InPackage
  <2>3. {nodes[i].id : i \in here} \subseteq {n.id : n \in meaning} /\ (meaning # {} => here # {})
    <3>1. \A i \in here : nodes[i] \in meaning
      BY <2>1, <2>2 DEF Range
    <3>2. \A n \in meaning : \E i \in here : n = nodes[i]
      BY <2>1, <2>2 DEF Range
    <3> HIDE DEF here, meaning
    <3> QED BY <3>1, <3>2
  <2>4. here \in SUBSET (DOMAIN nodes)
    BY <2>2
  <2>5. ids = FirstOf(nodes, here)
    BY <1>2, <1>7
  <2> HIDE DEF here, meaning, ids
  <2>6. ids \subseteq {n.id : n \in meaning} /\ (meaning # {} => ids # {})
    BY <2>3, <2>4, <2>5, PickedOf
  <2> QED BY <2>6 DEF ids, meaning
<1>8. CASE Len(parts) > 2
  <2>1. ids = {}
    <3> HIDE DEF ids
    <3> QED BY <1>1, <1>2, <1>8
  <2>2. \A n \in meaning : Len(parts) = 1 \/ Len(parts) = 2
    BY DEF GoMeaning
  <2> HIDE DEF ids, meaning
  <2>3. meaning = {}
    <3> DEFINE l == Len(parts)
    <3>1. ~(l = 1 \/ l = 2)
      BY <1>1, <1>8
    <3> HIDE DEF l
    <3> QED BY <2>2, <3>1 DEF l
  <2> QED BY <2>1, <2>3 DEF ids, meaning
<1>9. CASE Len(parts) = 2
  <2>1. meaning = {n \in Range(nodes) : n.kind \in GoKinds /\ n.name = parts[2] /\ module # <<>>
                     /\ \E m \in Range(imports) : module \o Front(n.path) = m.path /\ GoName(m) = parts[1]}
    BY <1>1, <1>9 DEF GoMeaning
  <2>2. In(dir) = {i \in DOMAIN nodes : nodes[i].kind \in GoKinds /\ Front(nodes[i].path) = dir
                                        /\ nodes[i].name = parts[2]}
    BY DEF InPackage
  <2>3. ids = IF mapped = {} THEN {} ELSE LastOf(nodes, In(dir))
    <3>1. ids = UNION {LastOf(nodes, In(d)) : d \in GoImported(unit, module, parts[1])}
      <4> HIDE DEF ids, In
      <4> QED BY <1>2, <1>9
    <3> DEFINE L(d) == LastOf(nodes, In(d))
    <3>2. UNION {L(d) : d \in {}} = {}
      OBVIOUS
    <3>3. \A e : UNION {L(d) : d \in {e}} = L(e)
      <4> HIDE DEF L
      <4> QED OBVIOUS
    <3>4. ids = UNION {L(d) : d \in GoImported(unit, module, parts[1])}
      BY <3>1
    <3>5. ids = IF mapped = {} THEN {} ELSE L(dir)
      <4> HIDE DEF ids, mapped, dir, L
      <4> QED BY <1>3, <3>2, <3>3, <3>4
    <3> QED BY <3>5
  <2>4. ASSUME mapped # {} PROVE \A i \in In(dir) : nodes[i] \in meaning
    <3>1. /\ top \in DOMAIN imports /\ module # <<>> /\ IsStrictPrefix(module, path) /\ parts[1] = GoName(imports[top])
      <4>1. top \in mapped
        BY <1>6, <2>4
      <4> HIDE DEF top
      <4> QED BY <4>1
    <3>2. module \o dir = path
      <4>1. path \in Seq(STRING)
        BY <3>1
      <4> HIDE DEF path
      <4> QED BY <3>1, <4>1, PrefixIs
    <3>3. imports[top] \in Range(imports)
      BY <3>1 DEF Range
    <3> HIDE DEF dir, top, meaning
    <3> QED BY <2>1, <2>2, <3>1, <3>2, <3>3 DEF Range
  <2>5. ASSUME NEW n \in meaning, ImportsApart(imports, module)
        PROVE  mapped # {} /\ \E i \in In(dir) : n = nodes[i]
    <3>1. PICK j \in DOMAIN imports : module \o Front(n.path) = imports[j].path /\ GoName(imports[j]) = parts[1]
      BY <2>1, <2>5 DEF Range
    <3>2. n \in Range(nodes) /\ n.kind \in GoKinds /\ n.name = parts[2] /\ module # <<>>
      BY <2>1, <2>5
    <3> DEFINE front == Front(n.path)
    <3>3. front \in Seq(STRING)
      BY <1>5, <3>2
    <3> HIDE DEF front
    <3>4. imports[j].path # module /\ imports[j].path \in Seq(STRING)
      BY <2>5 DEF ImportsApart
    <3>5. IsStrictPrefix(module, imports[j].path) /\ SubSeq(imports[j].path, Len(module) + 1, Len(imports[j].path)) = front
      <4> DEFINE p == imports[j].path
      <4>1. p \in Seq(STRING) /\ p # module /\ module \o front = p
        BY <3>1, <3>4 DEF front
      <4> HIDE DEF p
      <4>2. IsStrictPrefix(module, p) /\ SubSeq(p, Len(module) + 1, Len(p)) = front
        <5>1. module \in Seq(STRING)
          OBVIOUS
        <5> HIDE DEF module
        <5> QED BY <3>3, <4>1, <5>1, PrefixIs
      <4> QED BY <4>2 DEF p
    <3>6. j \in mapped
      BY <3>1, <3>2, <3>5
    <3>7. path = imports[j].path
      <4>1. top \in mapped
        BY <1>6, <3>6
      <4>2. top \in DOMAIN imports /\ GoName(imports[top]) = parts[1]
        <5> HIDE DEF top
        <5> QED BY <4>1
      <4> HIDE DEF top, mapped
      <4> QED BY <2>5, <3>1, <4>2 DEF ImportsApart
    <3>8. dir = front
      <4> HIDE DEF path
      <4> QED BY <3>5, <3>7
    <3>9. PICK i \in DOMAIN nodes : n = nodes[i]
      BY <3>2 DEF Range
    <3>10. i \in In(dir)
      <4> HIDE DEF dir, In
      <4> QED BY <2>2, <3>2, <3>8, <3>9 DEF front
    <3> QED BY <3>6, <3>9, <3>10
  <2>6. In(dir) \in SUBSET (DOMAIN nodes)
    BY <2>2
  <2> HIDE DEF mapped, In, dir, meaning, ids
  <2>7. LastOf(nodes, In(dir)) \subseteq {nodes[i].id : i \in In(dir)} /\ (In(dir) # {} => LastOf(nodes, In(dir)) # {})
    BY <2>6, PickedOf
  <2>8. ids \subseteq {n.id : n \in meaning}
    BY <2>3, <2>4, <2>7
  <2>9. meaning # {} /\ ImportsApart(imports, module) => ids # {}
    BY <2>3, <2>5, <2>7
  <2> QED BY <2>8, <2>9 DEF ids, meaning
<1>10. Len(parts) = 1 \/ Len(parts) = 2 \/ Len(parts) > 2
  <2> DEFINE l == Len(parts)
  <2>1. l \in Nat \ {0}
    BY <1>1
  <2> HIDE DEF l
  <2>2. l = 1 \/ l = 2 \/ l > 2
    BY <2>1
  <2> QED BY <2>2 DEF l
<1> HIDE DEF parts
<1> QED BY <1>7, <1>8, <1>9, <1>10

\* Whatever the files of a Go project: a call or an embedded type is resolved
\* only to a declaration its name may stand for, and always when there is one
\* and the imports of the file are apart.
THEOREM GoKeepsScopes ==
  ASSUME NEW nodes \in Seq(GoNodes), NEW settings, settings.lang = "go", settings.module \in Seq(STRING),
         NEW unit, unit.imports \in Seq(Range(unit.imports)),
         \A i \in DOMAIN unit.imports : unit.imports[i].path \in Seq(STRING),
         NEW edge \in GoEdges, ~edge.resolved
  PROVE  LET found == ResolveIn(settings, nodes, unit, edge)
             meaning == GoMeaning(settings, unit, edge.name.parts, Range(nodes))
         IN  /\ found.resolved => found.target \in {n.id : n \in meaning}
             /\ meaning # {} /\ ImportsApart(unit.imports, settings.module) => found.resolved
<1> DEFINE found == ResolveIn(settings, nodes, unit, edge)
           meaning == GoMeaning(settings, unit, edge.name.parts, Range(nodes))
           ids == GoResolve(nodes, unit, settings.module, edge.name)
           id == CHOOSE i \in ids : TRUE
<1>1. edge.name.parts \in DottedNames
  BY DEF GoEdges
<1>2. /\ ids \subseteq {n.id : n \in meaning}
      /\ meaning # {} /\ ImportsApart(unit.imports, settings.module) => ids # {}
  BY <1>1, GoResolveIs
<1>3. found = IF ids = {} THEN edge ELSE Resolved(edge, id)
  BY DEF ResolveIn
<1>4. ids # {} => id \in ids
  OBVIOUS
<1> HIDE DEF ids, id, found, meaning
<1>5. Resolved(edge, id).resolved = TRUE /\ Resolved(edge, id).target = id
  BY DEF Resolved, GoEdges
<1>6. /\ found.resolved => found.target \in {n.id : n \in meaning}
      /\ meaning # {} /\ ImportsApart(unit.imports, settings.module) => found.resolved
  BY <1>2, <1>3, <1>4, <1>5
<1> QED BY <1>6 DEF found, meaning

\* A struct of a Go project is said to implement exactly the interfaces of
\* the project whose methods its package declares on it, in whichever files,
\* when no package declares a type twice.
THEOREM GoImplementsIsExact ==
  ASSUME NEW nodes \in Seq(GoNodes),
         \A i, j \in DOMAIN nodes :
           nodes[i].kind \in {"struct", "interface"} /\ nodes[j].kind = nodes[i].kind
           /\ Front(nodes[j].path) = Front(nodes[i].path) /\ nodes[j].name = nodes[i].name => i = j
  PROVE  Implements(nodes) = GoImplements(Range(nodes))
<1> DEFINE N == Range(nodes)
           types(k) == {i \in DOMAIN nodes : nodes[i].kind = k /\ (k = "interface" => nodes[i].methods # {})}
           same(i) == {j \in types(nodes[i].kind) : /\ Front(nodes[j].path) = Front(nodes[i].path)
                                                     /\ nodes[j].name = nodes[i].name}
           has(i) == Provided(nodes, Front(nodes[i].path), nodes[i].name)
           Kind(k) == {n \in N : n.kind = k}
           Methods(s) == {n.name : n \in {m \in Kind("method") : m.owner = s.name /\ Front(m.path) = Front(s.path)}}
<1>1. DOMAIN nodes = 1 .. Len(nodes) /\ Len(nodes) \in Nat
  OBVIOUS
<1>2. \A i \in DOMAIN nodes : nodes[i] \in N
  BY DEF Range
<1>3. \A n \in N : \E i \in DOMAIN nodes : n = nodes[i]
  BY DEF Range
<1>4. \A i \in types("struct") \union types("interface") : i = Max(same(i))
  <2> TAKE i \in types("struct") \union types("interface")
  <2>1. same(i) = {i} /\ i \in 1 .. Len(nodes)
    BY <1>1
  <2>2. {i} \in SUBSET (1 .. Len(nodes)) /\ {i} # {}
    BY <2>1
  <2>3. Max({i}) \in {i}
    BY <1>1, <2>2, MaxIs
  <2> QED BY <2>1, <2>3
<1>5. \A i \in DOMAIN nodes : has(i) = Methods(nodes[i])
  BY DEF Provided
<1>6. Implements(nodes) = {<<nodes[p[1]].id, nodes[p[2]].id>> :
         p \in {q \in types("struct") \X types("interface") :
                  /\ q[1] = Max(same(q[1])) /\ q[2] = Max(same(q[2])) /\ Covers(has(q[1]), nodes[q[2]].methods)}}
  BY DEF Implements
<1>7. GoImplements(N) = {<<p[1].id, p[2].id>> :
         p \in {q \in Kind("struct") \X Kind("interface") :
                  q[2].methods # {} /\ q[2].methods \subseteq Methods(q[1])}}
  BY DEF GoImplements
<1> HIDE DEF has, Methods, same
<1>8. ASSUME NEW s \in types("struct"), NEW i \in types("interface"), nodes[i].methods \subseteq Methods(nodes[s])
      PROVE  <<nodes[s].id, nodes[i].id>> \in Implements(nodes)
  <2>1. Covers(has(s), nodes[i].methods)
    BY <1>5, <1>8 DEF Covers
  <2>2. s = Max(same(s)) /\ i = Max(same(i))
    BY <1>4
  <2> DEFINE q == <<s, i>>
  <2>3. q[1] = s /\ q[2] = i /\ q \in types("struct") \X types("interface")
    OBVIOUS
  <2> HIDE DEF q, types
  <2> QED BY <1>6, <2>1, <2>2, <2>3
<1>9. GoImplements(N) \subseteq Implements(nodes)
  <2> SUFFICES ASSUME NEW x \in GoImplements(N) PROVE x \in Implements(nodes)
    OBVIOUS
  <2>1. PICK p \in Kind("struct") \X Kind("interface") :
          p[2].methods # {} /\ p[2].methods \subseteq Methods(p[1]) /\ x = <<p[1].id, p[2].id>>
    <3> HIDE DEF Kind
    <3> QED BY <1>7
  <2>2. p[1] \in N /\ p[1].kind = "struct" /\ p[2] \in N /\ p[2].kind = "interface"
    OBVIOUS
  <2>3. PICK s \in DOMAIN nodes : p[1] = nodes[s]
    BY <1>3, <2>2
  <2>4. PICK i \in DOMAIN nodes : p[2] = nodes[i]
    BY <1>3, <2>2
  <2>5. s \in types("struct") /\ i \in types("interface")
    BY <2>1, <2>2, <2>3, <2>4
  <2> HIDE DEF types, N, Kind
  <2> QED BY <1>8, <2>1, <2>3, <2>4, <2>5
<1>10. Implements(nodes) \subseteq GoImplements(N)
  <2> SUFFICES ASSUME NEW x \in Implements(nodes) PROVE x \in GoImplements(N)
    OBVIOUS
  <2>1. PICK p \in types("struct") \X types("interface") :
          Covers(has(p[1]), nodes[p[2]].methods) /\ x = <<nodes[p[1]].id, nodes[p[2]].id>>
    <3> HIDE DEF types
    <3> QED BY <1>6
  <2> DEFINE s == nodes[p[1]]
             i == nodes[p[2]]
             q == <<s, i>>
  <2>2. /\ p[1] \in DOMAIN nodes /\ p[2] \in DOMAIN nodes /\ s.kind = "struct" /\ i.kind = "interface"
    OBVIOUS
  <2>3. s \in Kind("struct") /\ i \in Kind("interface")
    BY <1>2, <2>2
  <2>4. i.methods # {} /\ i.methods \subseteq Methods(s)
    BY <1>5, <2>1, <2>2 DEF Covers
  <2> HIDE DEF s, i, Kind, types, N
  <2>5. q[1] = s /\ q[2] = i /\ q \in Kind("struct") \X Kind("interface")
    BY <2>3
  <2>6. x = <<q[1].id, q[2].id>>
    BY <2>1, <2>5 DEF s, i
  <2> HIDE DEF q
  <2> QED BY <1>7, <2>4, <2>5, <2>6
<1> QED BY <1>9, <1>10
=============================================================================
