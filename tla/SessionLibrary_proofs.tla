------------------------ MODULE SessionLibrary_proofs -------------------------
(***************************************************************************)
(* Proofs about the library: who owns a .part file, what is listed, and      *)
(* what a viewer seeks in, for any connections, viewers, ids and recordings. *)
(***************************************************************************)
EXTENDS SessionLibrary, FiniteSetTheorems, TLAPS

Recording(c) == pc[c] = "recording"

TypeInv ==
    /\ DOMAIN pc = Conns /\ DOMAIN sid = Conns /\ DOMAIN broken = Conns
    /\ opened \in 0 .. MaxFiles
    /\ file \in [Conns -> (1 .. opened) \cup {None}]
    /\ part \in [Sids -> (1 .. opened) \cup {None}]
    /\ final \in [Sids -> (1 .. opened) \cup {None}]
    /\ published \in [Sids -> SUBSET (1 .. opened)]
    /\ lines \in [Recordings -> Nat] /\ torn \in [Recordings -> BOOLEAN]
    /\ DOMAIN row = Sids /\ DOMAIN seekable = Sids
    /\ DOMAIN loading = Viewers /\ DOMAIN index = Viewers /\ DOMAIN told = Viewers
    /\ \A c \in Conns : pc[c] # "free" => sid[c] \in Sids
    /\ ~up => \A c \in Conns : pc[c] = "free"

\* A recorder has the name of its session to itself, and its file with it.
OwnerInv ==
    /\ \A c \in Conns : Recording(c) => part[sid[c]] = file[c] /\ file[c] # None
    /\ \A c, d \in Conns : Recording(c) /\ Recording(d) /\ sid[c] = sid[d] => c = d
    /\ \A s, t \in Sids : part[s] = part[t] /\ part[s] # None => s = t
    /\ \A s \in Sids : part[s] # None =>
         part[s] \in orphans \/ \E c \in Conns : Recording(c) /\ sid[c] = s

\* What was published stays whole and is written by nobody.
PublishedInv ==
    /\ \A s \in Sids : \A f \in published[s] : lines[f] > 0 /\ ~torn[f]
    /\ \A s, t \in Sids : part[t] \notin published[s]
    /\ \A s \in Sids : final[s] # None => final[s] \in published[s]
    /\ \A s \in Sids : final[s] = None => published[s] = {}
    /\ \A c \in Conns : pc[c] = "saving" => file[c] \in published[sid[c]]

\* What is listed, indexed or told comes from a published file of that session.
ReadersInv ==
    /\ \A s \in Sids : row[s] # None => \E f \in published[s] : row[s] = lines[f]
    /\ \A s \in Sids : seekable[s] # None => seekable[s] \in published[s]
    /\ \A v \in Viewers : loading[v] # None => loading[v] \in Sids /\ final[loading[v]] # None
    /\ \A v \in Viewers : index[v] # None => loading[v] # None /\ index[v] \in published[loading[v]]
    /\ \A v \in Viewers : told[v] # None =>
         told[v].sid \in Sids /\ \E f \in published[told[v].sid] : told[v].total = lines[f]

LibInv == TypeInv /\ OwnerInv /\ PublishedInv /\ ReadersInv

LEMMA FilesAreRecordings ==
    ASSUME TypeInv PROVE 1 .. opened \subseteq Recordings /\ None \notin Recordings /\ opened \in Int
BY LibraryAssumption DEF TypeInv, Recordings

LEMMA InitInv == ASSUME Init PROVE LibInv
BY LibraryAssumption DEF Init, LibInv, TypeInv, OwnerInv, PublishedInv, ReadersInv, Recording, Recordings

(***************************************************************************)
(* A producer's connection.                                                  *)
(***************************************************************************)
\* Neither files nor readers are concerned.
LEMMA QuietKeeps ==
    ASSUME LibInv, NEW c \in Conns,
           (\E s \in Sids : StartSession(c, s)) \/ Skip(c) \/ \E s \in Sids \cup {None} : SaveFails(c, s)
    PROVE  LibInv'
<1>1. /\ UNCHANGED <<up, file, broken, opened, files, row, loads>>
      /\ DOMAIN pc' = Conns /\ DOMAIN sid' = Conns
      /\ \A d \in Conns \ {c} : pc'[d] = pc[d] /\ sid'[d] = sid[d]
      /\ ~Recording(c) /\ pc'[c] \in {"free", "opening"} /\ pc[c] \in {"free", "opening", "saving"}
      /\ pc'[c] = "opening" => sid'[c] \in Sids
      /\ up \/ pc' = [pc EXCEPT ![c] = "free"] \/ pc[c] = "saving"
  BY DEF LibInv, TypeInv, StartSession, Skip, SaveFails, Then, Recording
<1>2. TypeInv'
  BY <1>1 DEF LibInv, TypeInv, files, loads
<1>3. OwnerInv'
  BY <1>1 DEF LibInv, OwnerInv, Recording, files
<1>4. PublishedInv'
  BY <1>1 DEF LibInv, PublishedInv, files
<1>5. ReadersInv'
  BY <1>1 DEF LibInv, ReadersInv, files, loads
<1> QED BY <1>2, <1>3, <1>4, <1>5 DEF LibInv

LEMMA OpenKeeps == ASSUME LibInv, NEW c \in Conns, Open(c) PROVE LibInv'
<1> DEFINE n == opened + 1
<1>1. /\ n \in Recordings /\ opened' = n /\ n \notin 1 .. opened /\ sid[c] \in Sids
      /\ part[sid[c]] = None /\ n # None
      /\ 1 .. opened \subseteq 1 .. n /\ n \in 1 .. n
  BY LibraryAssumption DEF LibInv, TypeInv, Open, Recordings
<1>2. /\ part' = [part EXCEPT ![sid[c]] = n] /\ file' = [file EXCEPT ![c] = n]
      /\ pc' = [pc EXCEPT ![c] = "recording"] /\ DOMAIN broken' = Conns
      /\ UNCHANGED <<up, sid, final, lines, torn, published, orphans, row, loads>>
  BY DEF LibInv, TypeInv, Open
<1>3. up
  BY DEF LibInv, TypeInv, Open
<1> HIDE DEF n
<1>4. TypeInv'
  <2>1. opened' \in 0 .. MaxFiles
    BY <1>1 DEF Recordings
  <2>2. part' \in [Sids -> (1 .. n) \cup {None}] /\ file' \in [Conns -> (1 .. n) \cup {None}]
    BY <1>1, <1>2 DEF LibInv, TypeInv
  <2>3. final \in [Sids -> (1 .. n) \cup {None}] /\ published \in [Sids -> SUBSET (1 .. n)]
    BY <1>1 DEF LibInv, TypeInv
  <2> QED BY <1>1, <1>2, <1>3, <2>1, <2>2, <2>3 DEF LibInv, TypeInv, loads
<1>5. OwnerInv'
  <2>1. \A s \in Sids : part[s] # n
    BY <1>1 DEF LibInv, TypeInv
  <2>2. DOMAIN part = Sids /\ DOMAIN file = Conns /\ DOMAIN pc = Conns
    BY DEF LibInv, TypeInv
  <2>3. \A d \in Conns : Recording(d) => sid[d] \in Sids /\ sid[d] # sid[c]
    BY <1>1 DEF LibInv, TypeInv, OwnerInv, Recording
  <2> QED BY <1>1, <1>2, <2>1, <2>2, <2>3 DEF LibInv, OwnerInv, Recording
<1>6. PublishedInv'
  <2>1. \A s \in Sids : n \notin published[s]
    BY <1>1 DEF LibInv, TypeInv
  <2> QED BY <1>1, <1>2, <2>1 DEF LibInv, TypeInv, PublishedInv
<1>7. ReadersInv'
  BY <1>2 DEF LibInv, ReadersInv, loads
<1> QED BY <1>4, <1>5, <1>6, <1>7 DEF LibInv

\* Only the recorder's own file changes, and it is not published.
LEMMA WriteKeeps == ASSUME LibInv, NEW c \in Conns, Write(c) \/ WriteFails(c) PROVE LibInv'
<1> DEFINE f == file[c]
<1>1. /\ f \in Recordings /\ Recording(c) /\ sid[c] \in Sids /\ part[sid[c]] = f
  <2>1. Recording(c) /\ sid[c] \in Sids /\ part[sid[c]] = f /\ f # None
    BY DEF LibInv, TypeInv, OwnerInv, Recording, Write, WriteFails
  <2>2. f \in (1 .. opened) \cup {None}
    BY DEF LibInv, TypeInv
  <2> QED BY <2>1, <2>2, FilesAreRecordings DEF LibInv
<1>2. /\ \A g \in Recordings \ {f} : lines'[g] = lines[g] /\ torn'[g] = torn[g]
      /\ lines' \in [Recordings -> Nat] /\ torn' \in [Recordings -> BOOLEAN] /\ DOMAIN broken' = Conns
      /\ UNCHANGED <<up, pc, sid, file, opened, part, final, published, orphans, row, loads>>
  <2>1. /\ lines \in [Recordings -> Nat] /\ torn \in [Recordings -> BOOLEAN] /\ DOMAIN broken = Conns
    BY DEF LibInv, TypeInv
  <2>2. CASE Write(c)
    <3>1. lines' = [lines EXCEPT ![f] = @ + 1] /\ UNCHANGED <<torn, broken>>
      BY <2>2 DEF Write, recorder
    <3> HIDE DEF f
    <3>2. lines' \in [Recordings -> Nat] /\ \A g \in Recordings \ {f} : lines'[g] = lines[g]
      BY <1>1, <2>1, <3>1
    <3> QED BY <2>1, <2>2, <3>1, <3>2 DEF Write, recorder
  <2>3. CASE WriteFails(c)
    BY <1>1, <2>1, <2>3 DEF WriteFails
  <2> QED BY <2>2, <2>3
<1>3. \A s \in Sids : \A g \in published[s] : g \in Recordings \ {f}
  <2>1. \A s \in Sids : published[s] \subseteq Recordings /\ f \notin published[s]
    BY <1>1, FilesAreRecordings DEF LibInv, TypeInv, PublishedInv
  <2> QED BY <2>1
<1> HIDE DEF f
<1>4. \A s \in Sids : \A g \in published[s] : lines'[g] = lines[g] /\ torn'[g] = torn[g]
  BY <1>2, <1>3
<1>5. TypeInv'
  BY <1>2 DEF LibInv, TypeInv, loads
<1>6. OwnerInv'
  BY <1>2 DEF LibInv, OwnerInv, Recording
<1>7. PublishedInv'
  BY <1>2, <1>4 DEF LibInv, PublishedInv
<1>8. ReadersInv'
  BY <1>2, <1>4 DEF LibInv, ReadersInv, loads
<1> QED BY <1>5, <1>6, <1>7, <1>8 DEF LibInv

LEMMA DiscardKeeps ==
    ASSUME LibInv, NEW c \in Conns, NEW s \in Sids \cup {None}, Discard(c, s)
    PROVE  LibInv'
<1>1. /\ Recording(c) /\ sid[c] \in Sids /\ part[sid[c]] = file[c] /\ up /\ DOMAIN part = Sids
  BY DEF LibInv, TypeInv, OwnerInv, Recording, Discard
<1>2. /\ DOMAIN pc' = Conns /\ DOMAIN sid' = Conns /\ pc'[c] \in {"free", "opening"}
      /\ pc'[c] = "opening" => sid'[c] \in Sids
      /\ \A d \in Conns \ {c} : pc'[d] = pc[d] /\ sid'[d] = sid[d]
      /\ UNCHANGED <<up, file, broken, opened, final, lines, torn, published, row, loads>>
  BY DEF LibInv, TypeInv, Discard, Then
<1>3. CASE part' = [part EXCEPT ![sid[c]] = None] /\ UNCHANGED orphans
  <2>1. TypeInv'
    BY <1>1, <1>2, <1>3 DEF LibInv, TypeInv, loads
  <2>2. \A d \in Conns : Recording(d) /\ d # c => sid[d] # sid[c] /\ sid[d] \in Sids
    BY <1>1 DEF LibInv, TypeInv, OwnerInv, Recording
  <2>3. OwnerInv'
    BY <1>1, <1>2, <1>3, <2>2 DEF LibInv, OwnerInv, Recording
  <2>4. PublishedInv'
    <3>1. None \notin Recordings /\ \A t \in Sids : published[t] \subseteq Recordings
      BY LibraryAssumption DEF LibInv, TypeInv, Recordings
    <3> QED BY <1>1, <1>2, <1>3, <3>1 DEF LibInv, PublishedInv
  <2>5. ReadersInv'
    BY <1>2 DEF LibInv, ReadersInv, loads
  <2> QED BY <2>1, <2>3, <2>4, <2>5 DEF LibInv
<1>4. CASE orphans' = orphans \cup {file[c]} /\ UNCHANGED part
  <2>1. TypeInv'
    BY <1>1, <1>2, <1>4 DEF LibInv, TypeInv, loads
  <2>2. OwnerInv'
    BY <1>1, <1>2, <1>4 DEF LibInv, OwnerInv, Recording
  <2>3. PublishedInv' /\ ReadersInv'
    BY <1>2, <1>4 DEF LibInv, PublishedInv, ReadersInv, loads
  <2> QED BY <2>1, <2>2, <2>3 DEF LibInv
<1> QED BY <1>3, <1>4 DEF Discard

LEMMA FinalizeKeeps == ASSUME LibInv, NEW c \in Conns, Finalize(c) PROVE LibInv'
<1> DEFINE f == file[c]
           s == sid[c]
<1>1. /\ Recording(c) /\ s \in Sids /\ part[s] = f /\ f # None /\ f \in 1 .. opened /\ up /\ lines[f] > 0
      /\ f \in Recordings
  <2>1. Recording(c) /\ s \in Sids /\ part[s] = f /\ f # None /\ lines[f] > 0
    BY DEF LibInv, TypeInv, OwnerInv, Recording, Finalize
  <2>2. f \in (1 .. opened) \cup {None} /\ up
    BY <2>1 DEF LibInv, TypeInv, Recording
  <2> QED BY <2>1, <2>2, FilesAreRecordings DEF LibInv
<1>2. /\ pc' = [pc EXCEPT ![c] = "saving"] /\ final' = [final EXCEPT ![s] = f]
      /\ torn' = [torn EXCEPT ![f] = FALSE] /\ part' = [part EXCEPT ![s] = None]
      /\ published' = [published EXCEPT ![s] = @ \cup {f}]
      /\ UNCHANGED <<up, sid, file, broken, opened, lines, orphans, row, loads>>
  BY <1>1 DEF Finalize
<1>3. /\ DOMAIN pc = Conns /\ DOMAIN final = Sids /\ DOMAIN part = Sids /\ DOMAIN published = Sids
      /\ DOMAIN torn = Recordings /\ None \notin Recordings
      /\ \A t \in Sids : published[t] \subseteq Recordings
  BY LibraryAssumption DEF LibInv, TypeInv, Recordings
<1>4. /\ \A d \in Conns \ {c} : Recording(d) => sid[d] # s /\ sid[d] \in Sids
      /\ \A t \in Sids \ {s} : part[t] # f
  BY <1>1 DEF LibInv, TypeInv, OwnerInv, Recording
<1>5. s = sid[c] /\ f = file[c]
  OBVIOUS
<1> HIDE DEF f, s
<1>6. TypeInv'
  BY <1>1, <1>2, <1>3, <1>5 DEF LibInv, TypeInv, loads
<1>7. OwnerInv'
  BY <1>1, <1>2, <1>3, <1>4, <1>5 DEF LibInv, OwnerInv, Recording
<1>8. \A t \in Sids : /\ published[t] \subseteq published'[t] /\ published'[t] \subseteq published[t] \cup {f}
                      /\ t # s => published'[t] = published[t]
  BY <1>2, <1>3
<1>9. PublishedInv'
  <2>1. \A t \in Sids : \A g \in published'[t] : lines'[g] > 0 /\ ~torn'[g]
    BY <1>1, <1>2, <1>3, <1>8 DEF LibInv, PublishedInv
  <2>2. \A t, u \in Sids : part'[u] \notin published'[t]
    BY <1>1, <1>2, <1>3, <1>4, <1>8 DEF LibInv, PublishedInv
  <2>3. \A t \in Sids : /\ final'[t] # None => final'[t] \in published'[t]
                        /\ final'[t] = None => published'[t] = {}
    BY <1>1, <1>2, <1>3, <1>8 DEF LibInv, PublishedInv
  <2>4. \A d \in Conns : pc'[d] = "saving" => file'[d] \in published'[sid'[d]]
    BY <1>1, <1>2, <1>3, <1>5, <1>8 DEF LibInv, TypeInv, PublishedInv
  <2> QED BY <2>1, <2>2, <2>3, <2>4 DEF PublishedInv
<1>10. ReadersInv'
  BY <1>1, <1>2, <1>3, <1>8 DEF LibInv, ReadersInv, loads
<1> QED BY <1>6, <1>7, <1>9, <1>10 DEF LibInv

LEMMA SaveKeeps == ASSUME LibInv, NEW c \in Conns, NEW s \in Sids \cup {None}, Save(c, s) PROVE LibInv'
<1>1. /\ DOMAIN pc' = Conns /\ DOMAIN sid' = Conns /\ pc'[c] \in {"free", "opening"} /\ pc[c] = "saving"
      /\ pc'[c] = "opening" => sid'[c] \in Sids
      /\ \A d \in Conns \ {c} : pc'[d] = pc[d] /\ sid'[d] = sid[d]
      /\ UNCHANGED <<up, file, broken, opened, files, loads>>
      /\ row' = [row EXCEPT ![sid[c]] = lines[file[c]]] /\ DOMAIN row = Sids
      /\ up /\ sid[c] \in Sids
  BY DEF LibInv, TypeInv, Save, Then
<1>2. TypeInv'
  BY <1>1 DEF LibInv, TypeInv, files, loads
<1>3. OwnerInv'
  BY <1>1 DEF LibInv, OwnerInv, Recording, files
<1>4. PublishedInv'
  BY <1>1 DEF LibInv, PublishedInv, files
<1>5. file[c] \in published[sid[c]]
  BY <1>1 DEF LibInv, PublishedInv
<1>6. ReadersInv'
  BY <1>1, <1>5 DEF LibInv, ReadersInv, files, loads
<1> QED BY <1>2, <1>3, <1>4, <1>6 DEF LibInv

(***************************************************************************)
(* Viewers and the server's death.                                           *)
(***************************************************************************)
LEMMA ViewerKeeps == ASSUME LibInv, NEW v \in Viewers, Viewer(v) PROVE LibInv'
<1>1. UNCHANGED <<up, recorder, files, row>>
  BY DEF Viewer, Load, Build, Register
<1>2. OwnerInv' /\ PublishedInv'
  BY <1>1 DEF LibInv, OwnerInv, PublishedInv, Recording, recorder, files
<1>3. CASE \E s \in Sids : Load(v, s)
  <2>1. PICK s \in Sids : Load(v, s)
    BY <1>3
  <2>2. TypeInv'
    BY <1>1, <2>1 DEF LibInv, TypeInv, Load, recorder, files
  <2>3. ReadersInv'
    <3>1. CASE seekable[s] # None
      <4>1. told' = [told EXCEPT ![v] = [sid |-> s, total |-> lines[seekable[s]]]] /\ DOMAIN told = Viewers
            /\ UNCHANGED <<loading, seekable, index>>
        BY <2>1, <3>1 DEF Load, LibInv, TypeInv
      <4>2. seekable[s] \in published[s]
        BY <3>1 DEF LibInv, ReadersInv
      <4> QED BY <1>1, <4>1, <4>2 DEF LibInv, ReadersInv, files
    <3>2. CASE seekable[s] = None
      BY <1>1, <2>1, <3>2 DEF Load, LibInv, TypeInv, ReadersInv, files
    <3> QED BY <3>1, <3>2
  <2> QED BY <1>2, <2>2, <2>3 DEF LibInv
<1>4. CASE Build(v)
  <2>1. TypeInv'
    BY <1>1, <1>4 DEF LibInv, TypeInv, Build, recorder, files
  <2>2. ReadersInv'
    BY <1>1, <1>4 DEF Build, LibInv, TypeInv, ReadersInv, PublishedInv, files
  <2> QED BY <1>2, <2>1, <2>2 DEF LibInv
<1>5. CASE Register(v)
  <2>1. TypeInv'
    BY <1>1, <1>5 DEF LibInv, TypeInv, Register, recorder, files
  <2>2. loading[v] \in Sids /\ index[v] \in published[loading[v]]
    BY <1>5 DEF Register, LibInv, ReadersInv
  <2>3. ReadersInv'
    BY <1>1, <1>5, <2>2 DEF Register, LibInv, TypeInv, ReadersInv, files
  <2> QED BY <1>2, <2>1, <2>3 DEF LibInv
<1> QED BY <1>3, <1>4, <1>5 DEF Viewer

LEMMA KillKeeps == ASSUME LibInv, Kill PROVE LibInv'
<1>1. TypeInv'
  BY DEF LibInv, TypeInv, Kill
<1>2. OwnerInv'
  BY DEF LibInv, OwnerInv, Kill, Recording
<1>3. PublishedInv'
  BY DEF LibInv, PublishedInv, Kill
<1>4. ReadersInv'
  BY DEF LibInv, ReadersInv, Kill
<1> QED BY <1>1, <1>2, <1>3, <1>4 DEF LibInv

LEMMA RestartKeeps == ASSUME LibInv, Restart PROVE LibInv'
<1>1. PICK old \in SUBSET Sids : part' = [s \in Sids |-> IF s \in old THEN None ELSE part[s]]
  BY DEF Restart
<1>2. UNCHANGED <<recorder, final, lines, torn, published, orphans, row, loads>> /\ ~up
  BY DEF Restart
<1>3. \A c \in Conns : ~Recording(c)
  BY <1>2 DEF LibInv, TypeInv, Recording
<1>4. TypeInv'
  BY <1>1, <1>2 DEF LibInv, TypeInv, recorder, loads
<1>5. OwnerInv'
  BY <1>1, <1>2, <1>3 DEF LibInv, OwnerInv, Recording, recorder
<1>6. PublishedInv'
  <2>1. None \notin Recordings /\ \A t \in Sids : published[t] \subseteq Recordings
    BY LibraryAssumption DEF LibInv, TypeInv, Recordings
  <2> QED BY <1>1, <1>2, <2>1 DEF LibInv, PublishedInv, recorder
<1>7. ReadersInv'
  BY <1>2 DEF LibInv, ReadersInv, loads
<1> QED BY <1>4, <1>5, <1>6, <1>7 DEF LibInv

LEMMA NextInv == ASSUME LibInv, [Next]_vars PROVE LibInv'
<1>1. ASSUME NEW c \in Conns, Producer(c) PROVE LibInv'
  BY <1>1, QuietKeeps, OpenKeeps, WriteKeeps, DiscardKeeps, FinalizeKeeps, SaveKeeps
     DEF Producer, DiscardEmpty, FinalizeFails
<1>2. ASSUME NEW v \in Viewers, Viewer(v) PROVE LibInv'
  BY <1>2, ViewerKeeps
<1>3. CASE Kill \/ Restart
  BY <1>3, KillKeeps, RestartKeeps
<1>4. CASE UNCHANGED vars
  BY <1>4 DEF vars, LibInv, TypeInv, OwnerInv, PublishedInv, ReadersInv, Recording
<1> QED BY <1>1, <1>2, <1>3, <1>4 DEF Next

LEMMA SpecLibInv == Spec => []LibInv
BY InitInv, NextInv, PTL DEF Spec

(***************************************************************************)
(* The theorems.                                                             *)
(***************************************************************************)
\* Whatever ids the producers choose and whichever write, rename or removal
\* fails, a .part has one recorder, or none because it was killed or could not
\* remove it.
THEOREM PartsHaveOwners == Spec => []PartHasOwner
<1>1. LibInv => PartHasOwner
  BY DEF LibInv, OwnerInv, PartHasOwner, Recording
<1> QED BY <1>1, SpecLibInv, PTL

\* A session recorded once has one published file.
LEMMA OnlyFile ==
    ASSUME LibInv, NEW s \in Sids, Cardinality(published[s]) = 1
    PROVE  \A f \in published[s] : f = final[s]
<1>1. IsFiniteSet(published[s])
  <2>1. opened \in Int /\ published[s] \in SUBSET (1 .. opened)
    BY FilesAreRecordings DEF LibInv, TypeInv
  <2>2. IsFiniteSet(1 .. opened)
    BY <2>1, FS_Interval
  <2> QED BY <2>1, <2>2, FS_Subset
<1>2. PICK x : published[s] = {x}
  BY <1>1, FS_Singleton
<1> QED BY <1>2 DEF LibInv, PublishedInv

\* What the store lists can be loaded: it is there, whole, no longer written,
\* and as long as the list says.
THEOREM LibraryStaysComplete == Spec => []LibraryIsComplete
<1>1. ASSUME LibInv PROVE LibraryIsComplete
  <2> SUFFICES ASSUME NEW s \in Sids
               PROVE  /\ final[s] # None =>
                           /\ lines[final[s]] > 0 /\ ~torn[final[s]]
                           /\ \A c \in Conns : pc[c] = "recording" => file[c] # final[s]
                      /\ row[s] # None =>
                           /\ final[s] # None
                           /\ Cardinality(published[s]) = 1 => row[s] = lines[final[s]]
    BY DEF LibraryIsComplete
  <2>1. ASSUME final[s] # None
        PROVE  /\ lines[final[s]] > 0 /\ ~torn[final[s]]
               /\ \A c \in Conns : pc[c] = "recording" => file[c] # final[s]
    BY <1>1, <2>1 DEF LibInv, TypeInv, OwnerInv, PublishedInv, Recording
  <2>2. ASSUME row[s] # None
        PROVE  /\ final[s] # None
               /\ Cardinality(published[s]) = 1 => row[s] = lines[final[s]]
    BY <1>1, <2>2, OnlyFile DEF LibInv, PublishedInv, ReadersInv
  <2> QED BY <2>1, <2>2
<1> QED BY <1>1, SpecLibInv, PTL

\* Two loads of one session may build two indexes in executor threads: both
\* are of the file that has the name, and every viewer is told its length.
THEOREM SeeksUseTheFileThatIsThere == Spec => []SeekableIsCurrent
<1>1. ASSUME LibInv PROVE SeekableIsCurrent
  BY <1>1, OnlyFile DEF LibInv, ReadersInv, SeekableIsCurrent
<1> QED BY <1>1, SpecLibInv, PTL
===============================================================================
