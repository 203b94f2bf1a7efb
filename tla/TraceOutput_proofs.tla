-------------------------- MODULE TraceOutput_proofs --------------------------
(***************************************************************************)
(* Proofs about the files of `grackle trace -o`, for any number of runs with *)
(* one path and any buffer: the renamed file is exact, and a .part belongs   *)
(* to one run until it is settled or its owner is gone. Then about the       *)
(* events that the Node runtime has to write there: the stream made from     *)
(* any profile is that of the sampled stacks. And about the values an event  *)
(* carries: a secret is not read, and what is left out of a text is told.    *)
(***************************************************************************)
EXTENDS TraceOutput, ProfileReconstruct, ValueRepr, FiniteSetTheorems, SequenceTheorems, TLAPS

Bytes == Nat \X {1, 2}
Byte(i) == <<(i + 1) \div 2, IF i % 2 = 1 THEN 1 ELSE 2>>
Writing == {"idle", "connecting", "tracing", "handing", "finishing", "closing"}
Settled == {"renaming", "done"}

TypeInv ==
    /\ DOMAIN pc = Runs /\ DOMAIN report = Runs /\ DOMAIN interrupted = Runs
    /\ DOMAIN disk = Runs /\ DOMAIN buf = Runs /\ DOMAIN count = Runs
    /\ DOMAIN broken = Runs /\ DOMAIN emitted = Runs
    /\ part \in Runs \cup {NoFile} /\ output \in Runs \cup {NoFile}

\* A .part has one owner, that is alive or left it behind.
DirInv ==
    /\ \A r \in Runs : pc[r] \in Live => part = r
    /\ \A r \in Runs : pc[r] \in Stranded => part = r \/ r \in aside
    /\ part # NoFile => pc[part] \in Live \cup Stranded
    /\ output # NoFile => pc[output] = "done"
    /\ \A r \in Runs : report[r] = "ok" => pc[r] = "done" /\ ~broken[r]
    /\ \A r \in Runs : interrupted[r] =>
         pc[r] \in {"closing", "renaming", "kept", "killed", "failed", "done"}

\* The first n lines of s are whole and in order.
Whole(s, n) == Len(s) >= 2 * n /\ \A i \in 1 .. 2 * n : s[i] = Byte(i)

\* What run with state p has on disk (d) and buffered (b), having counted n of e
\* events: the lines counted, and after them at most what a failed write left.
RunInv(p, d, b, n, failed, e) ==
    /\ d \in Seq(Bytes) /\ b \in Seq(Bytes) /\ n \in Nat /\ e \in Nat
    /\ failed \in BOOLEAN
    /\ ~failed => n = e
    /\ p \in Writing => Whole(d \o b, n) /\ (~failed => Len(d \o b) = 2 * n)
    /\ p \in Settled => Whole(d, n) /\ Len(d) = 2 * n

DataInv == \A r \in Runs : RunInv(pc[r], disk[r], buf[r], count[r], broken[r], emitted[r])

OutInv == TypeInv /\ DirInv /\ DataInv

LEMMA InitInv == ASSUME Init PROVE OutInv
<1>1. TypeInv /\ DirInv
  BY DEF Init, TypeInv, DirInv, Live, Stranded
<1>2. <<>> \in Seq(Bytes) /\ <<>> \o <<>> = <<>> /\ Len(<<>>) = 0
  BY EmptySeq, ConcatEmptySeq
<1>3. DataInv
  BY <1>2 DEF Init, DataInv, RunInv, Whole, Settled
<1> QED BY <1>1, <1>3 DEF OutInv

(***************************************************************************)
(* The directory.                                                            *)
(***************************************************************************)
LEMMA DirNext == ASSUME OutInv, Next PROVE TypeInv' /\ DirInv'
<1> USE OutputAssumption DEF OutInv, TypeInv, DirInv, Live, Stranded, Goto,
        dirVars, writerVars, streamVars
<1>1. CASE MoveAside
  BY <1>1 DEF MoveAside
<1>2. ASSUME NEW r \in Runs, Run(r) PROVE TypeInv' /\ DirInv'
  <2>1. CASE Open(r)
    BY <2>1 DEF Open
  <2>2. CASE Refuse(r)
    BY <2>2 DEF Refuse
  <2>3. CASE ConnectOk(r) \/ ConnectFails(r)
    BY <2>3 DEF ConnectOk, ConnectFails
  <2>4. CASE InterruptWait(r)
    BY <2>4 DEF InterruptWait
  <2>5. CASE WriteOk(r)
    BY <2>5 DEF WriteOk, AfterWrite
  <2>6. CASE WriteFails(r)
    BY <2>6 DEF WriteFails, AfterWrite, TornWrite
  <2>7. CASE WriteSkipped(r)
    BY <2>7 DEF WriteSkipped, AfterWrite
  <2>8. CASE Hand(r) \/ Send(r)
    BY <2>8 DEF Hand, Send
  <2>9. CASE TraceEnds(r) \/ FinishReturns(r)
    BY <2>9 DEF TraceEnds, FinishReturns
  <2>10. CASE Interrupt(r)
    BY <2>10 DEF Interrupt
  <2>11. CASE Close(r) \/ CloseFails(r)
    BY <2>11 DEF Close, CloseFails
  <2>12. CASE Rename(r)
    BY <2>12 DEF Rename
  <2>13. CASE RenameFails(r) \/ Kill(r)
    BY <2>13 DEF RenameFails, Kill
  <2> QED BY <1>2, <2>1, <2>2, <2>3, <2>4, <2>5, <2>6, <2>7, <2>8, <2>9, <2>10,
             <2>11, <2>12, <2>13 DEF Run
<1> QED BY <1>1, <1>2 DEF Next

(***************************************************************************)
(* The bytes.                                                                *)
(***************************************************************************)
LEMMA JoinBytes ==
    ASSUME NEW s \in Seq(Bytes), NEW t \in Seq(Bytes)
    PROVE  s \o t \in Seq(Bytes) /\ Len(s \o t) \in Nat /\ s \o <<>> = s /\ <<>> \in Seq(Bytes)
BY ConcatProperties, ConcatEmptySeq, EmptySeq, LenProperties

LEMMA JoinThree ==
    ASSUME NEW s \in Seq(Bytes), NEW t \in Seq(Bytes), NEW u \in Seq(Bytes)
    PROVE  (s \o t) \o u = s \o (t \o u)
BY ConcatAssociative

LEMMA LinesAreBytes ==
    ASSUME NEW n \in Nat
    PROVE  /\ Lines(n) = [i \in 1 .. 2 * n |-> Byte(i)]
           /\ \A i \in 1 .. 2 * n : Byte(i) \in Bytes
           /\ Line(n + 1) = <<Byte(2 * n + 1), Byte(2 * n + 2)>>
           /\ Byte(2 * n + 1) \in Bytes /\ Byte(2 * n + 2) \in Bytes
BY DEF Lines, Line, Byte, Bytes

LEMMA ExactFile ==
    ASSUME NEW n \in Nat, NEW d \in Seq(Bytes), Whole(d, n), Len(d) = 2 * n
    PROVE  d = Lines(n)
<1>1. d \in [1 .. 2 * n -> Bytes]
  BY LenProperties
<1> QED BY <1>1, LinesAreBytes DEF Whole

\* A whole line more.
LEMMA LineAppended ==
    ASSUME NEW n \in Nat, NEW s \in Seq(Bytes), Whole(s, n), Len(s) = 2 * n
    PROVE  /\ Line(n + 1) \in Seq(Bytes)
           /\ Whole(s \o Line(n + 1), n + 1) /\ Len(s \o Line(n + 1)) = 2 * (n + 1)
<1> DEFINE l == Line(n + 1)
<1>1. l \in Seq(Bytes) /\ Len(l) = 2 /\ l[1] = Byte(2 * n + 1) /\ l[2] = Byte(2 * n + 2)
  <2>1. \A a, b \in Bytes : /\ <<a, b>> \in Seq(Bytes) /\ Len(<<a, b>>) = 2
                              /\ <<a, b>>[1] = a /\ <<a, b>>[2] = b
    OBVIOUS
  <2> DEFINE a == Byte(2 * n + 1)
             b == Byte(2 * n + 2)
  <2>2. l = <<a, b>> /\ a \in Bytes /\ b \in Bytes
    BY LinesAreBytes
  <2> HIDE DEF a, b, l
  <2>3. l \in Seq(Bytes) /\ Len(l) = 2 /\ l[1] = a /\ l[2] = b
    BY <2>1, <2>2
  <2> QED BY <2>3 DEF a, b
<1> HIDE DEF l
<1>2. /\ Len(s \o l) = 2 * n + 2
      /\ \A i \in 1 .. 2 * n + 2 : (s \o l)[i] = IF i <= 2 * n THEN s[i] ELSE l[i - 2 * n]
  <2>1. /\ Len(s \o l) = Len(s) + Len(l)
        /\ \A i \in 1 .. Len(s) + Len(l) : (s \o l)[i] = IF i <= Len(s) THEN s[i] ELSE l[i - Len(s)]
    BY <1>1, ConcatProperties
  <2> QED BY <1>1, <2>1
<1>3. \A i \in 1 .. 2 * n + 2 : (s \o l)[i] = Byte(i)
  <2> SUFFICES ASSUME NEW i \in 1 .. 2 * n + 2 PROVE (s \o l)[i] = Byte(i)
    OBVIOUS
  <2>1. CASE i <= 2 * n
    BY <1>2, <2>1 DEF Whole
  <2>2. CASE i = 2 * n + 1
    <3>1. i - 2 * n = 1 /\ ~(i <= 2 * n)
      BY <2>2
    <3> QED BY <1>1, <1>2, <2>2, <3>1
  <2>3. CASE i = 2 * n + 2
    <3>1. i - 2 * n = 2 /\ ~(i <= 2 * n)
      BY <2>3
    <3> QED BY <1>1, <1>2, <2>3, <3>1
  <2>4. i <= 2 * n \/ i = 2 * n + 1 \/ i = 2 * n + 2
    OBVIOUS
  <2> QED BY <2>1, <2>2, <2>3, <2>4
<1>4. 2 * (n + 1) = 2 * n + 2
  OBVIOUS
<1> QED BY <1>1, <1>2, <1>3, <1>4 DEF Whole, l

\* Whatever follows the counted lines does not disturb them.
LEMMA MoreAppended ==
    ASSUME NEW n \in Nat, NEW s \in Seq(Bytes), NEW t \in Seq(Bytes), Whole(s, n)
    PROVE  Whole(s \o t, n)
<1>1. /\ Len(s \o t) = Len(s) + Len(t) /\ Len(s) \in Nat /\ Len(t) \in Nat
      /\ \A i \in 1 .. Len(s) + Len(t) : i <= Len(s) => (s \o t)[i] = s[i]
  BY ConcatProperties
<1> QED BY <1>1 DEF Whole

LEMMA PrefixCut ==
    ASSUME NEW s \in Seq(Bytes), NEW k \in 0 .. Len(s)
    PROVE  /\ Prefix(s, k) = SubSeq(s, 1, k)
           /\ Prefix(s, k) \in Seq(Bytes) /\ Len(Prefix(s, k)) = k
           /\ \A i \in 1 .. k : Prefix(s, k)[i] = s[i]
           /\ SubSeq(s, k + 1, Len(s)) \in Seq(Bytes)
           /\ Prefix(s, k) \o SubSeq(s, k + 1, Len(s)) = s
<1>1. Len(s) \in Nat /\ k \in Int /\ \A i \in 1 .. Len(s) : s[i] \in Bytes
  BY LenProperties, ElementOfSeq
<1>2. Prefix(s, k) = SubSeq(s, 1, k)
  BY <1>1 DEF Prefix
<1>3. /\ SubSeq(s, 1, k) \in Seq(Bytes) /\ Len(SubSeq(s, 1, k)) = k
      /\ \A i \in 1 .. k : SubSeq(s, 1, k)[i] = s[i]
  <2>1. \A i \in 1 .. k : s[i] \in Bytes
    BY <1>1
  <2>2. /\ SubSeq(s, 1, k) \in Seq(Bytes)
        /\ Len(SubSeq(s, 1, k)) = IF 1 <= k THEN k - 1 + 1 ELSE 0
        /\ \A i \in 1 .. k - 1 + 1 : SubSeq(s, 1, k)[i] = s[1 + i - 1]
    BY <1>1, <2>1, SubSeqProperties
  <2> QED BY <1>1, <2>2
<1>4. SubSeq(s, k + 1, Len(s)) \in Seq(Bytes)
  <2>1. \A i \in k + 1 .. Len(s) : s[i] \in Bytes
    BY <1>1
  <2> QED BY <1>1, <2>1, SubSeqProperties
<1> DEFINE u == SubSeq(s, 1, k)
           v == SubSeq(s, k + 1, Len(s))
<1>5. /\ Len(v) = Len(s) - k
      /\ \A i \in 1 .. Len(s) - k : v[i] = s[k + i]
  <2>1. \A i \in k + 1 .. Len(s) : s[i] \in Bytes
    BY <1>1
  <2>2. /\ Len(v) = IF k + 1 <= Len(s) THEN Len(s) - (k + 1) + 1 ELSE 0
        /\ \A i \in 1 .. Len(s) - (k + 1) + 1 : v[i] = s[k + 1 + i - 1]
    BY <1>1, <2>1, SubSeqProperties
  <2> QED BY <1>1, <2>2
<1> HIDE DEF u, v
<1>6. u \o v = s
  <2>1. /\ u \o v \in Seq(Bytes) /\ Len(u \o v) = Len(s)
        /\ \A i \in 1 .. Len(s) : (u \o v)[i] = IF i <= k THEN u[i] ELSE v[i - k]
    <3>1. u \in Seq(Bytes) /\ v \in Seq(Bytes) /\ Len(u) = k
      BY <1>3, <1>4 DEF u, v
    <3>2. /\ u \o v \in Seq(Bytes) /\ Len(u \o v) = Len(u) + Len(v)
          /\ \A i \in 1 .. Len(u) + Len(v) : (u \o v)[i] = IF i <= Len(u) THEN u[i] ELSE v[i - Len(u)]
      BY <3>1, ConcatProperties
    <3>3. Len(u) + Len(v) = Len(s)
      BY <1>1, <1>5, <3>1
    <3> QED BY <3>1, <3>2, <3>3
  <2>2. \A i \in 1 .. Len(s) : (u \o v)[i] = s[i]
    BY <1>1, <1>3, <1>5, <2>1 DEF u
  <2> QED BY <2>1, <2>2, SeqEqual
<1> QED BY <1>2, <1>3, <1>4, <1>6 DEF u, v

\* Only run r's data may change.
LEMMA OtherRuns ==
    ASSUME OutInv, NEW r \in Runs,
           \A q \in Runs \ {r} : /\ pc'[q] = pc[q] /\ disk'[q] = disk[q] /\ buf'[q] = buf[q]
                                 /\ count'[q] = count[q] /\ broken'[q] = broken[q]
                                 /\ emitted'[q] = emitted[q],
           RunInv(pc'[r], disk'[r], buf'[r], count'[r], broken'[r], emitted'[r])
    PROVE  DataInv'
BY DEF OutInv, DataInv

\* The steps that leave the data alone.
LEMMA QuietKeeps ==
    ASSUME OutInv, UNCHANGED <<disk, buf, count, broken, emitted>>,
           \A q \in Runs : /\ pc'[q] \in Writing => pc[q] \in Writing
                           /\ pc'[q] \in Settled => pc[q] \in Settled
    PROVE  DataInv'
BY DEF OutInv, DataInv, RunInv

LEMMA WriteOkKeeps == ASSUME OutInv, NEW r \in Runs, WriteOk(r) PROVE DataInv'
<1> DEFINE n == count[r]
           d == disk[r]
           b == buf[r]
           l == Line(n + 1)
<1>1. /\ d \in Seq(Bytes) /\ b \in Seq(Bytes) /\ n \in Nat /\ emitted[r] = n
      /\ Whole(d \o b, n) /\ Len(d \o b) = 2 * n
  BY DEF WriteOk, AfterWrite, Goto, OutInv, DataInv, RunInv, Writing
<1>2. /\ d \o b \in Seq(Bytes) /\ l \in Seq(Bytes)
      /\ Whole((d \o b) \o l, n + 1) /\ Len((d \o b) \o l) = 2 * (n + 1)
  BY <1>1, ConcatProperties, LineAppended
<1>3. /\ \/ disk'[r] = d /\ buf'[r] = b \o l
         \/ disk'[r] = d \o b /\ buf'[r] = l
      /\ count'[r] = n + 1 /\ emitted'[r] = n + 1 /\ ~broken'[r] /\ broken'[r] \in BOOLEAN
      /\ pc'[r] \in {"handing", "tracing"}
  BY <1>1 DEF WriteOk, AfterWrite, Goto, OutInv, TypeInv, DataInv, RunInv
<1>4. /\ disk'[r] \in Seq(Bytes) /\ buf'[r] \in Seq(Bytes)
      /\ disk'[r] \o buf'[r] = (d \o b) \o l
  <2>1. (d \o b) \o l = d \o (b \o l) /\ b \o l \in Seq(Bytes)
    <3> HIDE DEF d, b, l
    <3>1. (d \o b) \o l = d \o (b \o l)
      BY <1>1, <1>2, JoinThree
    <3> QED BY <1>1, <1>2, <3>1, JoinBytes
  <2> QED BY <1>1, <1>2, <1>3, <2>1
<1> HIDE DEF n, d, b, l
<1>5. RunInv(pc'[r], disk'[r], buf'[r], count'[r], broken'[r], emitted'[r])
  BY <1>1, <1>2, <1>3, <1>4 DEF RunInv, Settled
<1> QED BY <1>5, OtherRuns DEF WriteOk, AfterWrite, Goto, OutInv, TypeInv

LEMMA WriteFailsKeeps == ASSUME OutInv, NEW r \in Runs, WriteFails(r) PROVE DataInv'
<1> DEFINE n == count[r]
           d == disk[r]
           b == buf[r]
           x == <<emitted[r] + 1, 1>>
<1>1. /\ d \in Seq(Bytes) /\ b \in Seq(Bytes) /\ n \in Nat /\ emitted[r] = n
      /\ Whole(d \o b, n)
  BY DEF WriteFails, AfterWrite, Goto, OutInv, DataInv, RunInv, Writing
<1>2. d \o b \in Seq(Bytes) /\ <<x>> \in Seq(Bytes)
  BY <1>1, ConcatProperties DEF Bytes
<1>3. /\ \/ \E k \in 0 .. Len(b) : disk'[r] = d \o Prefix(b, k) /\ buf'[r] = SubSeq(b, k + 1, Len(b))
         \/ disk'[r] = d \o b \o <<x>> /\ buf'[r] = <<>>
      /\ count'[r] = n /\ emitted'[r] = n + 1 /\ broken'[r] /\ broken'[r] \in BOOLEAN
      /\ pc'[r] \in {"handing", "tracing"}
  BY <1>1 DEF WriteFails, TornWrite, AfterWrite, Goto, OutInv, TypeInv
<1>4. /\ disk'[r] \in Seq(Bytes) /\ buf'[r] \in Seq(Bytes)
      /\ Whole(disk'[r] \o buf'[r], n)
  <2>1. ASSUME NEW k \in 0 .. Len(b), disk'[r] = d \o Prefix(b, k), buf'[r] = SubSeq(b, k + 1, Len(b))
        PROVE  disk'[r] \in Seq(Bytes) /\ buf'[r] \in Seq(Bytes) /\ disk'[r] \o buf'[r] = d \o b
    <3>1. /\ Prefix(b, k) \in Seq(Bytes) /\ SubSeq(b, k + 1, Len(b)) \in Seq(Bytes)
          /\ Prefix(b, k) \o SubSeq(b, k + 1, Len(b)) = b
      BY <1>1, PrefixCut
    <3>2. /\ d \o Prefix(b, k) \in Seq(Bytes)
          /\ (d \o Prefix(b, k)) \o SubSeq(b, k + 1, Len(b)) = d \o (Prefix(b, k) \o SubSeq(b, k + 1, Len(b)))
      <4> DEFINE u == Prefix(b, k)
                 v == SubSeq(b, k + 1, Len(b))
      <4>1. d \in Seq(Bytes) /\ u \in Seq(Bytes) /\ v \in Seq(Bytes)
        BY <1>1, <3>1
      <4> HIDE DEF d, u, v
      <4>2. (d \o u) \o v = d \o (u \o v)
        BY <4>1, JoinThree
      <4>3. d \o u \in Seq(Bytes)
        BY <4>1, JoinBytes
      <4> QED BY <4>2, <4>3 DEF u, v
    <3> QED BY <2>1, <3>1, <3>2
  <2>2. ASSUME disk'[r] = d \o b \o <<x>>, buf'[r] = <<>>
        PROVE  /\ disk'[r] \in Seq(Bytes) /\ buf'[r] \in Seq(Bytes)
               /\ disk'[r] \o buf'[r] = (d \o b) \o <<x>>
    BY <1>2, <2>2, ConcatProperties, ConcatEmptySeq, EmptySeq
  <2>3. Whole((d \o b) \o <<x>>, n)
    BY <1>1, <1>2, MoreAppended
  <2> QED BY <1>1, <1>3, <2>1, <2>2, <2>3
<1> HIDE DEF n, d, b, x
<1>5. RunInv(pc'[r], disk'[r], buf'[r], count'[r], broken'[r], emitted'[r])
  BY <1>1, <1>3, <1>4 DEF RunInv, Settled
<1> QED BY <1>5, OtherRuns DEF WriteFails, TornWrite, AfterWrite, Goto, OutInv, TypeInv

\* finalize() cuts a broken file to the lines that were counted.
LEMMA CloseKeeps == ASSUME OutInv, NEW r \in Runs, Close(r) PROVE DataInv'
<1> DEFINE n == count[r]
           s == disk[r] \o buf[r]
<1>1. /\ disk[r] \in Seq(Bytes) /\ buf[r] \in Seq(Bytes) /\ n \in Nat /\ emitted[r] \in Nat
      /\ broken[r] \in BOOLEAN /\ Whole(s, n)
      /\ ~broken[r] => n = emitted[r] /\ Len(s) = 2 * n
  BY DEF Close, Goto, OutInv, DataInv, RunInv, Writing
<1>2. s \in Seq(Bytes) /\ <<>> \in Seq(Bytes) /\ Len(s) \in Nat
  BY <1>1, JoinBytes
<1>3. /\ disk'[r] = IF broken[r] THEN Prefix(s, 2 * n) ELSE s
      /\ buf'[r] = <<>> /\ pc'[r] = "renaming"
      /\ UNCHANGED <<count, broken, emitted>>
  BY DEF Close, Goto, OutInv, TypeInv
<1> HIDE DEF s, n
<1>4. disk'[r] \in Seq(Bytes) /\ Whole(disk'[r], n) /\ Len(disk'[r]) = 2 * n
  <2>1. CASE broken[r]
    <3>1. 2 * n \in 0 .. Len(s)
      BY <1>1, <1>2 DEF Whole
    <3>2. /\ Prefix(s, 2 * n) \in Seq(Bytes) /\ Len(Prefix(s, 2 * n)) = 2 * n
          /\ \A i \in 1 .. 2 * n : Prefix(s, 2 * n)[i] = s[i]
      BY <1>2, <3>1, PrefixCut
    <3> QED BY <1>1, <1>3, <2>1, <3>2 DEF Whole
  <2>2. CASE ~broken[r]
    BY <1>1, <1>2, <1>3, <2>2
  <2> QED BY <2>1, <2>2
<1>5. RunInv(pc'[r], disk'[r], buf'[r], count'[r], broken'[r], emitted'[r])
  BY <1>1, <1>2, <1>3, <1>4 DEF RunInv, Writing, n
<1> QED BY <1>5, OtherRuns DEF Close, Goto, OutInv, TypeInv

\* A run that is over and will not rename has nothing to keep but its counters.
LEMMA GivesUpKeeps ==
    ASSUME OutInv, NEW r \in Runs, InterruptWait(r) \/ CloseFails(r) \/ Kill(r)
    PROVE  DataInv'
<1>1. disk[r] \in Seq(Bytes) /\ buf[r] \in Seq(Bytes)
  BY DEF OutInv, DataInv, RunInv
<1>2. /\ \/ disk'[r] = disk[r] \/ disk'[r] = disk[r] \o buf[r]
         \/ \E k \in 0 .. Len(buf[r]) : disk'[r] = disk[r] \o Prefix(buf[r], k)
      /\ buf'[r] = <<>> /\ pc'[r] \in Stranded
      /\ UNCHANGED <<count, broken, emitted>>
      /\ \A q \in Runs \ {r} : pc'[q] = pc[q] /\ disk'[q] = disk[q] /\ buf'[q] = buf[q]
  BY DEF InterruptWait, CloseFails, Kill, Goto, Stranded, OutInv, TypeInv
<1>3. disk'[r] \in Seq(Bytes) /\ buf'[r] \in Seq(Bytes)
  <2>1. \A k \in 0 .. Len(buf[r]) : Prefix(buf[r], k) \in Seq(Bytes)
    BY <1>1, PrefixCut
  <2> QED BY <1>1, <1>2, <2>1, ConcatProperties, EmptySeq
<1>4. RunInv(pc'[r], disk'[r], buf'[r], count'[r], broken'[r], emitted'[r])
  BY <1>2, <1>3 DEF OutInv, DataInv, RunInv, Stranded, Writing, Settled
<1> QED BY <1>2, <1>4, OtherRuns

LEMMA DataNext == ASSUME OutInv, Next PROVE DataInv'
<1>1. CASE MoveAside
  BY <1>1, QuietKeeps DEF MoveAside, writerVars
<1>2. ASSUME NEW r \in Runs, Run(r) PROVE DataInv'
  <2> USE <1>2 DEF OutInv, TypeInv, Goto, writerVars, Writing, Settled
  <2>1. CASE Open(r) \/ Refuse(r) \/ ConnectOk(r) \/ ConnectFails(r)
    BY <2>1, QuietKeeps DEF Open, Refuse, ConnectOk, ConnectFails
  <2>2. CASE Hand(r) \/ Send(r) \/ TraceEnds(r) \/ FinishReturns(r)
    BY <2>2, QuietKeeps DEF Hand, Send, TraceEnds, FinishReturns
  <2>3. CASE Interrupt(r)
    BY <2>3, QuietKeeps DEF Interrupt
  <2>4. CASE Rename(r) \/ RenameFails(r)
    BY <2>4, QuietKeeps DEF Rename, RenameFails
  <2>5. CASE WriteSkipped(r)
    <3>1. RunInv(pc'[r], disk'[r], buf'[r], count'[r], broken'[r], emitted'[r])
      BY <2>5 DEF WriteSkipped, AfterWrite, DataInv, RunInv
    <3> QED BY <2>5, <3>1, OtherRuns DEF WriteSkipped, AfterWrite
  <2>6. CASE WriteOk(r) \/ WriteFails(r) \/ Close(r)
    BY <2>6, WriteOkKeeps, WriteFailsKeeps, CloseKeeps
  <2>7. CASE InterruptWait(r) \/ CloseFails(r) \/ Kill(r)
    BY <2>7, GivesUpKeeps
  <2> QED BY <2>1, <2>2, <2>3, <2>4, <2>5, <2>6, <2>7 DEF Run
<1> QED BY <1>1, <1>2 DEF Next

LEMMA NextInv == ASSUME OutInv, [Next]_vars PROVE OutInv'
<1>1. CASE Next
  BY <1>1, DirNext, DataNext DEF OutInv
<1>2. CASE UNCHANGED vars
  BY <1>2 DEF vars, dirVars, writerVars, OutInv, TypeInv, DirInv, DataInv
<1> QED BY <1>1, <1>2

LEMMA SpecOutInv == Spec => []OutInv
BY InitInv, NextInv, PTL DEF Spec

(***************************************************************************)
(* The theorems.                                                             *)
(***************************************************************************)
\* <output> holds the counted lines and nothing else, wherever a write failed
\* and whoever was killed, and "ok" is said only of a file with every event.
THEOREM RenamedFilesAreExact == Spec => []OutputIsExact
<1>1. ASSUME OutInv PROVE OutputIsExact
  <2>1. ASSUME NEW r \in Runs, pc[r] = "done" PROVE disk[r] = Lines(count[r])
    BY <1>1, <2>1, ExactFile DEF OutInv, DataInv, RunInv, Settled
  <2>2. ASSUME NEW r \in Runs, ~broken[r] PROVE count[r] = emitted[r]
    BY <1>1, <2>2 DEF OutInv, DataInv, RunInv
  <2> QED BY <1>1, <2>1, <2>2 DEF OutputIsExact, OutInv, TypeInv, DirInv
<1> QED BY <1>1, SpecOutInv, PTL

\* Nobody but the user takes away what a killed or failed run left behind.
THEOREM SalvageStays == Spec => []SalvageKept
<1>1. OutInv => SalvageKept
  BY DEF OutInv, DirInv, SalvageKept
<1> QED BY <1>1, SpecOutInv, PTL

\* An interrupted run that could settle its output leaves the path free.
THEOREM InterruptedRunsFreeThePath == Spec => []InterruptFreesPath
<1>1. OutInv => InterruptFreesPath
  BY OutputAssumption DEF OutInv, DirInv, InterruptFreesPath, Live, Stranded
<1> QED BY <1>1, SpecOutInv, PTL
-----------------------------------------------------------------------------
(* The reconstruction of a profile: the frames of a call path, the walk up  *)
(* the tree with its cache, the stream and what it shows of each sample.     *)
Frames(p) == {<<m, p.resolve[m]>> : m \in TreeNodes(p)}
Entries(p) ==
  [event : {"call", "return"}, node : {p.resolve[m] : m \in TreeNodes(p)}, ts : Int, depth : Nat]
Levels(s) == {<<k - 1, s[k][2]>> : k \in 1 .. Len(s)}

(* s is the path of n, a frame of the project at the number of frames on    *)
(* its own path.                                                             *)
Height(p, m) == Cardinality(ProjectFrames(p, m))
IsPath(p, n, s) ==
  IF n = 0 THEN s = <<>>
  ELSE /\ Len(s) = Height(p, n)
       /\ \A k \in 1 .. Len(s) : /\ s[k][1] \in ProjectFrames(p, n) /\ Height(p, s[k][1]) = k
                                 /\ s[k] = <<s[k][1], p.resolve[s[k][1]]>>
       /\ \A m \in ProjectFrames(p, n) : Height(p, m) \in 1 .. Len(s) /\ s[Height(p, m)][1] = m

WalkTypes(p, a) ==
  /\ DOMAIN a = {"status", "i", "cum", "stamp", "cache", "cur", "pending", "path", "open", "events"}
  /\ a.status \in {"climb", "emit", "profiled"} /\ a.i \in 0 .. Len(p.samples) + 1
  /\ a.cum \in Int /\ a.stamp \in Int /\ a.cur \in {0} \union TreeNodes(p)
  /\ DOMAIN a.cache \subseteq TreeNodes(p) /\ a.pending \in Seq(TreeNodes(p))
  /\ a.path \in Seq(Frames(p)) /\ a.open \in Seq(Frames(p)) /\ a.events \in Seq(Entries(p))

(* What is cached are paths, and from the node the walk is at the pending   *)
(* ones lead down to the sample.                                             *)
WalkInv(p, a) ==
  /\ \A n \in DOMAIN a.cache : a.cache[n] \in Seq(Frames(p)) /\ IsPath(p, n, a.cache[n])
  /\ \A k \in 1 .. Len(a.pending) :
       ParentOf(p, a.pending[k]) = IF k = Len(a.pending) THEN a.cur ELSE a.pending[k + 1]
  /\ a.status = "climb" => \A k \in 1 .. Len(a.pending) : a.cur < a.pending[k]
  /\ a.status = "emit" /\ a.i <= Len(p.samples) => IsPath(p, a.cur, a.path)
  /\ a.status = "emit" /\ a.i > Len(p.samples) => a.path = <<>> /\ a.pending = <<>>

(* The stream is that of the frames now open.                                *)
StreamInv(p, a) ==
  /\ \A d, e \in DOMAIN a.events : d < e => a.events[d].ts <= a.events[e].ts
  /\ \A e \in DOMAIN a.events : a.events[e].ts <= a.stamp
  /\ CallsNest(a.events) /\ StackAfter(a.events, DOMAIN a.events) = Levels(a.open)

Reached(a) == a.status = "profiled" \/ (a.status = "emit" /\ a.pending = <<>> /\ a.open = a.path)

(* The sample on the way to which the stream is.                             *)
Towards(p, a) ==
  /\ a.i \in 1 .. Len(p.samples) /\ p.samples[a.i] \in TreeNodes(p)
  /\ p.samples[a.i] = IF a.pending = <<>> THEN a.cur ELSE a.pending[1]
  /\ a.stamp = SampledAt(p, a.i - 1)

Until(events, t) == {e \in DOMAIN events : events[e].ts <= t}
Shows(p, a, j) ==
  p.samples[j] \in TreeNodes(p) =>
    \A t \in SampledAt(p, j - 1) .. SampledAt(p, j) - 1 :
      StackAfter(a.events, Until(a.events, t)) = StackOf(p, p.samples[j])

SampleInv(p, a) ==
  /\ a.i <= Len(p.samples) => a.cum = SampledAt(p, a.i) /\ a.stamp <= a.cum
  /\ a.i > Len(p.samples) => SampledAt(p, Len(p.samples)) <= a.stamp
  /\ Reached(a) \/ (a.status = "emit" /\ a.i > Len(p.samples)) \/ Towards(p, a)
  /\ \A j \in 1 .. Len(p.samples) :
       j < a.i \/ (Reached(a) /\ j = a.i) => Shows(p, a, j)
  /\ a.status = "profiled" => a.open = <<>> /\ (p.samples = <<>> \/ a.i > Len(p.samples))

ProfileInv ==
  /\ asked \in Profiles
  /\ answer # Nothing => /\ WalkTypes(asked, answer) /\ WalkInv(asked, answer)
                         /\ StreamInv(asked, answer) /\ SampleInv(asked, answer)

LEMMA ParentIs ==
  ASSUME NEW p, ProperProfile(p), NEW n \in TreeNodes(p)
  PROVE  /\ n \in Nat \ {0}
         /\ ParentOf(p, n) = 0 \/ (/\ ParentOf(p, n) \in TreeNodes(p) /\ ParentOf(p, n) < n
                                   /\ n \in p.children[ParentOf(p, n)])
         /\ \A m \in TreeNodes(p) : n \in p.children[m] => ParentOf(p, n) = m
<1> DEFINE claim == {m \in TreeNodes(p) : n \in p.children[m]}
<1>1. n \in Nat \ {0} /\ TreeNodes(p) \subseteq Nat \ {0}
  BY DEF ProperProfile
<1>2. \A m, o \in claim : m = o
  BY DEF ProperProfile
<1>3. ASSUME NEW m \in claim PROVE ParentOf(p, n) = m
  <2>1. claim = {m}
    BY <1>2
  <2>2. m <= m /\ \A o \in claim : o <= m
    BY <1>1, <2>1
  <2>3. (CHOOSE x \in claim : \A o \in claim : o <= x) = m
    BY <2>1, <2>2
  <2> QED BY <2>1, <2>3 DEF ParentOf
<1>4. claim = {} => ParentOf(p, n) = 0
  BY DEF ParentOf
<1>5. \A m \in claim : m < n
  BY DEF ProperProfile
<1> QED BY <1>1, <1>3, <1>4, <1>5

(* The path of a node is the path of its parent and the node itself.        *)
LEMMA CallPathIs ==
  ASSUME NEW p, ProperProfile(p), NEW n \in TreeNodes(p)
  PROVE  /\ ParentOf(p, n) = 0 => CallPath(p, n) = {n}
         /\ ParentOf(p, n) # 0 =>
              CallPath(p, n) = CallPath(p, ParentOf(p, n)) \union {n} /\ n \notin CallPath(p, ParentOf(p, n))
<1> DEFINE q == ParentOf(p, n)
<1>1. /\ n \in Nat \ {0} /\ TreeNodes(p) \subseteq Nat \ {0}
      /\ q = 0 \/ (q \in TreeNodes(p) /\ q < n /\ n \in p.children[q])
      /\ \A m \in TreeNodes(p) : n \in p.children[m] => q = m
  BY ParentIs DEF ProperProfile
<1>2. \A m \in TreeNodes(p) : m \in CallPath(p, m)
  BY DEF CallPath
<1>3. \A m \in TreeNodes(p) : HoldsParents(p, CallPath(p, m))
  BY DEF CallPath, HoldsParents
<1>4. \A m, x : x \in CallPath(p, m) <=>
        /\ x \in TreeNodes(p)
        /\ \A S \in SUBSET TreeNodes(p) : m \in S /\ HoldsParents(p, S) => x \in S
  BY DEF CallPath
<1>5. CASE q = 0
  <2>1. HoldsParents(p, {n})
    BY <1>1, <1>5 DEF HoldsParents
  <2>2. \A x \in CallPath(p, n) : x \in {n}
    BY <1>4, <2>1
  <2> QED BY <1>2, <1>5, <2>2
<1>6. CASE q # 0
  <2>1. q \in TreeNodes(p) /\ q < n /\ n \in p.children[q]
    BY <1>1, <1>6
  <2>2. HoldsParents(p, CallPath(p, q) \union {n})
    <3> SUFFICES ASSUME NEW m \in TreeNodes(p), NEW x \in p.children[m], x \in CallPath(p, q) \union {n}
                 PROVE  m \in CallPath(p, q) \union {n}
      BY DEF HoldsParents
    <3>1. CASE x = n
      BY <1>1, <1>2, <2>1, <3>1
    <3>2. CASE x \in CallPath(p, q)
      BY <1>3, <2>1, <3>2 DEF HoldsParents
    <3> QED BY <3>1, <3>2
  <2>3. CallPath(p, q) \union {n} \in SUBSET TreeNodes(p)
    BY DEF CallPath
  <2>4. CallPath(p, n) \subseteq CallPath(p, q) \union {n}
    BY <1>4, <2>2, <2>3
  <2>5. q \in CallPath(p, n)
    BY <1>2, <1>3, <2>1 DEF HoldsParents
  <2>6. CallPath(p, n) \in SUBSET TreeNodes(p)
    BY DEF CallPath
  <2>7. CallPath(p, q) \subseteq CallPath(p, n)
    BY <1>3, <1>4, <2>5, <2>6
  <2>8. n \notin CallPath(p, q)
    <3> DEFINE S == {x \in TreeNodes(p) : x < n}
    <3>1. HoldsParents(p, S)
      <4> SUFFICES ASSUME NEW m \in TreeNodes(p), NEW x \in p.children[m], x \in S
                   PROVE  m \in S
        BY DEF HoldsParents
      <4>1. m < x /\ x < n /\ x \in Nat /\ m \in Nat /\ n \in Nat
        BY <1>1 DEF ProperProfile
      <4> QED BY <4>1
    <3>2. q \in S /\ n \notin S
      BY <1>1, <2>1
    <3> QED BY <1>4, <3>1, <3>2
  <2> QED BY <1>2, <1>6, <2>4, <2>7, <2>8
<1> QED BY <1>5, <1>6

(* The frames of the project on it, and where a frame stands.               *)
LEMMA FramesAre ==
  ASSUME NEW p, ProperProfile(p), NEW n \in TreeNodes(p)
  PROVE  /\ IsFiniteSet(ProjectFrames(p, n)) /\ Height(p, n) \in Nat /\ ProjectFrames(p, n) \subseteq TreeNodes(p)
         /\ p.resolve[n] = "none" /\ ParentOf(p, n) = 0 => ProjectFrames(p, n) = {}
         /\ p.resolve[n] = "none" /\ ParentOf(p, n) # 0 =>
              ProjectFrames(p, n) = ProjectFrames(p, ParentOf(p, n))
         /\ p.resolve[n] # "none" /\ ParentOf(p, n) = 0 => ProjectFrames(p, n) = {n} /\ Height(p, n) = 1
         /\ p.resolve[n] # "none" /\ ParentOf(p, n) # 0 =>
              /\ ProjectFrames(p, n) = ProjectFrames(p, ParentOf(p, n)) \union {n}
              /\ n \notin ProjectFrames(p, ParentOf(p, n)) /\ Height(p, n) = Height(p, ParentOf(p, n)) + 1
<1>1. \A m \in TreeNodes(p) :
        /\ ProjectFrames(p, m) \subseteq TreeNodes(p) /\ IsFiniteSet(ProjectFrames(p, m))
        /\ Height(p, m) \in Nat /\ Height(p, m) = Cardinality(ProjectFrames(p, m))
  <2> TAKE m \in TreeNodes(p)
  <2>1. ProjectFrames(p, m) \in SUBSET TreeNodes(p) /\ IsFiniteSet(TreeNodes(p))
    BY DEF ProjectFrames, CallPath, ProperProfile
  <2>2. IsFiniteSet(ProjectFrames(p, m))
    BY <2>1, FS_Subset
  <2> QED BY <2>1, <2>2, FS_CardinalityType DEF Height
<1>2. /\ ParentOf(p, n) = 0 => CallPath(p, n) = {n}
      /\ ParentOf(p, n) # 0 =>
           CallPath(p, n) = CallPath(p, ParentOf(p, n)) \union {n} /\ n \notin CallPath(p, ParentOf(p, n))
  BY CallPathIs
<1>3. ParentOf(p, n) # 0 => ParentOf(p, n) \in TreeNodes(p)
  BY ParentIs
<1>4. CASE ParentOf(p, n) = 0
  <2>1. p.resolve[n] = "none" => ProjectFrames(p, n) = {}
    BY <1>2, <1>4 DEF ProjectFrames
  <2>2. p.resolve[n] # "none" => ProjectFrames(p, n) = {n}
    BY <1>2, <1>4 DEF ProjectFrames
  <2> QED BY <1>1, <1>4, <2>1, <2>2, FS_Singleton
<1>5. CASE ParentOf(p, n) # 0
  <2>1. p.resolve[n] = "none" => ProjectFrames(p, n) = ProjectFrames(p, ParentOf(p, n))
    BY <1>2, <1>5 DEF ProjectFrames
  <2>2. p.resolve[n] # "none" =>
          /\ ProjectFrames(p, n) = ProjectFrames(p, ParentOf(p, n)) \union {n}
          /\ n \notin ProjectFrames(p, ParentOf(p, n))
    BY <1>2, <1>5 DEF ProjectFrames
  <2>3. p.resolve[n] # "none" => Height(p, n) = Height(p, ParentOf(p, n)) + 1
    BY <1>1, <1>3, <1>5, <2>2, FS_AddElement
  <2> QED BY <1>1, <1>5, <2>1, <2>2, <2>3
<1> QED BY <1>4, <1>5

LEMMA PathExtends ==
  ASSUME NEW p, ProperProfile(p), NEW n \in TreeNodes(p), NEW s, s \in Seq(Frames(p)),
         IsPath(p, ParentOf(p, n), s)
  PROVE  LET t == IF p.resolve[n] = "none" THEN s ELSE Append(s, <<n, p.resolve[n]>>)
         IN  IsPath(p, n, t) /\ t \in Seq(Frames(p))
<1> DEFINE q == ParentOf(p, n)
           t == IF p.resolve[n] = "none" THEN s ELSE Append(s, <<n, p.resolve[n]>>)
<1>1. n \in Nat \ {0} /\ (q = 0 \/ q \in TreeNodes(p))
  BY ParentIs
<1>2. /\ Height(p, n) \in Nat /\ Len(s) \in Nat
      /\ q = 0 => s = <<>>
      /\ q # 0 => /\ Len(s) = Height(p, q)
                  /\ \A k \in 1 .. Len(s) : /\ s[k][1] \in ProjectFrames(p, q) /\ Height(p, s[k][1]) = k
                                            /\ s[k] = <<s[k][1], p.resolve[s[k][1]]>>
                  /\ \A m \in ProjectFrames(p, q) : Height(p, m) \in 1 .. Len(s) /\ s[Height(p, m)][1] = m
  BY FramesAre DEF IsPath
<1>3. <<n, p.resolve[n]>> \in Frames(p)
  BY DEF Frames
<1>4. t \in Seq(Frames(p))
  BY <1>3
<1>5. CASE p.resolve[n] = "none"
  <2>1. q = 0 => ProjectFrames(p, n) = {}
    BY <1>5, FramesAre
  <2>2. q # 0 => ProjectFrames(p, n) = ProjectFrames(p, q)
    BY <1>5, FramesAre
  <2>3. q = 0 => Height(p, n) = 0
    BY <2>1, FS_EmptySet DEF Height
  <2>4. q # 0 => Height(p, n) = Height(p, q)
    BY <2>2 DEF Height
  <2>5. t = s
    BY <1>5
  <2>6. CASE q = 0
    BY <1>1, <1>2, <2>1, <2>3, <2>5, <2>6, <1>4 DEF IsPath
  <2>7. CASE q # 0
    BY <1>1, <1>2, <2>2, <2>4, <2>5, <2>7, <1>4 DEF IsPath
  <2> QED BY <2>6, <2>7
<1>6. CASE p.resolve[n] # "none"
  <2>1. /\ t = Append(s, <<n, p.resolve[n]>>) /\ Len(t) = Len(s) + 1 /\ t[Len(s) + 1] = <<n, p.resolve[n]>>
        /\ \A k \in 1 .. Len(s) : t[k] = s[k]
    BY <1>2, <1>6
  <2>2. /\ q = 0 => ProjectFrames(p, n) = {n} /\ Height(p, n) = 1
        /\ q # 0 => /\ ProjectFrames(p, n) = ProjectFrames(p, q) \union {n}
                    /\ Height(p, n) = Height(p, q) + 1
    BY <1>6, FramesAre
  <2>3. Height(p, n) = Len(s) + 1 /\ n \in ProjectFrames(p, n)
    BY <1>2, <2>2
  <2>4. ASSUME NEW k \in 1 .. Len(t)
        PROVE  /\ t[k][1] \in ProjectFrames(p, n) /\ Height(p, t[k][1]) = k
               /\ t[k] = <<t[k][1], p.resolve[t[k][1]]>>
    <3>1. CASE k = Len(s) + 1
      BY <2>1, <2>3, <3>1
    <3>2. CASE k \in 1 .. Len(s)
      <4>1. q # 0
        BY <1>2, <3>2
      <4>2. t[k] = s[k]
        BY <2>1, <3>2
      <4> QED BY <1>2, <2>2, <3>2, <4>1, <4>2
    <3>3. k = Len(s) + 1 \/ k \in 1 .. Len(s)
      BY <1>2, <2>1
    <3> QED BY <3>1, <3>2, <3>3
  <2>5. ASSUME NEW m \in ProjectFrames(p, n)
        PROVE  Height(p, m) \in 1 .. Len(t) /\ t[Height(p, m)][1] = m
    <3>1. CASE m = n
      BY <1>2, <2>1, <2>3, <3>1
    <3>2. CASE m # n
      <4>1. q # 0 /\ m \in ProjectFrames(p, q)
        BY <2>2, <3>2
      <4>2. Height(p, m) \in 1 .. Len(s) /\ s[Height(p, m)][1] = m
        BY <1>2, <4>1
      <4> QED BY <1>2, <2>1, <4>2
    <3> QED BY <3>1, <3>2
  <2>6. n # 0 /\ Len(t) = Height(p, n)
    BY <1>1, <2>1, <2>3
  <2> HIDE DEF t
  <2>7. IsPath(p, n, t)
    BY <2>4, <2>5, <2>6 DEF IsPath
  <2> QED BY <1>4, <2>7 DEF t
<1> QED BY <1>5, <1>6

(* The levels of its path are the stack a sample shows.                     *)
LEMMA PathShows ==
  ASSUME NEW p, ProperProfile(p), NEW n \in TreeNodes(p), NEW s, s \in Seq(Frames(p)), IsPath(p, n, s)
  PROVE  Levels(s) = StackOf(p, n)
<1>1. n # 0 /\ Len(s) \in Nat
  BY DEF ProperProfile
<1>2. /\ \A k \in 1 .. Len(s) : /\ s[k][1] \in ProjectFrames(p, n) /\ Height(p, s[k][1]) = k
                                /\ s[k] = <<s[k][1], p.resolve[s[k][1]]>>
      /\ \A m \in ProjectFrames(p, n) : Height(p, m) \in 1 .. Len(s) /\ s[Height(p, m)][1] = m
  BY <1>1 DEF IsPath
<1>3. ASSUME NEW m \in ProjectFrames(p, n)
      PROVE  Cardinality(ProjectFrames(p, m) \ {m}) = Height(p, m) - 1
  <2>1. m \in TreeNodes(p) /\ m \in ProjectFrames(p, m)
    BY DEF ProjectFrames, CallPath
  <2>2. IsFiniteSet(ProjectFrames(p, m))
    BY <2>1, FramesAre
  <2> QED BY <2>1, <2>2, FS_RemoveElement DEF Height
<1>4. ASSUME NEW k \in 1 .. Len(s) PROVE <<k - 1, s[k][2]>> \in StackOf(p, n)
  <2> DEFINE m == s[k][1]
  <2>1. m \in ProjectFrames(p, n) /\ Height(p, m) = k /\ s[k][2] = p.resolve[m]
    BY <1>2
  <2> HIDE DEF m
  <2>2. <<k - 1, s[k][2]>> = <<Cardinality(ProjectFrames(p, m) \ {m}), p.resolve[m]>>
    BY <1>3, <2>1
  <2> QED BY <2>1, <2>2 DEF StackOf
<1>5. ASSUME NEW m \in ProjectFrames(p, n)
      PROVE  <<Cardinality(ProjectFrames(p, m) \ {m}), p.resolve[m]>> \in Levels(s)
  <2> DEFINE k == Height(p, m)
  <2>1. k \in 1 .. Len(s) /\ s[k][1] = m
    BY <1>2
  <2>2. s[k] = <<s[k][1], p.resolve[s[k][1]]>>
    BY <1>2, <2>1
  <2>3. s[k][2] = p.resolve[m]
    BY <2>1, <2>2
  <2>4. Cardinality(ProjectFrames(p, m) \ {m}) = k - 1
    BY <1>3
  <2> HIDE DEF k
  <2> QED BY <2>1, <2>3, <2>4 DEF Levels
<1>6. StackOf(p, n) \subseteq Levels(s)
  BY <1>5, Zenon DEF StackOf
<1>7. Levels(s) \subseteq StackOf(p, n)
  BY <1>4, Zenon DEF Levels
<1> QED BY <1>6, <1>7

(* The clock of the samples: each adds its interval.                        *)
Interval(p, i) == IF i < Len(p.deltas) THEN p.deltas[i + 1] ELSE 0

LEMMA ClockIs ==
  ASSUME NEW p, ProperProfile(p)
  PROVE  /\ SampledAt(p, 0) = p.start /\ \A i \in Nat : SampledAt(p, i) \in Int
         /\ \A i \in Nat : SampledAt(p, i + 1) = SampledAt(p, i) + Interval(p, i) /\ Interval(p, i) \in Nat
         /\ \A i, j \in Nat : j <= i => SampledAt(p, j) <= SampledAt(p, i)
<1> DEFINE D(i) == (1 .. i) \intersect DOMAIN p.deltas
           Ticks(j) == {j} \X (1 .. p.deltas[j])
           T(i) == UNION {Ticks(j) : j \in D(i)}
<1>1. p.start \in Int /\ Len(p.deltas) \in Nat /\ DOMAIN p.deltas = 1 .. Len(p.deltas)
      /\ \A j \in 1 .. Len(p.deltas) : p.deltas[j] \in Nat
  BY DEF ProperProfile
<1>2. ASSUME NEW j \in DOMAIN p.deltas
      PROVE  IsFiniteSet(Ticks(j)) /\ Cardinality(Ticks(j)) = p.deltas[j]
  <2>1. IsFiniteSet(1 .. p.deltas[j]) /\ Cardinality(1 .. p.deltas[j]) = p.deltas[j]
    <3>1. p.deltas[j] \in Nat
      BY <1>1
    <3> QED BY <3>1, FS_Interval
  <2>2. IsFiniteSet({j}) /\ Cardinality({j}) = 1
    BY FS_Singleton
  <2>3. Cardinality(Ticks(j)) = 1 * p.deltas[j] /\ IsFiniteSet(Ticks(j))
    BY <2>1, <2>2, FS_Product
  <2> QED BY <1>1, <2>3
<1>3. ASSUME NEW i \in Nat PROVE IsFiniteSet(T(i)) /\ Cardinality(T(i)) \in Nat
  <2>1. IsFiniteSet(D(i))
    <3>1. IsFiniteSet(1 .. i) /\ D(i) \in SUBSET (1 .. i)
      BY FS_Interval
    <3> QED BY <3>1, FS_Subset
  <2> DEFINE U == {Ticks(j) : j \in D(i)}
             f == [j \in D(i) |-> Ticks(j)]
  <2>2. f \in Surjection(D(i), U)
    BY DEF Surjection
  <2>3. IsFiniteSet(U)
    BY <2>1, <2>2, FS_Surjection
  <2>4. \A X \in U : IsFiniteSet(X)
    BY <1>2
  <2> HIDE DEF U
  <2>5. IsFiniteSet(UNION U)
    BY <2>3, <2>4, FS_UNION
  <2>6. IsFiniteSet(T(i))
    BY <2>5 DEF U
  <2> QED BY <2>6, FS_CardinalityType
<1>4. \A i : SampledAt(p, i) = p.start + Cardinality(T(i))
  BY DEF SampledAt
<1>5. Cardinality(T(0)) = 0
  <2>1. T(0) = {}
    OBVIOUS
  <2> QED BY <2>1, FS_EmptySet
<1>6. ASSUME NEW i \in Nat
      PROVE  Cardinality(T(i + 1)) = Cardinality(T(i)) + Interval(p, i) /\ Interval(p, i) \in Nat
  <2>1. CASE i < Len(p.deltas)
    <3>1. i + 1 \in DOMAIN p.deltas /\ Interval(p, i) = p.deltas[i + 1] /\ p.deltas[i + 1] \in Nat
      BY <1>1, <2>1 DEF Interval
    <3>2. D(i + 1) = D(i) \union {i + 1} /\ i + 1 \notin D(i)
      BY <1>1, <3>1
    <3> HIDE DEF D
    <3>3. T(i + 1) = T(i) \union Ticks(i + 1)
      BY <3>2
    <3>4. T(i) \intersect Ticks(i + 1) = {}
      BY <3>2
    <3>5. IsFiniteSet(T(i)) /\ IsFiniteSet(Ticks(i + 1)) /\ Cardinality(Ticks(i + 1)) = p.deltas[i + 1]
      BY <1>2, <1>3, <3>1
    <3> HIDE DEF T, Ticks
    <3>6. Cardinality(T(i)) \in Nat /\ Cardinality({}) = 0
      BY <1>3, FS_EmptySet
    <3>7. Cardinality(T(i + 1)) = Cardinality(T(i)) + Cardinality(Ticks(i + 1)) - Cardinality({})
      BY <3>3, <3>4, <3>5, FS_Union
    <3> QED BY <3>1, <3>5, <3>6, <3>7
  <2>2. CASE ~(i < Len(p.deltas))
    <3>1. D(i + 1) = D(i) /\ Interval(p, i) = 0
      BY <1>1, <2>2 DEF Interval
    <3> HIDE DEF D
    <3>2. T(i + 1) = T(i)
      BY <3>1
    <3>3. Cardinality(T(i)) \in Nat
      BY <1>3
    <3> HIDE DEF T
    <3> QED BY <3>1, <3>2, <3>3
  <2> QED BY <2>1, <2>2
<1>7. ASSUME NEW i \in Nat, NEW j \in Nat, j <= i PROVE Cardinality(T(j)) <= Cardinality(T(i))
  <2>1. D(j) \subseteq D(i)
    BY <1>7
  <2> HIDE DEF D
  <2>2. T(j) \in SUBSET T(i)
    BY <2>1
  <2>3. IsFiniteSet(T(i))
    BY <1>3
  <2> QED BY <2>2, <2>3, FS_Subset
<1> HIDE DEF T
<1>8. \A i \in Nat : Cardinality(T(i)) \in Nat
  BY <1>3
<1>9. ASSUME NEW i \in Nat
      PROVE  SampledAt(p, i) \in Int /\ SampledAt(p, i + 1) = SampledAt(p, i) + Interval(p, i)
             /\ Interval(p, i) \in Nat
  <2>1. /\ SampledAt(p, i) = p.start + Cardinality(T(i))
        /\ SampledAt(p, i + 1) = p.start + Cardinality(T(i + 1))
    BY <1>4
  <2>2. /\ Cardinality(T(i)) \in Nat /\ Interval(p, i) \in Nat
        /\ Cardinality(T(i + 1)) = Cardinality(T(i)) + Interval(p, i)
    BY <1>6, <1>8
  <2> QED BY <1>1, <2>1, <2>2
<1>10. ASSUME NEW i \in Nat, NEW j \in Nat, j <= i PROVE SampledAt(p, j) <= SampledAt(p, i)
  <2>1. /\ SampledAt(p, i) = p.start + Cardinality(T(i))
        /\ SampledAt(p, j) = p.start + Cardinality(T(j))
    BY <1>4
  <2>2. /\ Cardinality(T(i)) \in Nat /\ Cardinality(T(j)) \in Nat
        /\ Cardinality(T(j)) <= Cardinality(T(i))
    BY <1>7, <1>8, <1>10
  <2> QED BY <1>1, <2>1, <2>2
<1>11. SampledAt(p, 0) = p.start
  BY <1>1, <1>4, <1>5
<1> QED BY <1>9, <1>10, <1>11

(* One event more does not change the stack the ones before it left.        *)
LEMMA StackStays ==
  ASSUME NEW p, NEW ev \in Seq(Entries(p)), NEW e \in Entries(p), NEW S \in SUBSET (1 .. Len(ev))
  PROVE  StackAfter(Append(ev, e), S) = StackAfter(ev, S)
<1> DEFINE w == Append(ev, e)
<1>1. \A c \in S : w[c] = ev[c]
  OBVIOUS
<1> HIDE DEF w
<1>2. OpenCalls(w, S) = OpenCalls(ev, S)
  BY <1>1 DEF OpenCalls
<1>3. \A c \in OpenCalls(ev, S) : w[c] = ev[c]
  BY <1>1 DEF OpenCalls
<1>4. StackAfter(w, S) = StackAfter(ev, S)
  BY <1>2, <1>3 DEF StackAfter
<1> QED BY <1>4 DEF w

OnTop(stack, e) ==
  LET depths == {frame[1] : frame \in stack}
  IN  IF e.event = "call" THEN depths = 0 .. e.depth - 1
      ELSE depths = 0 .. e.depth /\ <<e.depth, e.node>> \in stack

LEMMA NestGrows ==
  ASSUME NEW p, NEW ev \in Seq(Entries(p)), NEW e \in Entries(p), CallsNest(ev),
         OnTop(StackAfter(ev, DOMAIN ev), e)
  PROVE  CallsNest(Append(ev, e))
<1> DEFINE w == Append(ev, e)
           n == Len(ev)
<1>1. /\ n \in Nat /\ DOMAIN ev = 1 .. n /\ DOMAIN w = 1 .. n + 1 /\ w[n + 1] = e
      /\ \A k \in 1 .. n : w[k] = ev[k]
  OBVIOUS
<1>2. \A k \in 1 .. n + 1 : 1 .. k - 1 \in SUBSET (1 .. n)
  BY <1>1
<1>3. \A k \in 1 .. n + 1 : StackAfter(w, 1 .. k - 1) = StackAfter(ev, 1 .. k - 1)
  BY <1>2, StackStays
<1> HIDE DEF w, n
<1>4. \A k \in 1 .. n : OnTop(StackAfter(ev, 1 .. k - 1), ev[k])
  BY <1>1 DEF CallsNest, OnTop
<1>5. ASSUME NEW k \in 1 .. n + 1 PROVE OnTop(StackAfter(w, 1 .. k - 1), w[k])
  <2>1. CASE k = n + 1
    <3>1. 1 .. k - 1 = DOMAIN ev /\ w[k] = e
      BY <1>1, <2>1
    <3>2. StackAfter(w, 1 .. k - 1) = StackAfter(ev, DOMAIN ev)
      BY <1>3, <3>1
    <3> QED BY <3>1, <3>2
  <2>2. CASE k \in 1 .. n
    BY <1>1, <1>3, <1>4, <2>2
  <2> QED BY <1>1, <2>1, <2>2
<1>6. CallsNest(w)
  BY <1>1, <1>5 DEF CallsNest, OnTop
<1> QED BY <1>6 DEF w

LEMMA LevelAdded ==
  ASSUME NEW p, NEW open \in Seq(Frames(p)), NEW frame \in Frames(p)
  PROVE  Levels(Append(open, frame)) = Levels(open) \union {<<Len(open), frame[2]>>}
<1> DEFINE n == Len(open)
           s == Append(open, frame)
<1>1. n \in Nat
  OBVIOUS
<1>2. Len(s) = n + 1 /\ s[n + 1] = frame /\ \A k \in 1 .. n : s[k] = open[k]
  OBVIOUS
<1> HIDE DEF s, n
<1>3. 1 .. n + 1 = (1 .. n) \union {n + 1} /\ (n + 1) - 1 = n
  BY <1>1
<1>4. Levels(s) = {<<k - 1, s[k][2]>> : k \in 1 .. n} \union {<<n, frame[2]>>}
  BY <1>2, <1>3 DEF Levels
<1>5. {<<k - 1, s[k][2]>> : k \in 1 .. n} = Levels(open)
  BY <1>2 DEF Levels, n
<1>6. Levels(s) = Levels(open) \union {<<n, frame[2]>>}
  BY <1>4, <1>5
<1> QED BY <1>6 DEF s, n

LEMMA LevelsAre ==
  ASSUME NEW p, NEW open \in Seq(Frames(p))
  PROVE  /\ {f[1] : f \in Levels(open)} = 0 .. Len(open) - 1
         /\ open # <<>> =>
              /\ Levels(Front(open)) = {f \in Levels(open) : f[1] # Len(open) - 1}
              /\ <<Len(open) - 1, Last(open)[2]>> \in Levels(open)
              /\ Front(open) \in Seq(Frames(p)) /\ Last(open) \in Frames(p)
              /\ Len(open) \in Nat \ {0}
<1> DEFINE n == Len(open)
<1>1. n \in Nat
  OBVIOUS
<1>2. {f[1] : f \in Levels(open)} = 0 .. n - 1
  <2>1. ASSUME NEW f \in Levels(open) PROVE f[1] \in 0 .. n - 1
    BY <1>1 DEF Levels
  <2>2. ASSUME NEW d \in 0 .. n - 1 PROVE \E f \in Levels(open) : f[1] = d
    <3>1. d + 1 \in 1 .. n /\ (d + 1) - 1 = d
      BY <1>1
    <3>2. <<(d + 1) - 1, open[d + 1][2]>> \in Levels(open)
      BY <3>1 DEF Levels
    <3> QED BY <3>1, <3>2
  <2> QED BY <2>1, <2>2
<1>4. CASE open # <<>>
  <2>1. n \in Nat \ {0} /\ n \in 1 .. n
    BY <1>1, <1>4
  <2>2. /\ Front(open) = SubSeq(open, 1, n - 1) /\ Last(open) = open[n]
    BY DEF Front, Last
  <2>3. /\ Front(open) \in Seq(Frames(p)) /\ Len(Front(open)) = n - 1 /\ Last(open) \in Frames(p)
        /\ \A k \in 1 .. n - 1 : Front(open)[k] = open[k]
    <3> DEFINE m == n - 1
    <3>1. m \in Nat /\ m + 1 = n
      BY <2>1
    <3>2. Last(open) \in Frames(p) /\ Front(open) = SubSeq(open, 1, m) /\ \A k \in 1 .. m : open[k] \in Frames(p)
      BY <2>1, <2>2
    <3> HIDE DEF m, n
    <3>3. /\ SubSeq(open, 1, m) \in Seq(Frames(p))
          /\ Len(SubSeq(open, 1, m)) = IF 1 <= m THEN m - 1 + 1 ELSE 0
          /\ \A k \in 1 .. m - 1 + 1 : SubSeq(open, 1, m)[k] = open[1 + k - 1]
      BY <3>1, <3>2, SubSeqProperties
    <3>4. Len(Front(open)) = m /\ \A k \in 1 .. m : Front(open)[k] = open[k]
      BY <3>1, <3>2, <3>3
    <3> QED BY <3>2, <3>3, <3>4 DEF m
  <2>4. <<n - 1, Last(open)[2]>> \in Levels(open)
    BY <2>1, <2>2 DEF Levels
  <2>5. Levels(Front(open)) = {<<k - 1, open[k][2]>> : k \in 1 .. n - 1}
    BY <2>1, <2>3 DEF Levels
  <2>6. ASSUME NEW k \in 1 .. n - 1 PROVE <<k - 1, open[k][2]>> \in {f \in Levels(open) : f[1] # n - 1}
    BY <1>1 DEF Levels
  <2>7. ASSUME NEW f \in Levels(open), f[1] # n - 1 PROVE f \in {<<k - 1, open[k][2]>> : k \in 1 .. n - 1}
    <3>1. PICK k \in 1 .. n : f = <<k - 1, open[k][2]>>
      BY DEF Levels
    <3>2. k # n
      BY <2>7, <3>1
    <3>3. k \in 1 .. n - 1
      BY <1>1, <3>1, <3>2
    <3> QED BY <3>1, <3>3
  <2>8. Levels(Front(open)) = {f \in Levels(open) : f[1] # n - 1}
    <3> DEFINE X == {<<k - 1, open[k][2]>> : k \in 1 .. n - 1}
               Y == {f \in Levels(open) : f[1] # n - 1}
    <3>1. X \subseteq Y
      BY <2>6, Zenon
    <3>2. Y \subseteq X
      BY <2>7, Zenon
    <3>3. Levels(Front(open)) = X
      BY <2>5
    <3> HIDE DEF X, Y
    <3>4. Levels(Front(open)) = Y
      BY <3>1, <3>2, <3>3
    <3> QED BY <3>4 DEF Y
  <2> QED BY <1>2, <2>1, <2>3, <2>4, <2>8
<1> QED BY <1>2, <1>4

(* A call opens a frame on top of the stack.                                *)
LEMMA CallOpens ==
  ASSUME NEW p, NEW ev \in Seq(Entries(p)), NEW open \in Seq(Frames(p)), NEW frame \in Frames(p), NEW ts \in Int,
         CallsNest(ev), StackAfter(ev, DOMAIN ev) = Levels(open)
  PROVE  LET e == Event("call", frame, ts, Len(open))
             w == Append(ev, e)
         IN  e \in Entries(p) /\ CallsNest(w) /\ StackAfter(w, DOMAIN w) = Levels(Append(open, frame))
<1> DEFINE e == Event("call", frame, ts, Len(open))
           w == Append(ev, e)
           n == Len(ev)
<1>1. e \in Entries(p)
  <2>1. frame[2] \in {p.resolve[m] : m \in TreeNodes(p)}
    BY DEF Frames
  <2>2. Len(open) \in Nat
    OBVIOUS
  <2> QED BY <2>1, <2>2 DEF Event, Entries
<1>2. e.event = "call" /\ e.depth = Len(open) /\ e.node = frame[2] /\ e.ts = ts
  BY DEF Event
<1> HIDE DEF e
<1>3. OnTop(StackAfter(ev, DOMAIN ev), e)
  BY <1>2, LevelsAre DEF OnTop
<1>4. CallsNest(w)
  BY <1>1, <1>3, NestGrows
<1>5. /\ n \in Nat /\ DOMAIN ev = 1 .. n /\ DOMAIN w = (1 .. n) \union {n + 1} /\ w[n + 1] = e
      /\ \A k \in 1 .. n : w[k] = ev[k] /\ k < n + 1
  BY <1>1
<1> HIDE DEF w, n
<1>6. OpenCalls(w, DOMAIN w) = OpenCalls(ev, 1 .. n) \union {n + 1}
  <2>1. ASSUME NEW c \in 1 .. n PROVE c \in OpenCalls(w, DOMAIN w) <=> c \in OpenCalls(ev, 1 .. n)
    <3>1. w[n + 1].event # "return"
      BY <1>2, <1>5
    <3> QED BY <1>5, <3>1 DEF OpenCalls
  <2>2. n + 1 \in OpenCalls(w, DOMAIN w)
    BY <1>2, <1>5 DEF OpenCalls
  <2>3. OpenCalls(w, DOMAIN w) \subseteq DOMAIN w /\ OpenCalls(ev, 1 .. n) \subseteq 1 .. n
    BY DEF OpenCalls
  <2> QED BY <1>5, <2>1, <2>2, <2>3
<1>7. \A c \in OpenCalls(ev, 1 .. n) : w[c] = ev[c]
  BY <1>5 DEF OpenCalls
<1>8. StackAfter(w, DOMAIN w) = StackAfter(ev, 1 .. n) \union {<<Len(open), frame[2]>>}
  <2> DEFINE O == OpenCalls(ev, 1 .. n)
  <2>1. StackAfter(w, DOMAIN w) = {<<w[c].depth, w[c].node>> : c \in O \union {n + 1}}
    BY <1>6 DEF StackAfter
  <2>2. StackAfter(ev, 1 .. n) = {<<ev[c].depth, ev[c].node>> : c \in O}
    BY DEF StackAfter
  <2>3. /\ \A c \in O : w[c].depth = ev[c].depth /\ w[c].node = ev[c].node
        /\ w[n + 1].depth = Len(open) /\ w[n + 1].node = frame[2]
    BY <1>2, <1>5, <1>7
  <2> HIDE DEF O
  <2> QED BY <2>1, <2>2, <2>3
<1>9. StackAfter(w, DOMAIN w) = Levels(Append(open, frame))
  <2>1. StackAfter(ev, 1 .. n) = Levels(open)
    BY <1>5
  <2>2. Levels(Append(open, frame)) = Levels(open) \union {<<Len(open), frame[2]>>}
    BY LevelAdded
  <2> QED BY <1>8, <2>1, <2>2
<1> QED BY <1>1, <1>4, <1>9 DEF w, e

(* A return closes the one on top.                                          *)
LEMMA ReturnCloses ==
  ASSUME NEW p, NEW ev \in Seq(Entries(p)), NEW open \in Seq(Frames(p)), open # <<>>, NEW ts \in Int,
         CallsNest(ev), StackAfter(ev, DOMAIN ev) = Levels(open)
  PROVE  LET e == Event("return", Last(open), ts, Len(open) - 1)
             w == Append(ev, e)
         IN  e \in Entries(p) /\ CallsNest(w) /\ StackAfter(w, DOMAIN w) = Levels(Front(open))
<1> DEFINE e == Event("return", Last(open), ts, Len(open) - 1)
           w == Append(ev, e)
           n == Len(ev)
           d == Len(open) - 1
<1>1. /\ Levels(Front(open)) = {f \in Levels(open) : f[1] # d}
      /\ <<d, Last(open)[2]>> \in Levels(open) /\ Last(open) \in Frames(p) /\ d \in Nat
      /\ {f[1] : f \in Levels(open)} = 0 .. d
  <2>1. /\ Levels(Front(open)) = {f \in Levels(open) : f[1] # Len(open) - 1}
        /\ <<Len(open) - 1, Last(open)[2]>> \in Levels(open) /\ Last(open) \in Frames(p)
        /\ Len(open) \in Nat \ {0}
    BY LevelsAre
  <2>2. {f[1] : f \in Levels(open)} = 0 .. Len(open) - 1
    BY LevelsAre
  <2>3. d \in Nat
    BY <2>1
  <2> QED BY <2>1, <2>2, <2>3
<1>2. e \in Entries(p)
  <2>1. Last(open)[2] \in {p.resolve[m] : m \in TreeNodes(p)}
    BY <1>1 DEF Frames
  <2> QED BY <1>1, <2>1 DEF Event, Entries
<1>3. e.event = "return" /\ e.depth = d /\ e.node = Last(open)[2] /\ e.ts = ts
  BY DEF Event
<1> HIDE DEF e
<1>4. OnTop(StackAfter(ev, DOMAIN ev), e)
  BY <1>1, <1>3 DEF OnTop
<1>5. CallsNest(w)
  BY <1>2, <1>4, NestGrows
<1>6. /\ n \in Nat /\ DOMAIN ev = 1 .. n /\ DOMAIN w = (1 .. n) \union {n + 1} /\ w[n + 1] = e
      /\ \A k \in 1 .. n : w[k] = ev[k] /\ k < n + 1
  BY <1>2
<1> HIDE DEF w, n, d
<1>7. OpenCalls(w, DOMAIN w) = {c \in OpenCalls(ev, 1 .. n) : ev[c].depth # d}
  <2>1. ASSUME NEW c \in 1 .. n
        PROVE  c \in OpenCalls(w, DOMAIN w) <=> c \in OpenCalls(ev, 1 .. n) /\ ev[c].depth # d
    <3>1. w[n + 1].event = "return" /\ w[n + 1].depth = d /\ n + 1 > c
      BY <1>3, <1>6
    <3> QED BY <1>6, <3>1 DEF OpenCalls
  <2>2. n + 1 \notin OpenCalls(w, DOMAIN w)
    BY <1>3, <1>6 DEF OpenCalls
  <2>3. OpenCalls(w, DOMAIN w) \subseteq DOMAIN w /\ OpenCalls(ev, 1 .. n) \subseteq 1 .. n
    BY DEF OpenCalls
  <2> QED BY <1>6, <2>1, <2>2, <2>3
<1>8. \A c \in OpenCalls(ev, 1 .. n) : w[c] = ev[c]
  BY <1>6 DEF OpenCalls
<1>9. StackAfter(w, DOMAIN w) = {f \in StackAfter(ev, 1 .. n) : f[1] # d}
  BY <1>7, <1>8 DEF StackAfter
<1>10. StackAfter(w, DOMAIN w) = Levels(Front(open))
  BY <1>1, <1>6, <1>9
<1> QED BY <1>2, <1>5, <1>10 DEF w, e

(* What was shown before a later event is still shown.                      *)
LEMMA ShownStays ==
  ASSUME NEW p, ProperProfile(p), NEW j \in Nat, NEW a, NEW b, a.events \in Seq(Entries(p)), NEW e \in Entries(p),
         b.events = Append(a.events, e), Shows(p, a, j), SampledAt(p, j) <= e.ts
  PROVE  Shows(p, b, j)
<1> DEFINE ev == a.events
           w == b.events
<1> SUFFICES ASSUME p.samples[j] \in TreeNodes(p),
                    NEW t \in SampledAt(p, j - 1) .. SampledAt(p, j) - 1
             PROVE  StackAfter(w, Until(w, t)) = StackOf(p, p.samples[j])
  BY DEF Shows
<1>1. StackAfter(ev, Until(ev, t)) = StackOf(p, p.samples[j])
  BY DEF Shows
<1>2. t \in Int /\ t < e.ts
  <2>1. SampledAt(p, j) \in Int /\ e.ts \in Int
    BY ClockIs DEF Entries
  <2> QED BY <2>1
<1>3. Until(w, t) = Until(ev, t) /\ Until(ev, t) \in SUBSET (1 .. Len(ev))
  <2>1. /\ DOMAIN ev = 1 .. Len(ev) /\ DOMAIN w = (1 .. Len(ev)) \union {Len(ev) + 1} /\ w[Len(ev) + 1] = e
        /\ \A k \in 1 .. Len(ev) : w[k] = ev[k]
    OBVIOUS
  <2>2. e.ts \in Int /\ ~(e.ts <= t)
    BY <1>2 DEF Entries
  <2> HIDE DEF ev, w
  <2> QED BY <2>1, <2>2 DEF Until
<1>4. StackAfter(w, Until(ev, t)) = StackAfter(ev, Until(ev, t))
  BY <1>3, StackStays
<1> QED BY <1>1, <1>3, <1>4

LEMMA PrefixIs ==
  ASSUME NEW S, NEW s \in Seq(S), NEW t \in Seq(S)
  PROVE  /\ IsPrefix(<<>>, t)
         /\ IsPrefix(s, s)
         /\ IsStrictPrefix(s, t) => Len(s) < Len(t)
<1>1. IsPrefix(<<>>, t)
  <2>1. SubSeq(<<>>, 1, 0) = <<>> /\ SubSeq(t, 1, 0) = <<>>
    BY SubSeqEmpty
  <2>2. Len(<<>>) = 0 /\ Len(t) \in Nat
    OBVIOUS
  <2> QED BY <2>1, <2>2 DEF IsPrefix
<1>2. IsPrefix(s, s)
  <2>1. Len(s) \in Nat
    OBVIOUS
  <2> QED BY <2>1 DEF IsPrefix
<1>3. ASSUME IsStrictPrefix(s, t) PROVE Len(s) < Len(t)
  <2>1. Len(s) <= Len(t) /\ SubSeq(s, 1, Len(s)) = SubSeq(t, 1, Len(s)) /\ s # t
    BY <1>3 DEF IsStrictPrefix, IsPrefix
  <2>2. SubSeq(s, 1, Len(s)) = s /\ SubSeq(t, 1, Len(t)) = t
    BY SubSeqFull
  <2>3. Len(s) # Len(t)
    BY <2>1, <2>2
  <2>4. Len(s) \in Nat /\ Len(t) \in Nat
    OBVIOUS
  <2> QED BY <2>1, <2>3, <2>4
<1> QED BY <1>1, <1>2, <1>3

LEMMA ArrivedShows ==
  ASSUME NEW p, ProperProfile(p), NEW b, WalkTypes(p, b), WalkInv(p, b), StreamInv(p, b), Towards(p, b),
         b.status = "emit", Reached(b)
  PROVE  Shows(p, b, b.i)
<1> SUFFICES ASSUME p.samples[b.i] \in TreeNodes(p),
                    NEW t \in SampledAt(p, b.i - 1) .. SampledAt(p, b.i) - 1
             PROVE  StackAfter(b.events, Until(b.events, t)) = StackOf(p, p.samples[b.i])
  BY DEF Shows
<1>1. /\ b.pending = <<>> /\ b.open = b.path /\ b.cur = p.samples[b.i] /\ b.stamp = SampledAt(p, b.i - 1)
      /\ b.i \in 1 .. Len(p.samples) /\ IsPath(p, b.cur, b.path) /\ b.path \in Seq(Frames(p))
  <2>1. Len(p.samples) \in Nat
    BY DEF ProperProfile
  <2>2. b.i \in 1 .. Len(p.samples) /\ b.i <= Len(p.samples)
    BY <2>1 DEF Towards
  <2>3. b.pending = <<>> /\ b.open = b.path
    BY DEF Reached
  <2> QED BY <2>2, <2>3 DEF Towards, WalkInv, WalkTypes
<1>2. Until(b.events, t) = DOMAIN b.events
  <2>1. ASSUME NEW e \in DOMAIN b.events PROVE b.events[e].ts <= t
    <3>1. b.events[e].ts <= b.stamp /\ b.stamp \in Int
      BY DEF StreamInv, WalkTypes
    <3>2. b.events[e].ts \in Int
      <4>1. b.events[e] \in Entries(p)
        BY DEF WalkTypes
      <4> QED BY <4>1 DEF Entries
    <3>3. b.i - 1 \in Nat /\ b.i \in Nat
      <4>1. Len(p.samples) \in Nat
        BY DEF ProperProfile
      <4> QED BY <1>1, <4>1
    <3>4. SampledAt(p, b.i - 1) \in Int /\ SampledAt(p, b.i) \in Int
      BY <3>3, ClockIs
    <3>5. t \in Int /\ b.stamp <= t
      BY <1>1, <3>4
    <3> QED BY <3>1, <3>2, <3>5
  <2> QED BY <2>1 DEF Until
<1>3. StackAfter(b.events, DOMAIN b.events) = Levels(b.path)
  BY <1>1 DEF StreamInv
<1>4. Levels(b.path) = StackOf(p, p.samples[b.i])
  BY <1>1, PathShows
<1> QED BY <1>2, <1>3, <1>4

(* It is enough to follow the walk and the stream: what a sample shows      *)
(* follows when its stack is reached.                                        *)
LEMMA SamplesFollow ==
  ASSUME NEW p, ProperProfile(p), NEW b, WalkTypes(p, b), WalkInv(p, b), StreamInv(p, b), b.status # "profiled",
         b.i <= Len(p.samples) => b.cum = SampledAt(p, b.i) /\ b.stamp <= b.cum,
         b.i > Len(p.samples) => SampledAt(p, Len(p.samples)) <= b.stamp,
         Towards(p, b) \/ (b.status = "emit" /\ b.i > Len(p.samples)),
         \A j \in 1 .. Len(p.samples) : j < b.i => Shows(p, b, j)
  PROVE  SampleInv(p, b)
<1>1. Len(p.samples) \in Nat /\ b.i \in Nat
  BY DEF ProperProfile, WalkTypes
<1>2. ASSUME NEW j \in 1 .. Len(p.samples), Reached(b), j = b.i PROVE Shows(p, b, j)
  <2>1. ~(b.i > Len(p.samples))
    BY <1>1, <1>2
  <2>2. Towards(p, b) /\ b.status = "emit"
    BY <1>2, <2>1 DEF Reached
  <2> QED BY <1>2, <2>2, ArrivedShows
<1> QED BY <1>2 DEF SampleInv

LEMMA SameShows ==
  ASSUME NEW p, NEW a, NEW b, b.events = a.events, NEW j, Shows(p, a, j)
  PROVE  Shows(p, b, j)
BY DEF Shows

(* An event more, at the stamp of the sample under way.                     *)
LEMMA EventAdded ==
  ASSUME NEW p, ProperProfile(p), NEW a, NEW b, WalkTypes(p, a), StreamInv(p, a), SampleInv(p, a), ~Reached(a),
         NEW e \in Entries(p), e.ts = a.stamp, b.events = Append(a.events, e),
         b.i = a.i /\ b.cum = a.cum /\ b.stamp = a.stamp /\ b.status = a.status,
         b.pending = a.pending /\ b.cur = a.cur
  PROVE  /\ \A x, y \in DOMAIN b.events : x < y => b.events[x].ts <= b.events[y].ts
         /\ \A x \in DOMAIN b.events : b.events[x].ts <= b.stamp
         /\ \A j \in 1 .. Len(p.samples) : j < b.i => Shows(p, b, j)
         /\ b.i <= Len(p.samples) => b.cum = SampledAt(p, b.i) /\ b.stamp <= b.cum
         /\ b.i > Len(p.samples) => SampledAt(p, Len(p.samples)) <= b.stamp
         /\ Towards(p, b) \/ (b.status = "emit" /\ b.i > Len(p.samples))
<1> DEFINE ev == a.events
           w == b.events
           n == Len(a.events)
<1>1. ev \in Seq(Entries(p)) /\ a.stamp \in Int /\ a.i \in Nat /\ Len(p.samples) \in Nat
  BY DEF WalkTypes, ProperProfile
<1>2. /\ n \in Nat /\ DOMAIN ev = 1 .. n /\ DOMAIN w = (1 .. n) \union {n + 1} /\ w[n + 1] = e
      /\ \A k \in 1 .. n : w[k] = ev[k] /\ ev[k].ts \in Int
  <2>1. \A x \in Entries(p) : x.ts \in Int
    BY DEF Entries
  <2> QED BY <1>1, <2>1
<1>3. /\ \A x, y \in DOMAIN ev : x < y => ev[x].ts <= ev[y].ts
      /\ \A x \in DOMAIN ev : ev[x].ts <= a.stamp
  BY DEF StreamInv
<1>4. /\ a.i <= Len(p.samples) => a.cum = SampledAt(p, a.i) /\ a.stamp <= a.cum
      /\ a.i > Len(p.samples) => SampledAt(p, Len(p.samples)) <= a.stamp
      /\ Towards(p, a) \/ (a.status = "emit" /\ a.i > Len(p.samples))
      /\ \A j \in 1 .. Len(p.samples) : j < a.i => Shows(p, a, j)
  BY DEF SampleInv
<1>5. Towards(p, a) => Towards(p, b)
  BY DEF Towards
<1>6. ASSUME NEW j \in 1 .. Len(p.samples), j < b.i PROVE Shows(p, b, j)
  <2>1. j \in Nat /\ j < a.i /\ SampledAt(p, j) \in Int
    BY <1>1, <1>6, ClockIs
  <2>2. CASE Towards(p, a)
    <3>1. a.stamp = SampledAt(p, a.i - 1) /\ a.i - 1 \in Nat /\ j <= a.i - 1
      BY <1>1, <2>1, <2>2 DEF Towards
    <3>2. SampledAt(p, j) <= e.ts
      BY <2>1, <3>1, ClockIs
    <3> QED BY <1>1, <1>4, <2>1, <3>2, ShownStays
  <2>3. CASE a.i > Len(p.samples)
    <3>1. SampledAt(p, j) <= SampledAt(p, Len(p.samples)) /\ SampledAt(p, Len(p.samples)) \in Int
      <4>1. j \in Nat /\ Len(p.samples) \in Nat /\ j <= Len(p.samples)
        BY <1>1, <2>1
      <4> QED BY <4>1, ClockIs
    <3>2. SampledAt(p, j) <= e.ts
      BY <1>1, <1>4, <2>1, <2>3, <3>1
    <3> QED BY <1>1, <1>4, <2>1, <3>2, ShownStays
  <2> QED BY <1>4, <2>2, <2>3
<1> HIDE DEF ev, w, n
<1>7. \A x \in DOMAIN w : w[x].ts <= a.stamp
  BY <1>1, <1>2, <1>3
<1>8. ASSUME NEW x \in DOMAIN w, NEW y \in DOMAIN w, x < y PROVE w[x].ts <= w[y].ts
  <2>1. x \in 1 .. n
    BY <1>2, <1>8
  <2>2. CASE y = n + 1
    BY <1>2, <1>7, <2>2
  <2>3. CASE y \in 1 .. n
    BY <1>2, <1>3, <1>8, <2>1, <2>3
  <2> QED BY <1>2, <2>2, <2>3
<1> QED BY <1>4, <1>5, <1>6, <1>7, <1>8 DEF w

(* One step of the reconstruction at a time.                                *)
Sound(p, a) == WalkTypes(p, a) /\ WalkInv(p, a) /\ StreamInv(p, a) /\ SampleInv(p, a)

LEMMA Begun ==
  ASSUME ProfileInv, BeginProfile
  PROVE  Sound(asked, answer')
<1> DEFINE p == asked
           b == answer'
<1>1. ProperProfile(p)
  BY ProfilesAreProper DEF ProfileInv
<1>2. b = [status |-> IF p.samples = <<>> THEN "profiled" ELSE "emit", i |-> 0,
           cum |-> p.start, stamp |-> p.start, cache |-> [n \in {} |-> <<>>],
           cur |-> 0, pending |-> <<>>, path |-> <<>>, open |-> <<>>, events |-> <<>>]
  BY DEF BeginProfile, Answer
<1> HIDE DEF b, p
<1>3. p.start \in Int /\ Len(p.samples) \in Nat
  BY <1>1 DEF ProperProfile
<1>4. WalkTypes(p, b)
  BY <1>2, <1>3 DEF WalkTypes
<1>5. WalkInv(p, b)
  BY <1>2, <1>3 DEF WalkInv, IsPath
<1>6. StreamInv(p, b)
  <2>1. StackAfter(<<>>, {}) = {} /\ Levels(<<>>) = {}
    BY DEF StackAfter, OpenCalls, Levels
  <2>2. b.events = <<>> /\ b.open = <<>> /\ DOMAIN b.events = {}
    BY <1>2
  <2> QED BY <2>1, <2>2 DEF StreamInv, CallsNest
<1>7. SampleInv(p, b)
  <2>1. b.i = 0 /\ b.cum = SampledAt(p, 0) /\ b.stamp = b.cum /\ b.open = <<>> /\ b.path = <<>> /\ b.pending = <<>>
    BY <1>1, <1>2, ClockIs
  <2>2. Reached(b) /\ (b.status = "profiled" => p.samples = <<>>)
    BY <1>2, <2>1 DEF Reached
  <2>3. b.stamp <= b.cum
    BY <1>2, <1>3
  <2> QED BY <1>3, <2>1, <2>2, <2>3 DEF SampleInv
<1> QED BY <1>4, <1>5, <1>6, <1>7 DEF Sound, p, b

LEMMA Taken ==
  ASSUME ProfileInv, SampleKnown \/ SampleUnknown
  PROVE  Sound(asked, answer')
<1> DEFINE p == asked
           a == answer
           b == answer'
<1>1. /\ ProperProfile(p) /\ WalkTypes(p, a) /\ WalkInv(p, a) /\ StreamInv(p, a) /\ SampleInv(p, a)
      /\ a.status = "emit" /\ Reached(a) /\ a.i < Len(p.samples)
  BY ProfilesAreProper DEF ProfileInv, SampleKnown, SampleUnknown, StackReached, In, Reached
<1>2. \/ /\ p.samples[a.i + 1] \in TreeNodes(p)
         /\ b = [a EXCEPT !.i = a.i + 1, !.cum = Clock, !.stamp = a.cum,
                          !.status = "climb", !.cur = p.samples[a.i + 1]]
      \/ p.samples[a.i + 1] \notin TreeNodes(p) /\ b = [a EXCEPT !.i = a.i + 1, !.cum = Clock]
  BY DEF SampleKnown, SampleUnknown, Stamp
<1>3. Clock = a.cum + Interval(p, a.i)
  BY DEF Clock, Interval
<1> HIDE DEF a, b, p
<1>4. /\ a.i \in Nat /\ Len(p.samples) \in Nat /\ a.i + 1 \in 1 .. Len(p.samples)
      /\ a.cum = SampledAt(p, a.i) /\ a.stamp <= a.cum /\ a.stamp \in Int /\ a.cum \in Int
  <2>1. Len(p.samples) \in Nat
    BY <1>1 DEF ProperProfile
  <2>2. a.i \in Nat /\ a.i <= Len(p.samples)
    BY <1>1, <2>1 DEF WalkTypes
  <2>3. a.cum = SampledAt(p, a.i) /\ a.stamp <= a.cum
    BY <1>1, <2>2 DEF SampleInv
  <2> QED BY <1>1, <2>1, <2>2, <2>3 DEF WalkTypes
<1>5. /\ Interval(p, a.i) \in Nat /\ Clock = SampledAt(p, a.i + 1) /\ Clock \in Int /\ a.cum <= Clock
  BY <1>1, <1>3, <1>4, ClockIs
<1>6. /\ DOMAIN b = DOMAIN a /\ b.i = a.i + 1 /\ b.cum = Clock
      /\ b.cache = a.cache /\ b.pending = a.pending /\ b.path = a.path /\ b.open = a.open /\ b.events = a.events
  BY <1>1, <1>2 DEF WalkTypes
<1>7. \/ /\ p.samples[a.i + 1] \in TreeNodes(p) /\ b.stamp = a.cum /\ b.status = "climb"
         /\ b.cur = p.samples[a.i + 1]
      \/ /\ p.samples[a.i + 1] \notin TreeNodes(p) /\ b.stamp = a.stamp /\ b.status = a.status /\ b.cur = a.cur
  BY <1>1, <1>2 DEF WalkTypes
<1>8. a.pending = <<>> /\ a.open = a.path
  BY <1>1 DEF Reached
<1>9. WalkTypes(p, b)
  BY <1>1, <1>4, <1>5, <1>6, <1>7 DEF WalkTypes
<1>10. WalkInv(p, b)
  <2>1. \A n \in DOMAIN b.cache : b.cache[n] \in Seq(Frames(p)) /\ IsPath(p, n, b.cache[n])
    BY <1>1, <1>6 DEF WalkInv
  <2>2. Len(b.pending) = 0
    BY <1>6, <1>8
  <2>3. b.status = "emit" => b.cur = a.cur /\ IsPath(p, a.cur, a.path)
    BY <1>1, <1>4, <1>7 DEF WalkInv
  <2>4. ~(b.i > Len(p.samples))
    BY <1>4, <1>6
  <2> QED BY <1>6, <2>1, <2>2, <2>3, <2>4 DEF WalkInv
<1>11. StreamInv(p, b)
  <2>1. a.stamp <= b.stamp /\ b.stamp \in Int
    BY <1>4, <1>7
  <2>2. \A e \in DOMAIN a.events : a.events[e].ts <= a.stamp /\ a.events[e].ts \in Int
    <3>1. \A e \in DOMAIN a.events : a.events[e] \in Entries(p)
      BY <1>1 DEF WalkTypes
    <3>2. \A e \in DOMAIN a.events : a.events[e].ts \in Int
      BY <3>1 DEF Entries
    <3> QED BY <1>1, <3>2 DEF StreamInv
  <2>3. \A e \in DOMAIN b.events : b.events[e].ts <= b.stamp
    BY <1>4, <1>6, <2>1, <2>2
  <2> QED BY <1>1, <1>6, <2>3 DEF StreamInv
<1>12. ASSUME NEW j \in 1 .. Len(p.samples), j < b.i PROVE Shows(p, b, j)
  <2>1. j < a.i \/ j = a.i
    BY <1>4, <1>6, <1>12
  <2>2. Shows(p, a, j)
    BY <1>1, <2>1 DEF SampleInv
  <2> QED BY <1>6, <2>2, SameShows
<1>13. b.cum = SampledAt(p, b.i) /\ b.stamp <= b.cum /\ ~(b.i > Len(p.samples))
  BY <1>4, <1>5, <1>6, <1>7
<1>14. CASE p.samples[a.i + 1] \in TreeNodes(p)
  <2>1. Towards(p, b)
    BY <1>4, <1>6, <1>7, <1>8, <1>14 DEF Towards
  <2>2. b.status # "profiled"
    BY <1>7, <1>14
  <2> QED BY <1>1, <1>9, <1>10, <1>11, <1>12, <1>13, <2>1, <2>2, SamplesFollow DEF Sound, a, b, p
<1>15. CASE p.samples[a.i + 1] \notin TreeNodes(p)
  <2>1. Reached(b) /\ b.status # "profiled"
    BY <1>1, <1>6, <1>7, <1>15 DEF Reached
  <2>2. Shows(p, b, b.i)
    BY <1>6, <1>15 DEF Shows
  <2>3. SampleInv(p, b)
    BY <1>12, <1>13, <2>1, <2>2 DEF SampleInv
  <2> QED BY <1>9, <1>10, <1>11, <2>3 DEF Sound, a, b, p
<1> QED BY <1>14, <1>15

(* Climbing and coming back change neither the stream nor the samples.      *)
LEMMA WalkStep ==
  ASSUME NEW p, ProperProfile(p), NEW a, NEW b, Sound(p, a), ~Reached(a), WalkTypes(p, b), WalkInv(p, b),
         Towards(p, a), Towards(p, b), b.status # "profiled",
         b.i = a.i /\ b.cum = a.cum /\ b.stamp = a.stamp /\ b.open = a.open /\ b.events = a.events
  PROVE  Sound(p, b)
<1>1. StreamInv(p, b)
  BY DEF Sound, StreamInv
<1>2. \A j \in 1 .. Len(p.samples) : j < b.i => Shows(p, b, j)
  <2>1. \A j \in 1 .. Len(p.samples) : j < a.i => Shows(p, a, j)
    BY DEF Sound, SampleInv
  <2> QED BY <2>1, SameShows
<1>3. /\ b.i <= Len(p.samples) => b.cum = SampledAt(p, b.i) /\ b.stamp <= b.cum
      /\ b.i > Len(p.samples) => SampledAt(p, Len(p.samples)) <= b.stamp
  BY DEF Sound, SampleInv
<1>4. SampleInv(p, b)
  BY <1>1, <1>2, <1>3, SamplesFollow
<1> QED BY <1>1, <1>4 DEF Sound

LEMMA Climbed ==
  ASSUME ProfileInv, ClimbUp \/ TurnBack
  PROVE  Sound(asked, answer')
<1> DEFINE p == asked
           a == answer
           b == answer'
           up == Append(a.pending, a.cur)
           path == IF a.cur \in DOMAIN a.cache THEN a.cache[a.cur] ELSE <<>>
<1>1. /\ ProperProfile(p) /\ Sound(p, a) /\ a.status = "climb"
      /\ MayClimb <=> a.cur # 0 /\ a.cur \notin DOMAIN a.cache /\ a.cur \notin Range(a.pending)
  BY ProfilesAreProper DEF ProfileInv, ClimbUp, TurnBack, In, Sound, MayClimb
<1>2. \/ MayClimb /\ b = [a EXCEPT !.pending = up, !.cur = ParentOf(p, a.cur)]
      \/ ~MayClimb /\ b = [a EXCEPT !.status = "emit", !.path = path]
  BY DEF ClimbUp, TurnBack
<1> HIDE DEF a, b, p, up, path
<1>3. /\ WalkTypes(p, a) /\ WalkInv(p, a) /\ ~Reached(a) /\ Towards(p, a)
      /\ a.cur \in {0} \union TreeNodes(p) /\ a.pending \in Seq(TreeNodes(p)) /\ Len(a.pending) \in Nat
      /\ Len(p.samples) \in Nat /\ a.i \in 1 .. Len(p.samples) /\ TreeNodes(p) \subseteq Nat \ {0}
  <2>1. WalkTypes(p, a) /\ WalkInv(p, a) /\ ~Reached(a)
    BY <1>1 DEF Sound, Reached
  <2>2. Towards(p, a)
    BY <1>1, <2>1 DEF Sound, SampleInv
  <2>3. Len(p.samples) \in Nat /\ TreeNodes(p) \subseteq Nat \ {0}
    BY <1>1 DEF ProperProfile
  <2> QED BY <2>1, <2>2, <2>3 DEF WalkTypes, Towards
<1>4. /\ \A k \in 1 .. Len(a.pending) :
           /\ ParentOf(p, a.pending[k]) = IF k = Len(a.pending) THEN a.cur ELSE a.pending[k + 1]
           /\ a.cur < a.pending[k] /\ a.pending[k] \in TreeNodes(p)
      /\ \A n \in DOMAIN a.cache : a.cache[n] \in Seq(Frames(p)) /\ IsPath(p, n, a.cache[n])
  BY <1>1, <1>3 DEF WalkInv
<1>5. CASE MayClimb
  <2>1. /\ DOMAIN b = DOMAIN a /\ b.pending = up /\ b.cur = ParentOf(p, a.cur) /\ b.status = "climb"
        /\ b.i = a.i /\ b.cum = a.cum /\ b.stamp = a.stamp /\ b.cache = a.cache /\ b.path = a.path
        /\ b.open = a.open /\ b.events = a.events
    BY <1>1, <1>2, <1>3, <1>5 DEF WalkTypes
  <2>2. a.cur \in TreeNodes(p)
    BY <1>1, <1>3, <1>5
  <2>3. /\ b.cur \in {0} \union TreeNodes(p) /\ b.cur < a.cur /\ b.cur \in Nat /\ a.cur \in Nat
    <3>1. 0 < a.cur /\ a.cur \in Nat
      BY <1>3, <2>2
    <3> QED BY <1>1, <1>3, <2>1, <2>2, <3>1, ParentIs
  <2>4. /\ Len(up) = Len(a.pending) + 1 /\ up[Len(a.pending) + 1] = a.cur /\ up \in Seq(TreeNodes(p))
        /\ \A k \in 1 .. Len(a.pending) : up[k] = a.pending[k]
    BY <1>3, <2>2 DEF up
  <2>5. WalkTypes(p, b)
    BY <1>3, <2>1, <2>3, <2>4 DEF WalkTypes
  <2>6. ASSUME NEW k \in 1 .. Len(up)
        PROVE  /\ ParentOf(p, up[k]) = IF k = Len(up) THEN b.cur ELSE up[k + 1]
               /\ b.cur < up[k]
    <3>1. CASE k = Len(a.pending) + 1
      BY <2>1, <2>3, <2>4, <3>1
    <3>2. CASE k \in 1 .. Len(a.pending)
      <4>1. up[k] = a.pending[k] /\ k # Len(up) /\ up[k] \in Nat /\ a.cur < up[k]
        BY <1>3, <1>4, <2>4, <3>2
      <4>2. CASE k = Len(a.pending)
        <5>1. ParentOf(p, up[k]) = a.cur /\ up[k + 1] = a.cur
          BY <1>4, <2>4, <3>2, <4>1, <4>2
        <5>2. b.cur < up[k]
          BY <2>3, <4>1
        <5> QED BY <4>1, <5>1, <5>2
      <4>3. CASE k # Len(a.pending)
        <5>1. k + 1 \in 1 .. Len(a.pending)
          BY <1>3, <3>2, <4>3
        <5>2. up[k + 1] = a.pending[k + 1]
          BY <2>4, <5>1
        <5>3. ParentOf(p, up[k]) = a.pending[k + 1]
          BY <1>4, <3>2, <4>1, <4>3
        <5>4. b.cur < up[k]
          BY <2>3, <4>1
        <5> QED BY <4>1, <5>2, <5>3, <5>4
      <4> QED BY <4>2, <4>3
    <3>3. k = Len(a.pending) + 1 \/ k \in 1 .. Len(a.pending)
      BY <1>3, <2>4
    <3> QED BY <3>1, <3>2, <3>3
  <2>7. WalkInv(p, b)
    BY <1>4, <2>1, <2>6 DEF WalkInv
  <2>8. Towards(p, b)
    <3>1. up # <<>> /\ up[1] = IF a.pending = <<>> THEN a.cur ELSE a.pending[1]
      <4>1. CASE a.pending = <<>>
        BY <2>4, <4>1
      <4>2. CASE a.pending # <<>>
        <5>1. 1 \in 1 .. Len(a.pending)
          BY <1>3, <4>2
        <5> QED BY <1>3, <2>4, <4>2, <5>1
      <4> QED BY <4>1, <4>2
    <3> QED BY <1>3, <2>1, <3>1 DEF Towards
  <2>9. Sound(p, b)
    BY <1>1, <1>3, <2>1, <2>5, <2>7, <2>8, WalkStep
  <2> QED BY <2>9 DEF b, p
<1>6. CASE ~MayClimb
  <2>1. /\ DOMAIN b = DOMAIN a /\ b.pending = a.pending /\ b.cur = a.cur /\ b.status = "emit" /\ b.path = path
        /\ b.i = a.i /\ b.cum = a.cum /\ b.stamp = a.stamp /\ b.cache = a.cache
        /\ b.open = a.open /\ b.events = a.events
    BY <1>1, <1>2, <1>3, <1>6 DEF WalkTypes
  <2>2. a.cur \notin Range(a.pending)
    <3> SUFFICES ASSUME a.cur \in Range(a.pending) PROVE FALSE
      OBVIOUS
    <3>1. PICK k \in 1 .. Len(a.pending) : a.pending[k] = a.cur
      <4>1. \E k \in DOMAIN a.pending : a.pending[k] = a.cur
        BY DEF Range
      <4>2. DOMAIN a.pending = 1 .. Len(a.pending)
        BY <1>3
      <4> QED BY <4>1, <4>2
    <3>2. a.cur < a.cur /\ a.cur \in Nat
      BY <1>3, <1>4, <3>1
    <3> QED BY <3>2
  <2>3. IsPath(p, a.cur, path) /\ path \in Seq(Frames(p))
    <3>1. CASE a.cur \in DOMAIN a.cache
      BY <1>4, <3>1 DEF path
    <3>2. CASE a.cur \notin DOMAIN a.cache
      <4>1. a.cur = 0 /\ path = <<>>
        BY <1>1, <1>6, <2>2, <3>2 DEF path
      <4> QED BY <4>1 DEF IsPath
    <3> QED BY <3>1, <3>2
  <2>4. WalkTypes(p, b)
    BY <1>3, <2>1, <2>3 DEF WalkTypes
  <2>5. WalkInv(p, b)
    <3>1. ~(b.i > Len(p.samples))
      BY <1>3, <2>1
    <3> QED BY <1>4, <2>1, <2>3, <3>1 DEF WalkInv
  <2>6. Towards(p, b)
    BY <1>3, <2>1 DEF Towards
  <2>7. Sound(p, b)
    BY <1>1, <1>3, <2>1, <2>4, <2>5, <2>6, WalkStep
  <2> QED BY <2>7 DEF b, p
<1> QED BY <1>5, <1>6

LEMMA Extended ==
  ASSUME ProfileInv, ExtendPath
  PROVE  Sound(asked, answer')
<1> DEFINE p == asked
           a == answer
           b == answer'
           n == Last(a.pending)
           path == IF p.resolve[n] = "none" THEN a.path ELSE Append(a.path, <<n, p.resolve[n]>>)
           cache == [m \in DOMAIN a.cache \union {n} |-> IF m = n THEN path ELSE a.cache[m]]
<1>1. /\ ProperProfile(p) /\ Sound(p, a) /\ a.status = "emit" /\ a.pending # <<>>
      /\ b = [a EXCEPT !.pending = Front(a.pending), !.cur = n, !.path = path, !.cache = cache]
  BY ProfilesAreProper DEF ProfileInv, ExtendPath, In, Sound
<1> HIDE DEF a, b, p, n, path, cache
<1>2. /\ WalkTypes(p, a) /\ WalkInv(p, a) /\ ~Reached(a) /\ Towards(p, a) /\ a.pending \in Seq(TreeNodes(p))
      /\ Len(p.samples) \in Nat /\ a.i \in 1 .. Len(p.samples) /\ IsPath(p, a.cur, a.path)
      /\ a.path \in Seq(Frames(p)) /\ DOMAIN a.cache \subseteq TreeNodes(p)
  <2>1. WalkTypes(p, a) /\ WalkInv(p, a) /\ ~Reached(a) /\ Len(p.samples) \in Nat /\ a.i \in Nat
    BY <1>1 DEF Sound, Reached, ProperProfile, WalkTypes
  <2>2. ~(a.i > Len(p.samples)) /\ a.i <= Len(p.samples)
    BY <1>1, <2>1 DEF WalkInv
  <2>3. Towards(p, a)
    BY <1>1, <2>1, <2>2 DEF Sound, SampleInv
  <2>4. IsPath(p, a.cur, a.path)
    BY <1>1, <2>1, <2>2 DEF WalkInv
  <2> QED BY <2>1, <2>3, <2>4 DEF WalkTypes, Towards
<1> DEFINE k == Len(a.pending) - 1
           front == Front(a.pending)
<1>3. /\ k \in Nat /\ Len(a.pending) = k + 1 /\ n = a.pending[k + 1] /\ n \in TreeNodes(p)
      /\ front \in Seq(TreeNodes(p)) /\ Len(front) = k /\ \A j \in 1 .. k : front[j] = a.pending[j]
      /\ \A j \in 1 .. k : j # k => j + 1 \in 1 .. k
  <2>1. k \in Nat /\ k + 1 = Len(a.pending) /\ front = SubSeq(a.pending, 1, k) /\ n = a.pending[k + 1]
    BY <1>1, <1>2 DEF Front, Last, n
  <2> HIDE DEF k, front
  <2>2. \A j \in 1 .. k + 1 : a.pending[j] \in TreeNodes(p)
    BY <1>2, <2>1
  <2>3. /\ SubSeq(a.pending, 1, k) \in Seq(TreeNodes(p))
        /\ Len(SubSeq(a.pending, 1, k)) = IF 1 <= k THEN k - 1 + 1 ELSE 0
        /\ \A j \in 1 .. k - 1 + 1 : SubSeq(a.pending, 1, k)[j] = a.pending[1 + j - 1]
    <3>1. \A j \in 1 .. k : a.pending[j] \in TreeNodes(p)
      BY <2>1, <2>2
    <3> QED BY <2>1, <3>1, SubSeqProperties
  <2>4. n \in TreeNodes(p)
    BY <2>1, <2>2
  <2>5. \A j \in 1 .. k : j # k => j + 1 \in 1 .. k
    BY <2>1
  <2> QED BY <2>1, <2>3, <2>4, <2>5
<1> HIDE DEF k, front
<1>4. \A j \in 1 .. k + 1 : ParentOf(p, a.pending[j]) = IF j = k + 1 THEN a.cur ELSE a.pending[j + 1]
  BY <1>2, <1>3 DEF WalkInv
<1>5. IsPath(p, n, path) /\ path \in Seq(Frames(p))
  <2>1. ParentOf(p, n) = a.cur
    <3>1. k + 1 \in 1 .. k + 1
      BY <1>3
    <3> QED BY <1>3, <1>4, <3>1
  <2> QED BY <1>1, <1>2, <1>3, <2>1, PathExtends DEF path
<1>6. /\ DOMAIN b = DOMAIN a /\ b.pending = front /\ b.cur = n /\ b.status = "emit" /\ b.path = path
      /\ b.i = a.i /\ b.cum = a.cum /\ b.stamp = a.stamp /\ b.cache = cache
      /\ b.open = a.open /\ b.events = a.events
  BY <1>1, <1>2 DEF WalkTypes, front
<1>7. /\ DOMAIN cache = DOMAIN a.cache \union {n} /\ cache[n] = path
      /\ \A m \in DOMAIN a.cache : m # n => cache[m] = a.cache[m]
  BY DEF cache
<1>8. WalkTypes(p, b)
  BY <1>2, <1>3, <1>5, <1>6, <1>7 DEF WalkTypes
<1>9. WalkInv(p, b)
  <2>1. ASSUME NEW m \in DOMAIN b.cache PROVE b.cache[m] \in Seq(Frames(p)) /\ IsPath(p, m, b.cache[m])
    <3>1. CASE m = n
      BY <1>5, <1>6, <1>7, <3>1
    <3>2. CASE m # n
      <4>1. m \in DOMAIN a.cache /\ b.cache[m] = a.cache[m]
        BY <1>6, <1>7, <3>2
      <4> QED BY <1>2, <4>1 DEF WalkInv
    <3> QED BY <3>1, <3>2
  <2>2. ASSUME NEW j \in 1 .. k PROVE ParentOf(p, front[j]) = IF j = k THEN n ELSE front[j + 1]
    <3>1. front[j] = a.pending[j] /\ j \in 1 .. k + 1 /\ j # k + 1
      BY <1>3
    <3>2. ParentOf(p, front[j]) = a.pending[j + 1]
      BY <1>4, <3>1
    <3>3. CASE j = k
      BY <1>3, <3>2, <3>3
    <3>4. CASE j # k
      BY <1>3, <3>2, <3>4
    <3> QED BY <3>3, <3>4
  <2>3. ~(b.i > Len(p.samples))
    BY <1>2, <1>6
  <2> QED BY <1>3, <1>5, <1>6, <2>1, <2>2, <2>3 DEF WalkInv
<1>10. Towards(p, b)
  <2>1. CASE front = <<>>
    <3>1. k = 0
      BY <1>3, <2>1
    <3>2. p.samples[a.i] = n
      BY <1>1, <1>2, <1>3, <3>1 DEF Towards
    <3> QED BY <1>2, <1>6, <2>1, <3>2 DEF Towards
  <2>2. CASE front # <<>>
    <3>1. front[1] = a.pending[1]
      <4>1. 1 \in 1 .. k
        BY <1>3, <2>2
      <4> QED BY <1>3, <4>1
    <3> QED BY <1>1, <1>2, <1>6, <2>2, <3>1 DEF Towards
  <2> QED BY <2>1, <2>2
<1>11. Sound(p, b)
  BY <1>1, <1>2, <1>6, <1>8, <1>9, <1>10, WalkStep
<1> QED BY <1>11 DEF b, p

LEMMA FrameMoved ==
  ASSUME ProfileInv, CloseFrame \/ OpenFrame
  PROVE  Sound(asked, answer')
<1> DEFINE p == asked
           a == answer
           b == answer'
           top == a.path[Len(a.open) + 1]
           shut == Event("return", Last(a.open), a.stamp, Len(a.open) - 1)
           called == Event("call", top, a.stamp, Len(a.open))
<1>1. /\ ProperProfile(p) /\ Sound(p, a) /\ a.status = "emit" /\ a.pending = <<>>
  BY ProfilesAreProper DEF ProfileInv, CloseFrame, OpenFrame, In, Sound
<1>2. \/ /\ ~IsPrefix(a.open, a.path)
         /\ b = [a EXCEPT !.open = Front(a.open), !.events = Append(a.events, shut)]
      \/ /\ IsStrictPrefix(a.open, a.path)
         /\ b = [a EXCEPT !.open = Append(a.open, top), !.events = Append(a.events, called)]
  BY DEF CloseFrame, OpenFrame
<1> HIDE DEF a, b, p
<1>3. /\ WalkTypes(p, a) /\ WalkInv(p, a) /\ StreamInv(p, a) /\ SampleInv(p, a)
      /\ a.open \in Seq(Frames(p)) /\ a.path \in Seq(Frames(p)) /\ a.events \in Seq(Entries(p)) /\ a.stamp \in Int
      /\ CallsNest(a.events) /\ StackAfter(a.events, DOMAIN a.events) = Levels(a.open)
  BY <1>1 DEF Sound, WalkTypes, StreamInv
<1>4. \E e \in Entries(p), open \in Seq(Frames(p)) :
        /\ e.ts = a.stamp /\ b = [a EXCEPT !.open = open, !.events = Append(a.events, e)]
        /\ CallsNest(Append(a.events, e)) /\ a.open # a.path
        /\ StackAfter(Append(a.events, e), DOMAIN Append(a.events, e)) = Levels(open)
  <2>1. CASE ~IsPrefix(a.open, a.path)
    <3>1. a.open # <<>> /\ a.open # a.path
      BY <1>3, <2>1, PrefixIs
    <3>2. /\ shut \in Entries(p) /\ CallsNest(Append(a.events, shut))
          /\ StackAfter(Append(a.events, shut), DOMAIN Append(a.events, shut)) = Levels(Front(a.open))
      BY <1>3, <3>1, ReturnCloses
    <3>3. shut.ts = a.stamp
      BY DEF Event
    <3>4. Front(a.open) \in Seq(Frames(p))
      BY <1>3, <3>1, LevelsAre
    <3>5. b = [a EXCEPT !.open = Front(a.open), !.events = Append(a.events, shut)]
      BY <1>2, <2>1 DEF IsStrictPrefix
    <3> HIDE DEF shut
    <3> QED BY <3>1, <3>2, <3>3, <3>4, <3>5
  <2>2. CASE IsStrictPrefix(a.open, a.path)
    <3>1. a.open # a.path /\ Len(a.open) < Len(a.path)
      BY <1>3, <2>2, PrefixIs DEF IsStrictPrefix
    <3>2. top \in Frames(p)
      <4>1. Len(a.open) \in Nat /\ Len(a.path) \in Nat
        BY <1>3
      <4>2. Len(a.open) + 1 \in 1 .. Len(a.path)
        BY <3>1, <4>1
      <4> QED BY <1>3, <4>2
    <3> HIDE DEF top
    <3>3. /\ called \in Entries(p) /\ CallsNest(Append(a.events, called))
          /\ StackAfter(Append(a.events, called), DOMAIN Append(a.events, called)) = Levels(Append(a.open, top))
      BY <1>3, <3>2, CallOpens
    <3>4. called.ts = a.stamp
      BY DEF Event
    <3>5. Append(a.open, top) \in Seq(Frames(p))
      BY <1>3, <3>2
    <3>6. b = [a EXCEPT !.open = Append(a.open, top), !.events = Append(a.events, called)]
      BY <1>2, <2>2 DEF IsStrictPrefix
    <3> HIDE DEF called
    <3> QED BY <3>1, <3>3, <3>4, <3>5, <3>6
  <2> QED BY <1>2, <2>1, <2>2
<1>5. PICK e \in Entries(p), open \in Seq(Frames(p)) :
        /\ e.ts = a.stamp /\ b = [a EXCEPT !.open = open, !.events = Append(a.events, e)]
        /\ CallsNest(Append(a.events, e)) /\ a.open # a.path
        /\ StackAfter(Append(a.events, e), DOMAIN Append(a.events, e)) = Levels(open)
  BY <1>4
<1>6. /\ DOMAIN b = DOMAIN a /\ b.pending = a.pending /\ b.cur = a.cur /\ b.status = a.status /\ b.path = a.path
      /\ b.i = a.i /\ b.cum = a.cum /\ b.stamp = a.stamp /\ b.cache = a.cache
      /\ b.open = open /\ b.events = Append(a.events, e)
  BY <1>3, <1>5 DEF WalkTypes
<1>7. ~Reached(a)
  BY <1>1, <1>5 DEF Reached
<1>8. /\ \A x, y \in DOMAIN b.events : x < y => b.events[x].ts <= b.events[y].ts
      /\ \A x \in DOMAIN b.events : b.events[x].ts <= b.stamp
      /\ \A j \in 1 .. Len(p.samples) : j < b.i => Shows(p, b, j)
      /\ b.i <= Len(p.samples) => b.cum = SampledAt(p, b.i) /\ b.stamp <= b.cum
      /\ b.i > Len(p.samples) => SampledAt(p, Len(p.samples)) <= b.stamp
      /\ Towards(p, b) \/ (b.status = "emit" /\ b.i > Len(p.samples))
  <2>1. /\ ProperProfile(p) /\ WalkTypes(p, a) /\ StreamInv(p, a) /\ SampleInv(p, a) /\ ~Reached(a)
        /\ e.ts = a.stamp /\ b.events = Append(a.events, e)
        /\ b.i = a.i /\ b.cum = a.cum /\ b.stamp = a.stamp /\ b.status = a.status
        /\ b.pending = a.pending /\ b.cur = a.cur
    BY <1>1, <1>3, <1>5, <1>6, <1>7
  <2> QED BY <2>1, EventAdded, Zenon
<1>9. WalkTypes(p, b)
  <2>1. Append(a.events, e) \in Seq(Entries(p))
    BY <1>3
  <2> QED BY <1>3, <1>6, <2>1 DEF WalkTypes
<1>10. WalkInv(p, b)
  BY <1>3, <1>6 DEF WalkInv
<1>11. StreamInv(p, b)
  BY <1>5, <1>6, <1>8 DEF StreamInv
<1>12. b.status # "profiled"
  BY <1>1, <1>6
<1>13. SampleInv(p, b)
  BY <1>1, <1>8, <1>9, <1>10, <1>11, <1>12, SamplesFollow
<1> QED BY <1>9, <1>10, <1>11, <1>13 DEF Sound, b, p

LEMMA Closed ==
  ASSUME ProfileInv, CloseProfile
  PROVE  Sound(asked, answer')
<1> DEFINE p == asked
           a == answer
           b == answer'
           late == IF p.end > a.cum THEN p.end ELSE a.cum
<1>1. /\ ProperProfile(p) /\ Sound(p, a) /\ a.status = "emit" /\ Reached(a) /\ a.i = Len(p.samples)
      /\ a.pending = <<>> /\ b = [a EXCEPT !.i = a.i + 1, !.path = <<>>, !.stamp = late]
  BY ProfilesAreProper DEF ProfileInv, CloseProfile, StackReached, In, Reached, Sound
<1> HIDE DEF a, b, p, late
<1>2. /\ WalkTypes(p, a) /\ WalkInv(p, a) /\ StreamInv(p, a) /\ SampleInv(p, a)
      /\ Len(p.samples) \in Nat /\ p.end \in Int /\ a.cum \in Int /\ a.stamp \in Int
      /\ a.cum = SampledAt(p, Len(p.samples)) /\ a.stamp <= a.cum
  <2>1. WalkTypes(p, a) /\ SampleInv(p, a) /\ Len(p.samples) \in Nat /\ p.end \in Int
    BY <1>1 DEF Sound, ProperProfile
  <2>2. a.cum = SampledAt(p, Len(p.samples)) /\ a.stamp <= a.cum
    BY <1>1, <2>1 DEF SampleInv
  <2> QED BY <1>1, <2>1, <2>2 DEF Sound, WalkTypes
<1>3. late \in Int /\ a.cum <= late /\ a.stamp <= late
  BY <1>2 DEF late
<1>4. /\ DOMAIN b = DOMAIN a /\ b.pending = <<>> /\ b.cur = a.cur /\ b.status = "emit" /\ b.path = <<>>
      /\ b.i = Len(p.samples) + 1 /\ b.cum = a.cum /\ b.stamp = late /\ b.cache = a.cache
      /\ b.open = a.open /\ b.events = a.events
  BY <1>1, <1>2 DEF WalkTypes
<1>5. WalkTypes(p, b)
  BY <1>2, <1>3, <1>4 DEF WalkTypes
<1>6. WalkInv(p, b)
  <2>1. ~(b.i <= Len(p.samples)) /\ Len(b.pending) = 0
    BY <1>2, <1>4
  <2> QED BY <1>2, <1>4, <2>1 DEF WalkInv
<1>7. StreamInv(p, b)
  <2>1. \A e \in DOMAIN a.events : a.events[e].ts <= a.stamp /\ a.events[e].ts \in Int
    <3>1. \A e \in DOMAIN a.events : a.events[e] \in Entries(p)
      BY <1>2 DEF WalkTypes
    <3>2. \A e \in DOMAIN a.events : a.events[e].ts \in Int
      BY <3>1 DEF Entries
    <3> QED BY <1>2, <3>2 DEF StreamInv
  <2>2. \A e \in DOMAIN b.events : b.events[e].ts <= b.stamp
    BY <1>2, <1>3, <1>4, <2>1
  <2> QED BY <1>2, <1>4, <2>2 DEF StreamInv
<1>8. ASSUME NEW j \in 1 .. Len(p.samples) PROVE Shows(p, b, j)
  <2>1. j < a.i \/ j = a.i
    BY <1>1, <1>2
  <2>2. Shows(p, a, j)
    BY <1>1, <1>2, <2>1 DEF SampleInv
  <2> QED BY <1>4, <2>2, SameShows
<1>9. SampleInv(p, b)
  <2>1. b.i > Len(p.samples) /\ ~(b.i <= Len(p.samples)) /\ SampledAt(p, Len(p.samples)) <= b.stamp
    BY <1>2, <1>3, <1>4
  <2> QED BY <1>4, <1>8, <2>1 DEF SampleInv
<1> QED BY <1>5, <1>6, <1>7, <1>9 DEF Sound, b, p

LEMMA Handed ==
  ASSUME ProfileInv, ReturnProfile
  PROVE  Sound(asked, answer')
<1> DEFINE p == asked
           a == answer
           b == answer'
<1>1. /\ ProperProfile(p) /\ Sound(p, a) /\ a.status = "emit" /\ Reached(a) /\ a.i > Len(p.samples)
      /\ a.open = a.path /\ b = [a EXCEPT !.status = "profiled"]
  BY ProfilesAreProper DEF ProfileInv, ReturnProfile, StackReached, In, Reached, Sound
<1> HIDE DEF a, b, p
<1>2. /\ WalkTypes(p, a) /\ WalkInv(p, a) /\ StreamInv(p, a) /\ SampleInv(p, a) /\ a.open = <<>>
      /\ Len(p.samples) \in Nat /\ a.i \in Nat
  <2>1. WalkInv(p, a) /\ WalkTypes(p, a)
    BY <1>1 DEF Sound
  <2>2. a.path = <<>>
    BY <1>1, <2>1 DEF WalkInv
  <2> QED BY <1>1, <2>1, <2>2 DEF Sound, ProperProfile, WalkTypes
<1>3. /\ DOMAIN b = DOMAIN a /\ b.pending = a.pending /\ b.cur = a.cur /\ b.status = "profiled" /\ b.path = a.path
      /\ b.i = a.i /\ b.cum = a.cum /\ b.stamp = a.stamp /\ b.cache = a.cache
      /\ b.open = a.open /\ b.events = a.events
  BY <1>1, <1>2 DEF WalkTypes
<1>4. WalkTypes(p, b)
  BY <1>2, <1>3 DEF WalkTypes
<1>5. WalkInv(p, b)
  BY <1>2, <1>3 DEF WalkInv
<1>6. StreamInv(p, b)
  BY <1>2, <1>3 DEF StreamInv
<1>7. ASSUME NEW j \in 1 .. Len(p.samples), j < b.i \/ j = b.i PROVE Shows(p, b, j)
  <2>1. Shows(p, a, j)
    BY <1>1, <1>2, <1>3, <1>7 DEF SampleInv
  <2> QED BY <1>3, <2>1, SameShows
<1>8. SampleInv(p, b)
  <2>1. b.i > Len(p.samples) /\ ~(b.i <= Len(p.samples)) /\ SampledAt(p, Len(p.samples)) <= b.stamp
    BY <1>1, <1>2, <1>3 DEF SampleInv
  <2>2. Reached(b)
    BY <1>3 DEF Reached
  <2> QED BY <1>2, <1>3, <1>7, <2>1, <2>2 DEF SampleInv
<1> QED BY <1>4, <1>5, <1>6, <1>8 DEF Sound, b, p

LEMMA ProfileStep == ASSUME ProfileInv, Reconstruct PROVE ProfileInv'
<1>1. asked' = asked
  BY DEF Reconstruct, BeginProfile, Answer, SampleKnown, SampleUnknown, ClimbUp, TurnBack, ExtendPath,
         CloseFrame, OpenFrame, CloseProfile, ReturnProfile
<1>2. Sound(asked, answer')
  BY Begun, Taken, Climbed, Extended, FrameMoved, Closed, Handed DEF Reconstruct
<1> QED BY <1>1, <1>2 DEF ProfileInv, Sound

LEMMA ProfileInvariant == ProfileSpec => []ProfileInv
<1>1. ASSUME AnyProfile PROVE ProfileInv
  BY <1>1 DEF AnyProfile, ProfileInv
<1>2. ASSUME ProfileInv, [Reconstruct]_questionVars PROVE ProfileInv'
  <2>1. CASE Reconstruct
    BY <1>2, <2>1, ProfileStep
  <2>2. CASE UNCHANGED questionVars
    BY <1>2, <2>2 DEF questionVars, ProfileInv
  <2> QED BY <1>2, <2>1, <2>2
<1> QED BY <1>1, <1>2, PTL DEF ProfileSpec

(* Every profile V8 may hand over becomes a stream of nested calls and      *)
(* returns, in the order of time, that shows each sample's project frames   *)
(* for the whole interval the sample stands for.                             *)
THEOREM ProfilesAreStacks == ProfileSpec => []ProfileIsTheStack
<1>1. ASSUME ProfileInv PROVE ProfileIsTheStack
  <2> SUFFICES ASSUME Answered("profile"), answer.status = "profiled"
               PROVE  LET events == answer.events
                      IN  /\ CallsNest(events) /\ StackAfter(events, DOMAIN events) = {}
                          /\ \A d, e \in DOMAIN events : d < e => events[d].ts <= events[e].ts
                          /\ \A i \in DOMAIN asked.samples :
                               asked.samples[i] \in TreeNodes(asked) =>
                                 \A t \in SampledAt(asked, i - 1) .. SampledAt(asked, i) - 1 :
                                   StackAfter(events, {e \in DOMAIN events : events[e].ts <= t})
                                     = StackOf(asked, asked.samples[i])
    BY DEF ProfileIsTheStack
  <2>1. /\ WalkTypes(asked, answer) /\ StreamInv(asked, answer) /\ SampleInv(asked, answer)
        /\ ProperProfile(asked)
    BY <1>1, ProfilesAreProper DEF ProfileInv, Answered
  <2>2. answer.open = <<>> /\ (asked.samples = <<>> \/ answer.i > Len(asked.samples))
    BY <2>1 DEF SampleInv
  <2>3. Levels(<<>>) = {}
    BY DEF Levels
  <2>4. DOMAIN asked.samples = 1 .. Len(asked.samples) /\ Len(asked.samples) \in Nat /\ answer.i \in Nat
    BY <2>1 DEF ProperProfile, WalkTypes
  <2>5. ASSUME NEW i \in DOMAIN asked.samples PROVE Shows(asked, answer, i)
    <3>1. i \in 1 .. Len(asked.samples) /\ i < answer.i
      BY <2>2, <2>4
    <3> QED BY <2>1, <3>1 DEF SampleInv
  <2>6. StackAfter(answer.events, DOMAIN answer.events) = {}
    BY <2>1, <2>2, <2>3 DEF StreamInv
  <2> QED BY <2>1, <2>5, <2>6 DEF StreamInv, Shows, Until
<1> QED BY <1>1, ProfileInvariant, PTL

(***************************************************************************)
(* ValueRepr. For any heap, shared and cyclic ones included, and any limits: *)
(* what has been read stays inside every set that no entry with a public     *)
(* name leaves, the budget is an exact account of the work, and as long as   *)
(* nothing was left out, what may be shown is shown, entered or still ahead  *)
(* of a call on the stack.                                                   *)
(***************************************************************************)
Limits == [maxLen : Nat, maxItems : Nat, maxDepth : Nat]
Calls(A) == [at : A, level : Int, next : Nat \ {0}]
Texts(A) ==
  [status : {"formatting", "formatted"}, budget : Int, truncated : BOOLEAN, len : Int, work : Int,
   shown : SUBSET A, read : SUBSET A, frames : Seq(Calls(A))]

\* Of the budget spent, the work done is an exact account, and no single
\* text overdraws it by more than its own clamped length.
Overdraft(limits) == GreaterOf(limits.maxLen, Redacted)
Paid(limits, st) ==
  /\ st.work + st.budget = Formatter(limits).budget
  /\ st.budget >= -Overdraft(limits)

LEMMA FormatterIs ==
  ASSUME NEW limits \in Limits, NEW A
  PROVE  Formatter(limits) \in Texts(A) /\ Paid(limits, Formatter(limits))
<1>1. Multiple \in Nat /\ Floor \in Nat BY BudgetIsNatural
<1>2. limits.maxLen * Multiple \in Nat BY <1>1 DEF Limits
<1>3. GreaterOf(limits.maxLen * Multiple, Floor) \in Nat BY <1>1, <1>2 DEF GreaterOf
<1>4. Overdraft(limits) \in Nat BY DEF Overdraft, GreaterOf, Redacted, Limits
<1>5. <<>> \in Seq(Calls(A)) OBVIOUS
<1> QED BY <1>3, <1>4, <1>5 DEF Formatter, Texts, Paid

\* What a step of the formatter may do to its text beside entering a
\* container or showing a leaf.
Continues(limits, st, r) ==
  /\ r.status = st.status
  /\ Paid(limits, st) => Paid(limits, r)
  /\ r.truncated \/ ~st.truncated

LEMMA ElideIs ==
  ASSUME NEW limits \in Limits, NEW A, NEW st \in Texts(A)
  PROVE  /\ Elide(st) \in Texts(A) /\ Continues(limits, st, Elide(st)) /\ Elide(st).truncated
         /\ Elide(st).frames = st.frames /\ Elide(st).read = st.read /\ Elide(st).shown = st.shown
<1> DEFINE r == Elide(st)
<1>1. r = [st EXCEPT !.truncated = TRUE, !.len = @ + 3] BY DEF Elide, Dots
<1>2. st.len + 3 \in Int BY DEF Texts
<1> HIDE DEF r
<1>3. /\ r.status = st.status /\ r.frames = st.frames /\ r.read = st.read /\ r.shown = st.shown
      /\ r.work = st.work /\ r.budget = st.budget /\ r.truncated
  BY <1>1 DEF Texts
<1>4. r \in Texts(A) BY <1>1, <1>2 DEF Texts
<1> QED BY <1>3, <1>4 DEF r, Continues, Paid

LEMMA PlaceholderIs ==
  ASSUME NEW limits \in Limits, NEW A, NEW st \in Texts(A), ~Spent(st)
  PROVE  LET r == Placeholder(st) IN
         /\ r \in Texts(A) /\ Continues(limits, st, r)
         /\ r.frames = st.frames /\ r.read = st.read /\ r.shown = st.shown /\ r.truncated = st.truncated
<1>1. Overdraft(limits) \in Nat /\ Overdraft(limits) >= Redacted
  BY DEF Overdraft, GreaterOf, Redacted, Limits
<1> DEFINE r == Placeholder(st)
<1>2. r = [st EXCEPT !.len = @ + 4, !.work = @ + 4, !.budget = @ - 4] BY DEF Placeholder, Redacted
<1>3. st.len + 4 \in Int /\ st.work + 4 \in Int /\ st.budget - 4 \in Int BY DEF Texts
<1> HIDE DEF r
<1>4. /\ r.status = st.status /\ r.frames = st.frames /\ r.read = st.read /\ r.shown = st.shown
      /\ r.work = st.work + 4 /\ r.budget = st.budget - 4 /\ r.truncated = st.truncated
  BY <1>2 DEF Texts
<1>5. r \in Texts(A) BY <1>2, <1>3 DEF Texts
<1>6. Paid(limits, st) => Paid(limits, r) BY <1>1, <1>4 DEF Paid, Redacted, Spent, Texts
<1> QED BY <1>4, <1>5, <1>6 DEF r, Continues, Texts

LEMMA ChargeIs ==
  ASSUME NEW limits \in Limits, NEW A, NEW st \in Texts(A), NEW width \in Nat, ~Spent(st)
  PROVE  LET r == Charge(width, st, limits) IN
         /\ r \in Texts(A) /\ Continues(limits, st, r)
         /\ r.frames = st.frames /\ r.read = st.read /\ r.shown = st.shown
         /\ width > limits.maxLen => r.truncated
<1> DEFINE cut == width > limits.maxLen
           put == IF cut THEN GreaterOf(limits.maxLen, Dots) ELSE width
           od == Overdraft(limits)
           r == Charge(width, st, limits)
<1>1. put \in Nat /\ od \in Nat /\ put <= od BY DEF Overdraft, GreaterOf, Redacted, Limits, Dots
<1>2. r = [st EXCEPT !.truncated = @ \/ cut, !.len = @ + put, !.work = @ + put, !.budget = @ - put]
  BY DEF Charge
<1> HIDE DEF put, r, od
<1>5. st.len + put \in Int /\ st.work + put \in Int /\ st.budget - put \in Int BY <1>1 DEF Texts
<1>6. (st.truncated \/ cut) \in BOOLEAN OBVIOUS
<1> HIDE DEF cut
<1>7. r \in Texts(A) BY <1>2, <1>5, <1>6 DEF Texts
<1>3. /\ r \in Texts(A) /\ r.status = st.status
      /\ r.frames = st.frames /\ r.read = st.read /\ r.shown = st.shown
      /\ r.truncated = (st.truncated \/ cut)
      /\ r.work = st.work + put /\ r.budget = st.budget - put
  BY <1>2, <1>7 DEF Texts
<1>4. Paid(limits, st) => Paid(limits, r)
  BY <1>1, <1>3 DEF Paid, od, Spent, Texts
<1> QED BY <1>3, <1>4 DEF r, cut, Continues, Texts

LEMMA LeafIs ==
  ASSUME NEW limits \in Limits, NEW A, NEW st \in Texts(A), NEW width \in Nat, NEW at \in A, ~Spent(st)
  PROVE  LET r == Leaf(at, width, st, limits) IN
         /\ r \in Texts(A) /\ Continues(limits, st, r)
         /\ r.frames = st.frames /\ r.read = st.read
         /\ st.shown \subseteq r.shown /\ (r.truncated \/ at \in r.shown)
<1> DEFINE c == Charge(width, st, limits)
           r == Leaf(at, width, st, limits)
<1>1. /\ c \in Texts(A) /\ Continues(limits, st, c)
      /\ c.frames = st.frames /\ c.read = st.read /\ c.shown = st.shown
      /\ width > limits.maxLen => c.truncated
  BY ChargeIs
<1>2. r = [c EXCEPT !.shown = IF width > limits.maxLen THEN @ ELSE @ \union {at}] BY DEF Leaf
<1> HIDE DEF c, r
<1> QED BY <1>1, <1>2 DEF r, Texts, Continues, Paid

LEMMA KeyIs ==
  ASSUME NEW q, ProperValue(q), NEW a \in DOMAIN q.heap, NEW i \in DOMAIN q.heap[a].items,
         NEW st \in Texts(DOMAIN q.heap)
  PROVE  LET r == Key(q.heap[a], i, st, q.limits) IN
         /\ r \in Texts(DOMAIN q.heap) /\ Continues(q.limits, st, r)
         /\ r.frames = st.frames /\ r.read = st.read /\ r.shown = st.shown
<1>1. q.limits \in Limits BY DEF ProperValue, Limits
<1>2. q.heap[a].type = "dict" => q.heap[a].keys[i].width \in Nat
  BY DEF ProperValue, ProperObject
<1>3. Continues(q.limits, st, st) BY DEF Continues
<1>4. CASE q.heap[a].type # "dict" BY <1>3, <1>4 DEF Key
<1>5. CASE q.heap[a].type = "dict" /\ Spent(st) BY <1>1, <1>5, ElideIs DEF Key
<1>6. CASE q.heap[a].type = "dict" /\ ~Spent(st)
  <2>1. Key(q.heap[a], i, st, q.limits) = Charge(q.heap[a].keys[i].width, st, q.limits) BY <1>6 DEF Key
  <2> QED BY <1>1, <1>2, <1>6, <2>1, ChargeIs
<1> QED BY <1>4, <1>5, <1>6

NewCall(at, level) == [at |-> at, level |-> level, next |-> 1]

LEMMA Pushed ==
  ASSUME NEW X, NEW s \in Seq(X), NEW x \in X
  PROVE  /\ DOMAIN s \subseteq DOMAIN Append(s, x)
         /\ \A k \in DOMAIN s : Append(s, x)[k] = s[k]
         /\ \A k \in DOMAIN Append(s, x) : k \in DOMAIN s \/ Append(s, x)[k] = x
         /\ Len(s) + 1 \in DOMAIN Append(s, x) /\ Append(s, x)[Len(s) + 1] = x
<1>1. Len(s) \in Nat /\ DOMAIN s = 1 .. Len(s) OBVIOUS
<1>2. Append(s, x) \in Seq(X) /\ Len(Append(s, x)) = Len(s) + 1 OBVIOUS
<1>3. DOMAIN Append(s, x) = 1 .. Len(s) + 1 BY <1>2
<1>4. \A k \in 1 .. Len(s) + 1 : Append(s, x)[k] = IF k <= Len(s) THEN s[k] ELSE x BY <1>1
<1> QED BY <1>1, <1>3, <1>4

LEMMA SomeItem ==
  ASSUME NEW X, NEW s \in Seq(X), NEW j \in DOMAIN s
  PROVE  j \in Nat /\ j >= 1 /\ s # <<>> /\ s[j] \in X
<1>1. DOMAIN s = 1 .. Len(s) /\ Len(s) \in Nat OBVIOUS
<1> QED BY <1>1

\* repr1: the object is read, and then shown, entered or told as left out.
LEMMA Repr1Is ==
  ASSUME NEW q, ProperValue(q), NEW at \in DOMAIN q.heap, NEW level \in Int,
         NEW st \in Texts(DOMAIN q.heap)
  PROVE  LET r == Repr1(q, at, level, st) IN
         /\ r \in Texts(DOMAIN q.heap) /\ Continues(q.limits, st, r)
         /\ st.read \subseteq r.read /\ r.read \subseteq st.read \union {at}
         /\ st.shown \subseteq r.shown
         /\ \/ r.frames = st.frames
            \/ r.frames = Append(st.frames, NewCall(at, level)) /\ at \in r.read
         /\ ~r.truncated => /\ at \in r.read
                            /\ q.heap[at].type = "leaf" => at \in r.shown
                            /\ q.heap[at].items = <<>> \/ r.frames = Append(st.frames, NewCall(at, level))
<1> DEFINE A == DOMAIN q.heap
           x == q.heap[at]
           seen == [st EXCEPT !.read = @ \union {at}]
           r == Repr1(q, at, level, st)
<1>1. q.limits \in Limits BY DEF ProperValue, Limits
<1>2. ProperObject(q.heap, x) BY DEF ProperValue
<1>3. /\ seen \in Texts(A) /\ seen.read = st.read \union {at} /\ seen.frames = st.frames
      /\ seen.shown = st.shown /\ seen.truncated = st.truncated /\ seen.budget = st.budget
      /\ seen.status = st.status /\ seen.work = st.work
  BY DEF Texts
<1>4. Continues(q.limits, st, seen) BY <1>3 DEF Continues, Paid, Texts
<1>5. \A s : Continues(q.limits, seen, s) => Continues(q.limits, st, s)
  BY <1>3, <1>4 DEF Continues
<1> HIDE DEF seen
<1>6. CASE Spent(st)
  <2>1. r = Elide(st) BY <1>6 DEF Repr1
  <2> QED BY <1>1, <2>1, ElideIs
<1>7. CASE ~Spent(st) /\ x.type = "lazy"
  <2>1. r = Placeholder(seen) BY <1>7 DEF Repr1, seen
  <2>2. ~Spent(seen) BY <1>3, <1>7 DEF Spent
  <2>3. x.items = <<>> BY <1>2, <1>7 DEF ProperObject
  <2>4. /\ r \in Texts(A) /\ Continues(q.limits, seen, r)
        /\ r.frames = seen.frames /\ r.read = seen.read /\ r.shown = seen.shown
    BY <1>1, <1>3, <2>1, <2>2, PlaceholderIs
  <2> QED BY <1>3, <1>5, <1>7, <2>3, <2>4
<1>8. CASE ~Spent(st) /\ x.type = "leaf"
  <2>1. r = Leaf(at, x.width, seen, q.limits) BY <1>8 DEF Repr1, seen
  <2>2. ~Spent(seen) BY <1>3, <1>8 DEF Spent
  <2>3. x.items = <<>> /\ x.width \in Nat BY <1>2, <1>8 DEF ProperObject
  <2>4. /\ r \in Texts(A) /\ Continues(q.limits, seen, r)
        /\ r.frames = seen.frames /\ r.read = seen.read
        /\ seen.shown \subseteq r.shown /\ (r.truncated \/ at \in r.shown)
    BY <1>1, <1>3, <2>1, <2>2, <2>3, LeafIs
  <2> QED BY <1>3, <1>5, <2>3, <2>4
<1>9. CASE ~Spent(st) /\ x.type \notin {"lazy", "leaf"} /\ TooDeep(x, level)
  <2>1. r = Elide(seen) BY <1>9 DEF Repr1, seen
  <2>2. /\ r \in Texts(A) /\ Continues(q.limits, seen, r) /\ r.truncated
        /\ r.frames = seen.frames /\ r.read = seen.read /\ r.shown = seen.shown
    BY <1>1, <1>3, <2>1, ElideIs
  <2> QED BY <1>3, <1>5, <2>2
<1>10. CASE ~Spent(st) /\ x.type \notin {"lazy", "leaf"} /\ ~TooDeep(x, level)
  <2>1. r = [seen EXCEPT !.len = @ + 2, !.frames = Append(@, NewCall(at, level))]
    BY <1>10 DEF Repr1, seen, NewCall
  <2>2. NewCall(at, level) \in Calls(A) BY DEF NewCall, Calls
  <2>3. Append(seen.frames, NewCall(at, level)) \in Seq(Calls(A)) BY <1>3, <2>2 DEF Texts
  <2>4. /\ r \in Texts(A) /\ r.frames = Append(st.frames, NewCall(at, level)) /\ r.read = seen.read
        /\ r.shown = seen.shown /\ r.truncated = seen.truncated /\ r.status = seen.status
        /\ r.work = seen.work /\ r.budget = seen.budget
    <3>1. seen.len + 2 \in Int BY <1>3 DEF Texts
    <3>2. r \in Texts(A) BY <1>3, <2>1, <2>3, <3>1 DEF Texts
    <3> HIDE DEF r
    <3>3. /\ r.frames = Append(seen.frames, NewCall(at, level)) /\ r.read = seen.read
          /\ r.shown = seen.shown /\ r.truncated = seen.truncated /\ r.status = seen.status
          /\ r.work = seen.work /\ r.budget = seen.budget
      BY <1>3, <2>1 DEF Texts
    <3> QED BY <1>3, <3>2, <3>3
  <2>5. Continues(q.limits, seen, r) BY <1>3, <2>4 DEF Continues, Paid, Texts
  <2> QED BY <1>3, <1>5, <1>10, <2>4, <2>5
<1> HIDE DEF r
<1> QED BY <1>6, <1>7, <1>8, <1>9, <1>10 DEF r

\* An object that was read is shown, or each entry it may show is read or
\* still ahead of a call on the stack.
Told(q, st, a) ==
  /\ q.heap[a].type = "leaf" => a \in st.shown
  /\ \A i \in VisibleEntries(q)[a] :
       \/ q.heap[a].items[i] \in st.read
       \/ \E k \in DOMAIN st.frames : st.frames[k].at = a /\ i >= st.frames[k].next

Withheld(q) == q.secret /\ q.redact

TextInv(q, st) ==
  /\ st \in Texts(DOMAIN q.heap) /\ Paid(q.limits, st)
  /\ \A S \in SUBSET DOMAIN q.heap : Kept(q, PublicEntries(q), S) => st.read \subseteq S
  /\ \A k \in DOMAIN st.frames : st.frames[k].at \in st.read
  /\ st.status = "formatted" => st.frames = <<>>
  /\ Withheld(q) => st.read = {} /\ st.status = "formatted"
  /\ ~Withheld(q) /\ ~st.truncated => q.root \in st.read /\ \A a \in st.read : Told(q, st, a)

ValueInv == asked \in Values /\ (asked.kind = "value" /\ answer # Nothing => TextInv(asked, answer))

LEMMA BeginTells == ASSUME NEW q, ProperValue(q) PROVE TextInv(q, FormatArg(q))
<1> DEFINE A == DOMAIN q.heap
           f == Formatter(q.limits)
           r == FormatArg(q)
<1>1. q.limits \in Limits /\ q.limits.maxDepth \in Int BY DEF ProperValue, Limits
<1>2. f \in Texts(A) /\ Paid(q.limits, f) BY <1>1, FormatterIs
<1>3. f.status = "formatting" /\ f.read = {} /\ f.shown = {} /\ f.frames = <<>> /\ ~f.truncated BY DEF Formatter
<1> HIDE DEF f
<1>4. CASE Withheld(q)
  <2>1. r = [f EXCEPT !.status = "formatted", !.len = 4] BY <1>4 DEF FormatArg, Withheld, Redacted, f
  <2> HIDE DEF r
  <2>2. r \in Texts(A)
    <3>1. 4 \in Int /\ "formatted" \in {"formatting", "formatted"} OBVIOUS
    <3> QED BY <1>2, <2>1, <3>1 DEF Texts
  <2>3. /\ r.status = "formatted" /\ r.read = {} /\ r.frames = <<>> /\ r.work = f.work /\ r.budget = f.budget
    BY <1>2, <1>3, <2>1 DEF Texts
  <2>4. Paid(q.limits, r) BY <1>2, <2>3 DEF Paid
  <2>5. TextInv(q, r) BY <1>4, <2>2, <2>3, <2>4 DEF TextInv
  <2> QED BY <2>5 DEF r
<1>5. CASE ~Withheld(q)
  <2>1. r = Repr1(q, q.root, q.limits.maxDepth, f) BY <1>5 DEF FormatArg, Withheld, f
  <2>2. q.root \in A BY DEF ProperValue
  <2>3. /\ r \in Texts(DOMAIN q.heap) /\ Continues(q.limits, f, r)
        /\ r.read \subseteq f.read \union {q.root}
        /\ \/ r.frames = f.frames
           \/ r.frames = Append(f.frames, NewCall(q.root, q.limits.maxDepth)) /\ q.root \in r.read
        /\ ~r.truncated => /\ q.root \in r.read
                           /\ q.heap[q.root].type = "leaf" => q.root \in r.shown
                           /\ q.heap[q.root].items = <<>> \/ r.frames = Append(f.frames, NewCall(q.root, q.limits.maxDepth))
    BY <1>1, <1>2, <2>1, <2>2, Repr1Is
  <2> HIDE DEF r
  <2>4. r.frames \in {<<>>, <<NewCall(q.root, q.limits.maxDepth)>>}
    <3>1. \A x : Append(<<>>, x) = <<x>> OBVIOUS
    <3> QED BY <1>3, <2>3, <3>1
  <2>5. \A k \in DOMAIN r.frames : r.frames[k].at = q.root /\ r.frames[k].next = 1 /\ q.root \in r.read
    BY <1>3, <2>3, <2>4 DEF NewCall
  <2>6. r.status = "formatting" /\ Paid(q.limits, r) BY <1>2, <1>3, <2>3 DEF Continues
  <2>7. \A S \in SUBSET A : Kept(q, PublicEntries(q), S) => r.read \subseteq S BY <1>3, <2>3 DEF Kept
  <2>8. ASSUME ~r.truncated PROVE q.root \in r.read /\ \A a \in r.read : Told(q, r, a)
    <3>1. SUFFICES ASSUME NEW i \in VisibleEntries(q)[q.root]
                   PROVE  \E k \in DOMAIN r.frames : r.frames[k].at = q.root /\ i >= r.frames[k].next
      BY <1>3, <2>3, <2>8 DEF Told
    <3>2. i \in DOMAIN q.heap[q.root].items BY <2>2 DEF VisibleEntries, PublicEntries
    <3>3. q.heap[q.root].items \in Seq(A) BY <2>2 DEF ProperValue, ProperObject
    <3>4. i >= 1 /\ q.heap[q.root].items # <<>> BY <3>2, <3>3
    <3>5. r.frames = <<NewCall(q.root, q.limits.maxDepth)>> BY <1>3, <2>3, <2>8, <3>4
    <3> QED BY <2>5, <3>4, <3>5
  <2>9. TextInv(q, r) BY <1>5, <2>3, <2>5, <2>6, <2>7, <2>8 DEF TextInv
  <2> QED BY <2>9 DEF r
<1> QED BY <1>4, <1>5

\* Moving the innermost call past an entry that was read or may not be.
LEMMA ItemTells ==
  ASSUME NEW q, ProperValue(q), NEW st, TextInv(q, st), st.status = "formatting", st.frames # <<>>,
         LET call == st.frames[Len(st.frames)] IN call.next <= Width(q.heap[call.at], q.limits)
  PROVE  TextInv(q, AfterItem(q, st, st.frames[Len(st.frames)]))
<1> DEFINE A == DOMAIN q.heap
           n == Len(st.frames)
           call == st.frames[n]
           a == call.at
           i == call.next
           moved == [st EXCEPT !.frames[n].next = @ + 1]
           keyed == Key(q.heap[a], i, moved, q.limits)
           r == AfterItem(q, st, call)
           to == q.heap[a].items[i]
<1>1. st \in Texts(A) /\ Paid(q.limits, st) /\ ~Withheld(q) BY DEF TextInv
<1>2. st.frames \in Seq(Calls(A)) /\ n \in DOMAIN st.frames /\ n \in Nat \ {0}
  <2>1. st.frames \in Seq(Calls(A)) BY <1>1 DEF Texts
  <2>2. n # 0 BY <2>1, EmptySeq
  <2> QED BY <2>1, <2>2
<1>3. call \in Calls(A) /\ a \in A /\ i \in Nat \ {0}
  <2>1. call \in Calls(A) BY <1>2, SomeItem
  <2> HIDE DEF call
  <2> QED BY <2>1 DEF Calls
<1>4. q.heap[a].items \in Seq(A) BY <1>3 DEF ProperValue, ProperObject
<1>5. i \in DOMAIN q.heap[a].items /\ to \in A
  <2>1. i <= Width(q.heap[a], q.limits) OBVIOUS
  <2>2. q.limits.maxItems \in Nat BY DEF ProperValue
  <2>3. Width(q.heap[a], q.limits) <= Len(q.heap[a].items) BY <1>4, <2>2 DEF Width, LesserOf
  <2>4. Width(q.heap[a], q.limits) \in Nat BY <1>4, <2>2 DEF Width, LesserOf
  <2>5. i \in DOMAIN q.heap[a].items BY <1>3, <1>4, <2>1, <2>3, <2>4
  <2> QED BY <1>4, <2>5
<1>6. q.limits \in Limits BY DEF ProperValue, Limits
<1>7. /\ moved \in Texts(A) /\ moved.read = st.read /\ moved.shown = st.shown /\ moved.truncated = st.truncated
      /\ moved.status = st.status /\ moved.work = st.work /\ moved.budget = st.budget
      /\ moved.frames = [st.frames EXCEPT ![n].next = @ + 1]
  <2>1. [st.frames EXCEPT ![n].next = @ + 1] \in Seq(Calls(A))
    <3>1. [call EXCEPT !.next = @ + 1] \in Calls(A) BY <1>3 DEF Calls
    <3>2. [st.frames EXCEPT ![n].next = @ + 1] = [st.frames EXCEPT ![n] = [call EXCEPT !.next = @ + 1]] BY <1>2
    <3> QED BY <1>2, <3>1, <3>2
  <2> DEFINE fr == [st.frames EXCEPT ![n].next = @ + 1]
  <2>2. moved = [st EXCEPT !.frames = fr] BY <1>1 DEF Texts
  <2> HIDE DEF fr
  <2>3. moved \in Texts(A) BY <1>1, <2>1, <2>2 DEF Texts, fr
  <2> QED BY <1>1, <2>2, <2>3 DEF Texts, fr
<1>8. /\ DOMAIN moved.frames = DOMAIN st.frames /\ Len(moved.frames) = n /\ moved.frames \in Seq(Calls(A))
      /\ \A k \in DOMAIN st.frames : /\ moved.frames[k].at = st.frames[k].at
                                     /\ k # n => moved.frames[k].next = st.frames[k].next
      /\ moved.frames[n].next = i + 1
  <2>1. moved.frames \in Seq(Calls(A)) BY <1>7 DEF Texts
  <2>2. DOMAIN moved.frames = DOMAIN st.frames BY <1>2, <1>7
  <2>3. \A k \in DOMAIN st.frames : moved.frames[k] = IF k = n THEN [st.frames[k] EXCEPT !.next = @ + 1] ELSE st.frames[k]
    BY <1>2, <1>7
  <2>4. \A k \in DOMAIN st.frames : st.frames[k] \in Calls(A) BY <1>2
  <2> QED BY <1>2, <2>1, <2>2, <2>3, <2>4 DEF Calls
<1> HIDE DEF moved
<1>9. /\ keyed \in Texts(A) /\ Continues(q.limits, moved, keyed)
      /\ keyed.frames = moved.frames /\ keyed.read = st.read /\ keyed.shown = st.shown
  BY <1>3, <1>5, <1>7, KeyIs
<1>10. Paid(q.limits, moved) BY <1>1, <1>7 DEF Paid
<1> HIDE DEF keyed
<1>11. ASSUME NEW t, st.read \subseteq t.read, st.shown \subseteq t.shown,
              i \in VisibleEntries(q)[a] => to \in t.read,
              DOMAIN st.frames \subseteq DOMAIN t.frames,
              \A k \in DOMAIN st.frames : t.frames[k] = moved.frames[k],
              NEW b \in st.read, Told(q, st, b)
       PROVE  Told(q, t, b)
  <2>1. SUFFICES ASSUME NEW j \in VisibleEntries(q)[b], NEW k \in DOMAIN st.frames,
                        st.frames[k].at = b, j >= st.frames[k].next
                 PROVE  \/ q.heap[b].items[j] \in t.read
                        \/ \E m \in DOMAIN t.frames : t.frames[m].at = b /\ j >= t.frames[m].next
    BY <1>11 DEF Told
  <2>2. b \in A BY <1>1, <1>11 DEF Texts
  <2>3. j \in Nat
    <3>1. q.heap[b].items \in Seq(A) BY <2>2 DEF ProperValue, ProperObject
    <3> QED BY <2>2, <3>1 DEF VisibleEntries, PublicEntries
  <2>4. CASE k # n BY <1>8, <1>11, <2>1, <2>4
  <2>5. CASE k = n /\ j = i BY <1>11, <2>1, <2>5
  <2>6. CASE k = n /\ j # i
    <3>1. j >= i + 1 BY <1>3, <2>1, <2>3, <2>6
    <3> QED BY <1>2, <1>8, <1>11, <2>1, <2>6, <3>1
  <2> QED BY <2>4, <2>5, <2>6
<1>12. CASE Hidden(q.heap[a], i)
  <2>1. r = [keyed EXCEPT !.len = @ + 4] BY <1>12 DEF AfterItem, keyed, moved, Redacted
  <2>2. r \in Texts(A)
    <3>1. keyed.len + 4 \in Int BY <1>9 DEF Texts
    <3> QED BY <1>9, <2>1, <3>1 DEF Texts
  <2> HIDE DEF r
  <2>3. /\ r.status = keyed.status /\ r.read = st.read /\ r.shown = st.shown /\ r.frames = moved.frames
        /\ r.work = keyed.work /\ r.budget = keyed.budget /\ r.truncated = keyed.truncated
    BY <1>9, <2>1 DEF Texts
  <2>4. Paid(q.limits, r) /\ r.status = "formatting" /\ (~r.truncated => ~st.truncated)
    BY <1>7, <1>9, <1>10, <2>3 DEF Continues, Paid
  <2>5. i \notin VisibleEntries(q)[a]
    BY <1>3, <1>12 DEF Hidden, VisibleEntries, PublicEntries, Secretive
  <2>6. \A k \in DOMAIN r.frames : r.frames[k].at \in r.read BY <1>8, <2>3 DEF TextInv
  <2>7. \A S \in SUBSET A : Kept(q, PublicEntries(q), S) => r.read \subseteq S BY <2>3 DEF TextInv
  <2>8. ASSUME ~r.truncated PROVE q.root \in r.read /\ \A b \in r.read : Told(q, r, b)
    <3>1. q.root \in st.read /\ \A b \in st.read : Told(q, st, b) BY <1>1, <2>4, <2>8 DEF TextInv
    <3>2. DOMAIN r.frames = DOMAIN st.frames BY <1>8, <2>3
    <3> QED BY <1>11, <2>3, <2>5, <3>1, <3>2
  <2>9. TextInv(q, r) BY <1>1, <2>2, <2>4, <2>6, <2>7, <2>8 DEF TextInv
  <2> QED BY <2>9 DEF r
<1>13. CASE ~Hidden(q.heap[a], i)
  <2> DEFINE below == Below(q.heap[a], call.level)
  <2>1. r = Repr1(q, to, below, keyed) BY <1>13 DEF AfterItem, keyed, moved
  <2>2. below \in Int BY <1>3 DEF Below, Calls
  <2> HIDE DEF below, to
  <2>3. /\ r \in Texts(A) /\ Continues(q.limits, keyed, r)
        /\ keyed.read \subseteq r.read /\ r.read \subseteq keyed.read \union {to}
        /\ keyed.shown \subseteq r.shown
        /\ \/ r.frames = keyed.frames
           \/ r.frames = Append(keyed.frames, NewCall(to, below)) /\ to \in r.read
        /\ ~r.truncated => /\ to \in r.read
                           /\ q.heap[to].type = "leaf" => to \in r.shown
                           /\ q.heap[to].items = <<>> \/ r.frames = Append(keyed.frames, NewCall(to, below))
    BY <1>5, <1>9, <2>1, <2>2, Repr1Is
  <2> HIDE DEF r
  <2>4. /\ Paid(q.limits, r) /\ r.status = "formatting" /\ (~r.truncated => ~st.truncated)
    BY <1>7, <1>9, <1>10, <2>3 DEF Continues
  <2>5. /\ DOMAIN st.frames \subseteq DOMAIN r.frames
        /\ \A k \in DOMAIN st.frames : r.frames[k] = moved.frames[k]
        /\ \A k \in DOMAIN r.frames : k \in DOMAIN st.frames \/ (r.frames[k] = NewCall(to, below) /\ to \in r.read)
    <3>1. CASE r.frames = moved.frames BY <1>8, <3>1
    <3>2. CASE r.frames = Append(moved.frames, NewCall(to, below)) /\ to \in r.read
      <4>1. NewCall(to, below) \in Calls(A) BY <1>5, <2>2 DEF NewCall, Calls
      <4> QED BY <1>8, <3>2, <4>1, Pushed
    <3> QED BY <1>9, <2>3, <3>1, <3>2
  <2>6. \A k \in DOMAIN r.frames : r.frames[k].at \in r.read
    <3>1. NewCall(to, below).at = to BY DEF NewCall
    <3>2. \A k \in DOMAIN st.frames : moved.frames[k].at \in r.read BY <1>8, <1>9, <2>3 DEF TextInv
    <3> QED BY <2>5, <3>1, <3>2
  <2>7. i \in PublicEntries(q)[a] BY <1>3, <1>5, <1>13 DEF Hidden, PublicEntries, Secretive
  <2>8. ASSUME NEW S \in SUBSET A, Kept(q, PublicEntries(q), S) PROVE r.read \subseteq S
    <3>1. st.read \subseteq S BY <2>8 DEF TextInv
    <3>2. a \in S BY <1>2, <3>1 DEF TextInv
    <3>3. to \in S BY <2>7, <2>8, <3>2 DEF Kept, to
    <3> QED BY <1>9, <2>3, <3>1, <3>3
  <2>9. ASSUME ~r.truncated PROVE q.root \in r.read /\ \A b \in r.read : Told(q, r, b)
    <3>1. q.root \in st.read /\ \A b \in st.read : Told(q, st, b) BY <1>1, <2>4, <2>9 DEF TextInv
    <3>2. \A b \in st.read : Told(q, r, b) BY <1>9, <1>11, <2>3, <2>5, <2>9, <3>1
    <3>3. Told(q, r, to)
      <4>1. SUFFICES ASSUME NEW j \in VisibleEntries(q)[to]
                     PROVE  \E k \in DOMAIN r.frames : r.frames[k].at = to /\ j >= r.frames[k].next
        BY <2>3, <2>9 DEF Told
      <4>2. q.heap[to].items \in Seq(A) BY <1>5 DEF ProperValue, ProperObject
      <4>3. j \in DOMAIN q.heap[to].items BY <1>5 DEF VisibleEntries, PublicEntries
      <4>4. j >= 1 /\ q.heap[to].items # <<>> BY <4>2, <4>3, SomeItem
      <4>5. r.frames = Append(moved.frames, NewCall(to, below)) BY <1>9, <2>3, <2>9, <4>4
      <4>6. n + 1 \in DOMAIN r.frames /\ r.frames[n + 1] = NewCall(to, below)
        <5>1. NewCall(to, below) \in Calls(A) BY <1>5, <2>2 DEF NewCall, Calls
        <5> QED BY <1>8, <4>5, <5>1, Pushed
      <4>7. NewCall(to, below).at = to /\ NewCall(to, below).next = 1 BY DEF NewCall
      <4> QED BY <4>4, <4>6, <4>7
    <3> QED BY <1>9, <2>3, <3>1, <3>2, <3>3
  <2>10. TextInv(q, r) BY <1>1, <2>3, <2>4, <2>6, <2>8, <2>9 DEF TextInv
  <2> QED BY <2>10 DEF r
<1> QED BY <1>12, <1>13

\* Leaving the innermost call: past its last entry, nothing is ahead of it.
Left(st) == [st EXCEPT !.frames = SubSeq(@, 1, Len(@) - 1)]
LEMMA CloseTells ==
  ASSUME NEW q, ProperValue(q), NEW st, TextInv(q, st), st.status = "formatting", st.frames # <<>>,
         LET call == st.frames[Len(st.frames)] IN call.next > Width(q.heap[call.at], q.limits)
  PROVE  LET x == q.heap[st.frames[Len(st.frames)].at]
         IN  TextInv(q, IF Len(x.items) > Width(x, q.limits) THEN Elide(Left(st)) ELSE Left(st))
<1> DEFINE A == DOMAIN q.heap
           n == Len(st.frames)
           call == st.frames[n]
           x == q.heap[call.at]
           rest == SubSeq(st.frames, 1, n - 1)
           c == Left(st)
           r == IF Len(x.items) > Width(x, q.limits) THEN Elide(c) ELSE c
<1>1. st \in Texts(A) /\ Paid(q.limits, st) /\ ~Withheld(q) BY DEF TextInv
<1>2. st.frames \in Seq(Calls(A)) /\ n \in DOMAIN st.frames /\ n \in Nat \ {0}
  <2>1. st.frames \in Seq(Calls(A)) BY <1>1 DEF Texts
  <2>2. n # 0 BY <2>1, EmptySeq
  <2> QED BY <2>1, <2>2
<1>3. call \in Calls(A) /\ call.at \in A /\ call.next \in Nat
  <2>1. call \in Calls(A) BY <1>2, SomeItem
  <2> HIDE DEF call
  <2> QED BY <2>1 DEF Calls
<1>4. rest \in Seq(Calls(A)) /\ DOMAIN rest = 1 .. n - 1 /\ \A k \in 1 .. n - 1 : rest[k] = st.frames[k]
  BY <1>2
<1> HIDE DEF rest
<1>5. /\ c \in Texts(A) /\ c.frames = rest /\ c.read = st.read /\ c.shown = st.shown
      /\ c.truncated = st.truncated /\ c.status = st.status /\ c.work = st.work /\ c.budget = st.budget
  BY <1>1, <1>4 DEF Left, Texts, rest
<1> HIDE DEF c
<1>6. q.limits \in Limits BY DEF ProperValue, Limits
<1>7. /\ r \in Texts(A) /\ r.frames = rest /\ r.read = st.read /\ r.shown = st.shown /\ r.status = "formatting"
      /\ Paid(q.limits, r) /\ (~r.truncated => ~st.truncated /\ ~(Len(x.items) > Width(x, q.limits)))
  <2>1. Paid(q.limits, c) BY <1>1, <1>5 DEF Paid
  <2>2. /\ Elide(c) \in Texts(A) /\ Continues(q.limits, c, Elide(c)) /\ Elide(c).truncated
        /\ Elide(c).frames = c.frames /\ Elide(c).read = c.read /\ Elide(c).shown = c.shown
    BY <1>5, <1>6, ElideIs
  <2>3. CASE Len(x.items) > Width(x, q.limits) BY <1>5, <2>1, <2>2, <2>3 DEF Continues
  <2>4. CASE ~(Len(x.items) > Width(x, q.limits)) BY <1>5, <2>1, <2>4
  <2> QED BY <2>3, <2>4
<1> HIDE DEF r
<1>8. \A k \in DOMAIN r.frames : r.frames[k].at \in r.read BY <1>2, <1>4, <1>7 DEF TextInv
<1>9. \A S \in SUBSET A : Kept(q, PublicEntries(q), S) => r.read \subseteq S BY <1>7 DEF TextInv
<1>10. ASSUME ~r.truncated PROVE q.root \in r.read /\ \A b \in r.read : Told(q, r, b)
  <2>1. q.root \in st.read /\ \A b \in st.read : Told(q, st, b) BY <1>1, <1>7, <1>10 DEF TextInv
  <2>2. ASSUME NEW b \in st.read PROVE Told(q, r, b)
    <3>1. SUFFICES ASSUME NEW j \in VisibleEntries(q)[b], NEW k \in DOMAIN st.frames,
                          st.frames[k].at = b, j >= st.frames[k].next
                   PROVE  \E m \in DOMAIN r.frames : r.frames[m].at = b /\ j >= r.frames[m].next
      BY <1>7, <2>1, <2>2 DEF Told
    <3>2. b \in A BY <1>1, <2>2 DEF Texts
    <3>3. j \in DOMAIN q.heap[b].items BY <3>2 DEF VisibleEntries, PublicEntries
    <3>4. q.heap[b].items \in Seq(A) BY <3>2 DEF ProperValue, ProperObject
    <3>5. CASE k = n
      <4>1. q.heap[b] = x BY <3>1, <3>5
      <4>2. j <= Len(x.items) /\ j \in Nat /\ Len(x.items) \in Nat BY <3>3, <3>4, <4>1
      <4>3. q.limits.maxItems \in Nat BY DEF ProperValue
      <4>4. Width(x, q.limits) \in Nat BY <4>2, <4>3 DEF Width, LesserOf
      <4>5. call.next > Width(x, q.limits) OBVIOUS
      <4>6. ~(Len(x.items) > Width(x, q.limits)) BY <1>7, <1>10
      <4>7. j >= call.next BY <3>1, <3>5
      <4> QED BY <1>3, <4>2, <4>4, <4>5, <4>6, <4>7
    <3>6. CASE k # n
      <4>1. k \in 1 .. n - 1 BY <1>2, <3>1, <3>6
      <4>2. k \in DOMAIN r.frames /\ r.frames[k] = st.frames[k] BY <1>4, <1>7, <4>1
      <4> QED BY <3>1, <4>2
    <3> QED BY <3>5, <3>6
  <2> QED BY <1>7, <2>1, <2>2
<1>11. TextInv(q, r) BY <1>1, <1>7, <1>8, <1>9, <1>10 DEF TextInv
<1> QED BY <1>11 DEF r, c, Left

LEMMA ValueStep == ValueInv /\ [FormatValue]_questionVars => ValueInv'
<1> SUFFICES ASSUME ValueInv, FormatValue \/ UNCHANGED questionVars PROVE ValueInv'
  OBVIOUS
<1>1. asked' = asked BY DEF FormatValue, BeginValue, FormatItem, CloseContainer, ReturnText, Unreprable, Answer, questionVars
<1>2. CASE UNCHANGED questionVars BY <1>2 DEF ValueInv, questionVars
<1>3. CASE FormatValue /\ asked.kind # "value" BY <1>1, <1>3 DEF ValueInv
<1>4. CASE FormatValue /\ asked.kind = "value"
  <2>1. asked \in Values /\ ProperValue(asked) BY ValuesAreProper DEF ValueInv
  <2>2. SUFFICES TextInv(asked, answer') BY <1>1, <2>1 DEF ValueInv
  <2>3. CASE BeginValue BY <2>1, <2>3, BeginTells DEF BeginValue, Answer
  <2>4. ASSUME Formatting PROVE TextInv(asked, answer) /\ answer.status = "formatting"
    BY <2>4 DEF Formatting, ValueInv
  <2>5. CASE FormatItem BY <2>1, <2>4, <2>5, ItemTells DEF FormatItem, TopCall
  <2>6. CASE CloseContainer
    <3>1. TextInv(asked, IF Len(asked.heap[TopCall.at].items) > Width(asked.heap[TopCall.at], asked.limits)
                         THEN Elide(Left(answer)) ELSE Left(answer))
      BY <2>1, <2>4, <2>6, CloseTells DEF CloseContainer, TopCall
    <3> QED BY <2>6, <3>1 DEF CloseContainer, Left
  <2>7. ASSUME ReturnText \/ Unreprable PROVE TextInv(asked, answer')
    <3> DEFINE A == DOMAIN asked.heap
               r == answer'
    <3>1. Formatting /\ TextInv(asked, answer) /\ answer.status = "formatting" BY <2>4, <2>7 DEF ReturnText, Unreprable
    <3>2. answer \in Texts(A) /\ ~Withheld(asked) BY <3>1 DEF TextInv
    <3>3. /\ r \in Texts(A) /\ r.status = "formatted" /\ r.frames = <<>> /\ r.read = answer.read
          /\ r.work = answer.work /\ r.budget = answer.budget
          /\ ~r.truncated => ~answer.truncated /\ r.shown = answer.shown /\ answer.frames = <<>>
      <4>1. asked.limits.maxLen \in Nat BY <2>1 DEF ProperValue
      <4>2. LesserOf(answer.len, asked.limits.maxLen) \in Int BY <3>2, <4>1 DEF LesserOf, Texts
      <4>3. CASE ReturnText
        <5> DEFINE over == answer.truncated \/ answer.len > asked.limits.maxLen
                   length == LesserOf(answer.len, asked.limits.maxLen)
        <5>1. over \in BOOLEAN OBVIOUS
        <5>2. answer' = [answer EXCEPT !.status = "formatted", !.truncated = over, !.len = length]
          BY <3>2, <4>3 DEF ReturnText, Texts
        <5>3. answer.frames = <<>> BY <4>3 DEF ReturnText
        <5>4. ~over => ~answer.truncated OBVIOUS
        <5> HIDE DEF over, length
        <5>5. answer' \in Texts(A) BY <3>2, <4>2, <5>1, <5>2 DEF Texts, length
        <5> QED BY <3>2, <5>2, <5>3, <5>4, <5>5 DEF Texts
      <4>4. CASE Unreprable
        <5>1. answer' = [answer EXCEPT !.status = "formatted", !.truncated = TRUE, !.len = 4,
                                       !.shown = {}, !.frames = <<>>]
          BY <4>4 DEF Unreprable, Redacted
        <5>2. <<>> \in Seq(Calls(A)) /\ {} \in SUBSET A /\ TRUE \in BOOLEAN /\ 4 \in Int
              /\ "formatted" \in {"formatting", "formatted"}
          OBVIOUS
        <5>3. answer' \in Texts(A) BY <3>2, <5>1, <5>2 DEF Texts
        <5> QED BY <3>2, <5>1, <5>3 DEF Texts
      <4> QED BY <2>7, <4>3, <4>4
    <3> HIDE DEF r
    <3>4. Paid(asked.limits, r) BY <3>1, <3>3 DEF TextInv, Paid
    <3>5. \A S \in SUBSET A : Kept(asked, PublicEntries(asked), S) => r.read \subseteq S BY <3>1, <3>3 DEF TextInv
    <3>6. ASSUME ~r.truncated PROVE asked.root \in r.read /\ \A a \in r.read : Told(asked, r, a)
      BY <3>1, <3>2, <3>3, <3>6 DEF TextInv, Told
    <3>7. TextInv(asked, r) BY <3>2, <3>3, <3>4, <3>5, <3>6 DEF TextInv
    <3> QED BY <3>7 DEF r
  <2> QED BY <1>4, <2>3, <2>5, <2>6, <2>7 DEF FormatValue
<1> QED BY <1>2, <1>3, <1>4

LEMMA ValueFacts == ValueSpec => []ValueInv
<1>1. AnyValue => ValueInv BY DEF AnyValue, ValueInv
<1> QED BY <1>1, ValueStep, PTL DEF ValueSpec

\* What stands only under secret names is never read.
THEOREM SecretsAreUntouched == ValueSpec => []SecretsUntouched
<1>1. ValueInv => SecretsUntouched
  <2> SUFFICES ASSUME ValueInv, Answered("value") PROVE answer.read \subseteq ReachedBy(asked, PublicEntries(asked))
                                                        /\ (Withheld(asked) => answer.read = {})
    BY DEF SecretsUntouched, Withheld
  <2>1. TextInv(asked, answer) BY DEF ValueInv, Answered
  <2>2. answer.read \subseteq DOMAIN asked.heap BY <2>1 DEF TextInv, Texts
  <2> QED BY <2>1, <2>2 DEF TextInv, ReachedBy
<1> QED BY <1>1, ValueFacts, PTL

\* The work is bounded, and an answer that is not marked shows what it may.
THEOREM BoundsAreAlwaysTold == ValueSpec => []BoundsAreTold
<1>1. ValueInv => BoundsAreTold
  <2> SUFFICES ASSUME ValueInv, Answered("value") PROVE BoundsAreTold
    BY DEF BoundsAreTold
  <2>1. TextInv(asked, answer) /\ asked \in Values BY DEF ValueInv, Answered
  <2>2. answer \in Texts(DOMAIN asked.heap) BY <2>1 DEF TextInv
  <2>3. Overdraft(asked.limits) \in Nat /\ Formatter(asked.limits).budget \in Int
    <3>1. asked.limits \in Limits BY <2>1, ValuesAreProper DEF ProperValue, Limits
    <3>2. Formatter(asked.limits) \in Texts({}) BY <3>1, FormatterIs
    <3> QED BY <3>1, <3>2 DEF Overdraft, GreaterOf, Redacted, Limits, Texts
  <2>4. answer.work <= Formatter(asked.limits).budget + Overdraft(asked.limits)
    <3>1. answer.work \in Int /\ answer.budget \in Int BY <2>2 DEF Texts
    <3>2. answer.work + answer.budget = Formatter(asked.limits).budget /\ answer.budget >= -Overdraft(asked.limits)
      BY <2>1 DEF TextInv, Paid
    <3> QED BY <2>3, <3>1, <3>2
  <2>5. ASSUME answer.status = "formatted", ~answer.truncated, ~Withheld(asked),
               NEW a \in ReachedBy(asked, VisibleEntries(asked)), asked.heap[a].type = "leaf"
        PROVE  a \in answer.shown
    <3>1. answer.frames = <<>> /\ asked.root \in answer.read /\ \A b \in answer.read : Told(asked, answer, b)
      BY <2>1, <2>5 DEF TextInv
    <3>2. answer.read \in SUBSET DOMAIN asked.heap BY <2>2 DEF Texts
    <3>3. Kept(asked, VisibleEntries(asked), answer.read) BY <3>1 DEF Kept, Told
    <3>4. a \in answer.read BY <2>5, <3>2, <3>3 DEF ReachedBy
    <3> QED BY <2>5, <3>1, <3>4 DEF Told
  <2> QED BY <2>4, <2>5 DEF BoundsAreTold, Overdraft, Withheld
<1> QED BY <1>1, ValueFacts, PTL
=============================================================================
