---------------------------- MODULE Aggregates -----------------------------
(***************************************************************************)
(* python_runtime/aggregates.py, jsonl_index.py and diff.py: one scan of a  *)
(* trace file, one action per line, into a byte index and per-node prefix   *)
(* sums, and what is answered from them. A line is [kind, node, count]:     *)
(* kind is "blank", "bad" (not JSON) or "event"; a node is "" when the      *)
(* event has none; count is [type, n] as it stands in metadata. Every line  *)
(* is one byte long.                                                         *)
(***************************************************************************)
EXTENDS Integers, Sequences, FiniteSets, SequencesExt, Questions

CONSTANT Scans       \* the files to scan, for windows and heat or for a comparison

ProperFile(file) ==
  /\ file \in Seq(Range(file))
  /\ \A l \in DOMAIN file : file[l].count.type \in {"int", "float"} => file[l].count.n \in Int

(* The rank of a node is the place of its id among the ids. *)
ProperScan(q) ==
  /\ q.kind \in {"scan", "diff"} /\ q.k \in Int
  /\ q.files \in Seq(Range(q.files))
  /\ \A i \in DOMAIN q.files : ProperFile(q.files[i])
  /\ q.kind = "scan" =>
       /\ \A i \in DOMAIN q.files : \A l \in DOMAIN q.files[i] : q.files[i][l].node \in DOMAIN q.rank
       /\ \A m, n \in DOMAIN q.rank : q.rank[m] \in Int /\ (q.rank[m] = q.rank[n] => m = n)
  /\ q.kind = "diff" => Len(q.files) = 2 /\ q.k = 1 /\ "" \notin q.nodes

ASSUME ScansAreProper == \A q \in Scans : ProperScan(q)

AnyScan == asked \in Scans /\ answer = Nothing

(* _event_weight: a finite number of at least one call, or one. *)
EventWeight(count) ==
  IF count.type \in {"int", "float"} /\ count.n > 1 THEN count.n ELSE 1

Get(map, key) == IF key \in DOMAIN map THEN map[key] ELSE <<>>
Put(map, key, value) == [x \in DOMAIN map \union {key} |-> IF x = key THEN value ELSE map[x]]

(* setdefault and append, of the index and of the sum up to it. *)
Record(agg, node, count) ==
  LET sums == Get(agg.sums, node)
      sum  == (IF sums = <<>> THEN 0 ELSE sums[Len(sums)]) + EventWeight(count)
  IN  [agg EXCEPT !.hits = Put(@, node, Append(Get(@, node), agg.index)),
                  !.sums = Put(@, node, Append(sums, sum))]

Tally(agg, event) ==
  LET seen == IF event.node \in DOMAIN agg.first THEN agg
              ELSE [agg EXCEPT !.first = Put(@, event.node, agg.index)]
  IN  IF event.node = "" THEN agg
      ELSE IF agg.index % agg.k # 0 THEN seen
      ELSE Record(seen, event.node, event.count)

(* Every line that is not blank has a number, whether it parses or not. *)
CountsParsedOnly(line) == line.kind = "event"
CountsAsEvent(line) == line.kind # "blank"

(* One line of the scan shared by build and build_seekable. *)
AfterLine(agg, line) ==
  LET tallied == IF line.kind = "event" THEN Tally(agg, line) ELSE agg
  IN  [tallied EXCEPT
         !.offset  = @ + 1,
         !.offsets = IF line.kind = "blank" THEN @ ELSE Append(@, agg.offset),
         !.index   = IF CountsAsEvent(line) THEN @ + 1 ELSE @]

NoLines(k) ==
  LET none == [n \in {} |-> <<>>]
  IN  [offset |-> 0, offsets |-> <<>>, index |-> 0, hits |-> none, sums |-> none, first |-> none, k |-> k]

BeginScan ==
  asked.kind \in {"scan", "diff"} /\
  Answer(asked.kind, [status |-> "scan", aggs |-> [i \in DOMAIN asked.files |-> NoLines(IF asked.k < 1 THEN 1 ELSE asked.k)]])

Scanning == asked.kind \in {"scan", "diff"} /\ answer # Nothing /\ answer.status = "scan"
Unread(i) == answer.aggs[i].offset < Len(asked.files[i])

(* One file is read after the other. *)
ScanLine ==
  /\ Scanning
  /\ \E i \in DOMAIN answer.aggs :
       LET agg == answer.aggs[i]
       IN  /\ Unread(i) /\ \A j \in DOMAIN answer.aggs : j < i => ~Unread(j)
           /\ answer' = [answer EXCEPT !.aggs[i] = AfterLine(agg, asked.files[i][agg.offset + 1])]
  /\ UNCHANGED asked

(* cumulative_heat: bisect_right finds the hits before the index. *)
CumulativeHeat(agg, node, at) ==
  LET hits  == agg.hits[node]
      bound == IF agg.k > 1 THEN (at \div agg.k) * agg.k ELSE at
      pos   == CHOOSE p \in 0 .. Len(hits) : /\ \A i \in 1 .. p : hits[i] < bound
                                             /\ \A i \in p + 1 .. Len(hits) : hits[i] >= bound
  IN  IF node \notin DOMAIN agg.hits THEN 0
      ELSE IF pos = 0 THEN 0 ELSE agg.sums[node][pos]

CoverageCount(agg, at) == Cardinality({n \in DOMAIN agg.first : agg.first[n] < at})

HeatAll(agg, at) ==
  LET hot == {n \in DOMAIN agg.hits : CumulativeHeat(agg, n, at) > 0}
  IN  [n \in hot |-> CumulativeHeat(agg, n, at)]

(* top_k: the hottest k, ties in the order of the ids, here of rank. *)
TopK(agg, k, at, rank) ==
  LET heat == HeatAll(agg, at)
      Before(a, b) == heat[a] > heat[b] \/ (heat[a] = heat[b] /\ rank[a] < rank[b])
      Position(n) == Cardinality({o \in DOMAIN heat : Before(o, n)}) + 1
      count == Cardinality(DOMAIN heat)
  IN  [i \in 1 .. (IF k < count THEN k ELSE count) |-> CHOOSE n \in DOMAIN heat : Position(n) = i]

Parsed(lines) == SelectSeq(lines, LAMBDA l : l.kind = "event")

(* JsonlIndex.read_window: the lines of [start, start + count), clamped;    *)
(* lines that do not parse are left out.                                     *)
Clamped(start, total) == IF start < 0 THEN 0 ELSE IF start > total THEN total ELSE start
ReadWindow(file, agg, start, count) ==
  LET total == Len(agg.offsets)
      from  == Clamped(start, total)
      to    == IF from + count < total THEN from + count ELSE total
      lines == [i \in 1 .. (IF to > from THEN to - from ELSE 0) |->
                  file[agg.offsets[from + i] + 1]]
  IN  Parsed(lines)

(* diff_trace_vs_static *)
DiffStatic(nodes, agg, at) ==
  [n \in nodes |-> IF CumulativeHeat(agg, n, at) > 0 THEN "touched" ELSE "cold"]

(* diff_trace_vs_trace, over what either trace saw and the nodes asked for. *)
StatusWithoutGone(ca, cb) ==
  IF ca = 0 /\ cb > 0 THEN "new"
  ELSE IF cb > ca THEN "hotter" ELSE IF cb < ca THEN "colder" ELSE "same"
Status(ca, cb) ==
  IF ca = 0 /\ cb > 0 THEN "new"
  ELSE IF ca > 0 /\ cb = 0 THEN "gone"
  ELSE IF cb > ca THEN "hotter" ELSE IF cb < ca THEN "colder" ELSE "same"

DiffTraces(a, b, nodes, ata, atb) ==
  [n \in DOMAIN a.hits \union DOMAIN b.hits \union nodes |->
     Status(CumulativeHeat(a, n, ata), CumulativeHeat(b, n, atb))]

HasRegression(diff) == \E n \in DOMAIN diff : diff[n] = "hotter"

FilesRead == \A i \in DOMAIN answer.aggs : ~Unread(i)

ReturnScan ==
  /\ Scanning /\ FilesRead /\ asked.kind = "scan"
  /\ answer' = [answer EXCEPT !.status = "scanned"] /\ UNCHANGED asked

CompareTraces ==
  /\ Scanning /\ FilesRead /\ asked.kind = "diff"
  /\ LET a == answer.aggs[1]
         b == answer.aggs[2]
     IN  answer' = [status |-> "compared",
                    there   |-> DiffTraces(a, b, asked.nodes, a.index, b.index),
                    back    |-> DiffTraces(b, a, asked.nodes, b.index, a.index),
                    touched |-> DiffStatic(asked.nodes, a, a.index)]
  /\ UNCHANGED asked

Aggregate == BeginScan \/ ScanLine \/ ReturnScan \/ CompareTraces

ScanSpec == AnyScan /\ [][Aggregate]_questionVars
-----------------------------------------------------------------------------
(* Counted from the file itself: the lines that are events of a trace and   *)
(* how many of them come before a line.                                      *)
EventLines(file) == {l \in DOMAIN file : file[l].kind # "blank"}
Number(file, l) == Cardinality({m \in EventLines(file) : m < l})
Total(file) == Cardinality(EventLines(file))
LineOf(file, i) == CHOOSE l \in EventLines(file) : Number(file, l) = i

(* The events of a node before the index, and each single invocation they   *)
(* stand for.                                                                *)
Calls(file, node, at) ==
  {l \in EventLines(file) : file[l].kind = "event" /\ file[l].node = node /\ Number(file, l) < at}
Invocations(file, lines) == UNION {{l} \X (1 .. EventWeight(file[l].count)) : l \in lines}
HeatOf(file, node, at) == Cardinality(Invocations(file, Calls(file, node, at)))

Traced(file, at) == {n \in {file[l].node : l \in DOMAIN file} : n # "" /\ Calls(file, n, at) # {}}

WindowIsExact(file, agg) ==
  \A i \in -1 .. Total(file) + 1 : \A c \in 0 .. Total(file) + 1 :
    LET from == Clamped(i, Total(file))
        size == IF from + c < Total(file) THEN c ELSE Total(file) - from
    IN  ReadWindow(file, agg, i, c)
          = Parsed([j \in 1 .. size |-> file[LineOf(file, from + j - 1)]])

(* The heat of the sparse index is that of every k-th event only. *)
HeatIsExact(file, agg, at) ==
  \A n \in Traced(file, Total(file)) :
    LET recorded == {l \in Calls(file, n, (at \div agg.k) * agg.k) : Number(file, l) % agg.k = 0}
    IN  /\ CumulativeHeat(agg, n, at) = Cardinality(Invocations(file, recorded))
        /\ CumulativeHeat(agg, n, at) <= HeatOf(file, n, at)
        /\ agg.k = 1 => CumulativeHeat(agg, n, at) = HeatOf(file, n, at)

(* The hottest come first, ties by rank, and none that is ahead is left out. *)
TopIsHottest(agg, k, at, rank, nodes) ==
  LET top == TopK(agg, k, at, rank)
      Heat(n) == CumulativeHeat(agg, n, at)
      Ahead(m, n) == Heat(m) > Heat(n) \/ (Heat(m) = Heat(n) /\ rank[m] < rank[n])
      hot == {n \in nodes : Heat(n) > 0}
  IN  /\ Range(top) \subseteq hot
      /\ \A i, j \in DOMAIN top : i < j => Ahead(top[i], top[j])
      /\ \A n \in hot \ Range(top) : Len(top) = k /\ \A i \in DOMAIN top : Ahead(top[i], n)

(* The byte index and the aggregates number the same lines: a window at i   *)
(* begins with the event the heat counts as the i-th, blank lines and lines *)
(* that do not parse included. Heat counts every invocation when every      *)
(* event is recorded, and is never too high when only every k-th is;        *)
(* coverage is exact either way; the hottest nodes come first and none is   *)
(* missed.                                                                   *)
SeekMatchesAggregates ==
  Answered("scan") /\ answer.status = "scanned" =>
    \A f \in DOMAIN asked.files :
      LET file  == asked.files[f]
          agg   == answer.aggs[f]
          nodes == Traced(file, Total(file))
      IN  /\ agg.index = Total(file) /\ WindowIsExact(file, agg)
          /\ \A at \in 0 .. Total(file) + 1 :
               /\ CoverageCount(agg, at) = Cardinality(Traced(file, at))
               /\ HeatIsExact(file, agg, at)
               /\ \A k \in 0 .. Total(file) + 1 : TopIsHottest(agg, k, at, asked.rank, nodes)

Mirror == [new |-> "gone", gone |-> "new", hotter |-> "colder", colder |-> "hotter", same |-> "same"]

(* Comparing B with A says the opposite of comparing A with B, a node is    *)
(* new or gone exactly when one side never ran it, and CI fails exactly     *)
(* when a node that ran before ran more.                                     *)
DiffMirrors ==
  Answered("diff") /\ answer.status = "compared" =>
    LET a == asked.files[1]
        b == asked.files[2]
        HeatA(n) == HeatOf(a, n, Total(a))
        HeatB(n) == HeatOf(b, n, Total(b))
    IN  /\ DOMAIN answer.there = Traced(a, Total(a)) \union Traced(b, Total(b)) \union asked.nodes
        /\ DOMAIN answer.back = DOMAIN answer.there
        /\ \A n \in DOMAIN answer.there :
             /\ answer.back[n] = Mirror[answer.there[n]]
             /\ answer.there[n] = "gone" <=> HeatA(n) > 0 /\ HeatB(n) = 0
        /\ HasRegression(answer.there)
             <=> \E n \in DOMAIN answer.there : 0 < HeatA(n) /\ HeatA(n) < HeatB(n)
        /\ \A n \in asked.nodes : answer.touched[n] = "touched" <=> HeatA(n) > 0
=============================================================================
