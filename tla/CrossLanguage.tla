--------------------------- MODULE CrossLanguage ---------------------------
(***************************************************************************)
(* cross_language.py and AdapterRegistry.parse_all: the graphs of the       *)
(* detected languages are merged, and the HTTP and subprocess hints of all  *)
(* of them resolved into edges, one action per turn of each loop. A hint is *)
(* [kind, node, path, line]; a URL path is [segments, slash], a segment     *)
(* [style, text]; a command or a file is the sequence of its path parts, a  *)
(* file node [id, kind, path].                                               *)
(***************************************************************************)
EXTENDS Integers, Sequences, FiniteSets, SequencesExt, Questions

CONSTANT Projects    \* the projects that may be parsed

HintsOf(q) == UNION {Range(q.graphs[i].hints) : i \in DOMAIN q.graphs}
NodesIn(q) == UNION {q.graphs[i].nodes : i \in DOMAIN q.graphs}
EdgesIn(q) == UNION {Range(q.graphs[i].edges) : i \in DOMAIN q.graphs}

ProperHint(h) ==
  /\ h.kind = "subprocess" => h.path \in Seq(STRING)
  /\ h.kind \in {"http_server", "http_client"} =>
       h.path.segments \in Seq(Range(h.path.segments))

(* The graphs come in the sorted order of the languages; "order" is the     *)
(* order in which the set of the merged file nodes is iterated.              *)
ProperProject(q) ==
  /\ q.kind = "cross"
  /\ q.graphs \in Seq(Range(q.graphs)) /\ q.order \in Seq(Range(q.order))
  /\ \A i \in DOMAIN q.graphs : /\ q.graphs[i].hints \in Seq(Range(q.graphs[i].hints))
                                /\ q.graphs[i].edges \in Seq(Range(q.graphs[i].edges))
  /\ \A h \in HintsOf(q) : ProperHint(h)
  /\ Range(q.order) = {n \in NodesIn(q) : n.kind = "file"}
  /\ \A f \in Range(q.order) : f.path \in Seq(STRING)

ASSUME ProjectsAreProper == \A q \in Projects : ProperProject(q)

AnyProject == asked \in Projects /\ answer = Nothing

(* normalize_http_path: the trailing slash goes, every parameter style is   *)
(* one token. A literal has style "text".                                    *)
KeepParams(segment) == segment
Token(segment) == IF segment.style = "text" THEN segment
                  ELSE [style |-> "param", text |-> ""]
Normalize(path) == [i \in DOMAIN path.segments |-> Token(path.segments[i])]

(* parse_all without a language raises.                                      *)
BeginProject ==
  Answer("cross",
    IF asked.graphs = <<>> THEN [status |-> "no parser"]
    ELSE [status |-> "merge", at |-> 0, languages |-> <<>>, nodes |-> {}, edges |-> <<>>,
          hints |-> <<>>, servers |-> [r \in {} |-> 0], cross |-> <<>>])

Linking == asked.kind = "cross" /\ answer # Nothing

MergeGraph ==
  LET graph == asked.graphs[answer.at + 1]
  IN  /\ Linking /\ answer.status = "merge" /\ answer.at < Len(asked.graphs)
      /\ answer' = [answer EXCEPT
                      !.at = @ + 1,
                      !.languages = Append(@, <<graph.language, Cardinality(graph.nodes)>>),
                      !.nodes = @ \union graph.nodes,
                      !.edges = @ \o graph.edges,
                      !.hints = @ \o graph.hints]
      /\ UNCHANGED asked

Loops == [merge |-> "serve", serve |-> "call", call |-> "spawn"]

NextLoop ==
  /\ Linking /\ answer.status \in DOMAIN Loops
  /\ answer.at = IF answer.status = "merge" THEN Len(asked.graphs) ELSE Len(answer.hints)
  /\ answer' = [answer EXCEPT !.status = Loops[@], !.at = 0]
  /\ UNCHANGED asked

(* The next hint of a loop; those of the other kinds are in other lists.     *)
Turn(loop) == Linking /\ answer.status = loop /\ answer.at < Len(answer.hints) /\ UNCHANGED asked
CurrentHint == answer.hints[answer.at + 1]

(* A path of two segments or more belongs to the last server that has it.    *)
Serve(servers, h) ==
  LET route == Normalize(h.path)
  IN  IF h.kind # "http_server" \/ Len(route) < 2 THEN servers
      ELSE [r \in DOMAIN servers \union {route} |-> IF r = route THEN h.node ELSE servers[r]]

ServeHint ==
  /\ Turn("serve")
  /\ answer' = [answer EXCEPT !.at = @ + 1, !.servers = Serve(@, CurrentHint)]

CrossEdge(h, target, kind) == [source |-> h.node, target |-> target, kind |-> kind, line |-> h.line]

Call(cross, h, servers) ==
  LET route == Normalize(h.path)
  IN  IF h.kind # "http_client" \/ route \notin DOMAIN servers \/ servers[route] = h.node
      THEN cross
      ELSE Append(cross, CrossEdge(h, servers[route], "cross_language_call"))

CallHint ==
  /\ Turn("call")
  /\ answer' = [answer EXCEPT !.at = @ + 1, !.cross = Call(@, CurrentHint, answer.servers)]

(* lstrip("./"): the dots a command begins with. *)
StripDots(command) ==
  LET named == {i \in DOMAIN command : command[i] \notin {".", ".."}}
  IN  IF named = {} THEN <<>>
      ELSE SubSeq(command, CHOOSE i \in named : \A j \in named : i <= j, Len(command))

(* The loop over the file nodes stops at the first that ends in the command, *)
(* whether or not that one is the hint's own node.                           *)
Spawn(cross, h, order) ==
  LET command == StripDots(h.path)
      matches == {i \in DOMAIN order : IsSuffix(command, order[i].path)}
      file == order[CHOOSE i \in matches : \A j \in matches : i <= j]
  IN  IF h.kind # "subprocess" \/ command = <<>> \/ matches = {} \/ file.id = h.node
      THEN cross
      ELSE Append(cross, CrossEdge(h, file.id, "cross_language_spawn"))

SpawnHint ==
  /\ Turn("spawn")
  /\ answer' = [answer EXCEPT !.at = @ + 1, !.cross = Spawn(@, CurrentHint, asked.order)]

ReturnGraph ==
  /\ Linking /\ answer.status = "spawn" /\ answer.at = Len(answer.hints)
  /\ answer' = [answer EXCEPT !.status = "parsed", !.edges = @ \o answer.cross]
  /\ UNCHANGED asked

ParseAll == \/ BeginProject \/ MergeGraph \/ NextLoop
            \/ ServeHint \/ CallHint \/ SpawnHint \/ ReturnGraph

ProjectSpec == AnyProject /\ [][ParseAll]_questionVars
-----------------------------------------------------------------------------
(* Two URLs a framework would route alike: the same parts, a parameter      *)
(* standing for a parameter whatever its style.                              *)
SameRoute(p, q) ==
  /\ Len(p.segments) = Len(q.segments)
  /\ \A i \in DOMAIN p.segments :
       LET a == p.segments[i] b == q.segments[i]
       IN  IF a.style = "text" \/ b.style = "text" THEN a = b ELSE TRUE

OfKind(q, kind) == {h \in HintsOf(q) : h.kind = kind}
Serving(q, c) == {s.node : s \in {h \in OfKind(q, "http_server") : SameRoute(h.path, c.path)}}

(* A file's path ends in the command, without the dots the command begins   *)
(* with.                                                                     *)
Names(command, file) ==
  \E d \in 0 .. Len(command) - 1 :
    /\ \A i \in 1 .. d : command[i] \in {".", ".."}
    /\ command[d + 1] \notin {".", ".."}
    /\ Len(command) - d <= Len(file.path)
    /\ \A i \in d + 1 .. Len(command) : command[i] = file.path[Len(file.path) - Len(command) + i]
NamedBy(q, h) == {f.id : f \in {g \in Range(q.order) : Names(h.path, g)}}

(* A call edge joins a client to a server of the same route, a spawn edge a *)
(* caller to a file its command names, and nothing is linked to itself. A   *)
(* client whose route only one other node serves is always linked to it, a  *)
(* caller to the file when it names only one other; no hint gives two edges. *)
(* No node and no edge of a language is lost or made up by the merge.        *)
LinkedSoundly(q, s) ==
  LET cross  == Range(s.cross)
      calls  == {e \in cross : e.kind = "cross_language_call"}
      spawns == {e \in cross : e.kind = "cross_language_spawn"}
  IN  /\ cross = calls \union spawns /\ \A e \in cross : e.source # e.target
      /\ \A e \in calls : \E c \in OfKind(q, "http_client") :
           c.node = e.source /\ e.target \in Serving(q, c) /\ Len(c.path.segments) > 1
      /\ \A c \in OfKind(q, "http_client") :
           Cardinality(Serving(q, c)) = 1 /\ c.node \notin Serving(q, c) /\ Len(c.path.segments) > 1
             => \E e \in calls : e.source = c.node /\ e.target \in Serving(q, c)
      /\ \A e \in spawns : \E h \in OfKind(q, "subprocess") :
           h.node = e.source /\ e.target \in NamedBy(q, h)
      /\ \A h \in OfKind(q, "subprocess") :
           Cardinality(NamedBy(q, h)) = 1 /\ h.node \notin NamedBy(q, h)
             => \E e \in spawns : e.source = h.node /\ e.target \in NamedBy(q, h)
      /\ Len(s.cross) <= Len(s.hints)
      /\ s.nodes = NodesIn(q) /\ Range(s.edges) = EdgesIn(q) \union cross

(* What parse_all returns is linked soundly.                                 *)
CrossEdgesSound ==
  Answered("cross") /\ answer.status = "parsed" => LinkedSoundly(asked, answer)
=============================================================================
