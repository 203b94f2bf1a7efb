----------------------------- MODULE Attribution -----------------------------
(***************************************************************************)
(* Attributing what a runtime reports to the static graph. A report is a    *)
(* code object of CPython, a callFrame of V8 or a statement of a coverage   *)
(* profile, with the nodes of the graph it is asked of and, for the         *)
(* properties only, the function the frame is of.                            *)
(***************************************************************************)
EXTENDS RuntimeResolution, Questions

CONSTANT Reports     \* the reports that may come

Callable(n) == n.kind \in {"function", "method"}

(* The nodes of a graph: GraphBuilder.add_node gives each an id of its own, *)
(* the id of a file is its path, and a callable's name has no dot.          *)
ProperNodes(nodes) ==
  /\ IsFiniteSet(nodes)
  /\ \A n \in nodes : n.id \in Nat \ {NoNode} /\ n.line \in Nat /\ n.path \in Seq(STRING) \ {<<>>}
  /\ \A n \in nodes : Callable(n) => Len(n.name) = 1
  /\ \A m, n \in nodes : m.id = n.id => m = n
  /\ \A m, n \in nodes : m.kind = "file" /\ n.kind = "file" /\ m.path = n.path => m = n

At(j, n) == j.id.parts = j.root \o n.path

(* A frame is of a function when it has its line and its name; the owner of *)
(* a module, a lambda or a callback is Nothing. Directories do not run.     *)
ProperFrame(j) ==
  /\ j.kind \in {"code", "frame", "statement"} /\ ProperNodes(j.nodes)
  /\ j.root \in Seq(STRING) /\ j.id.parts \in Seq(STRING) \ {j.root}
  /\ j.line \in Nat /\ j.name \in Seq(STRING)
  /\ j.kind = "code" => j.id.scheme \in {"path", "sentinel"}
  /\ j.kind = "statement" => j.id.scheme = "path"
  /\ j.owner # Nothing =>
       /\ j.owner \in j.nodes /\ Callable(j.owner) /\ At(j, j.owner) /\ j.owner.line = j.line
       /\ j.module = FALSE
       /\ j.kind = "frame" => j.name # <<>> /\ j.owner.name = <<Last(j.name)>>

ASSUME ReportsAreProper == \A j \in Reports : ProperFrame(j)

AnyReport == asked \in Reports /\ answer = Nothing

ResolveCodeJob ==
  LET path == NormalizeCode(asked.root, asked.id)
  IN  Answer("code", ResolveCode(asked.nodes, path, asked.line, asked.module))

ResolveFrameJob ==
  LET path == NormalizeUrl(asked.root, asked.id)
  IN  Answer("frame", ResolveFrame(asked.nodes, path, asked.line, asked.name, asked.pseudo))

ResolveStatementJob ==
  LET path == NormalizePath(asked.root, asked.id)
  IN  Answer("statement", ResolveStatement(asked.nodes, path, asked.line))

Attribute == ResolveCodeJob \/ ResolveFrameJob \/ ResolveStatementJob

AttributionSpec == AnyReport /\ [][Attribute]_questionVars
-----------------------------------------------------------------------------
(* The file a frame is in, if it is one of the project's, and its callables. *)
Inside(j) == IsStrictPrefix(j.root, j.id.parts) /\ j.id.scheme \in {"file", "path"}
FileNode(j) ==
  LET files == {n \in j.nodes : n.kind = "file" /\ At(j, n)}
  IN  IF files = {} THEN Unresolved ELSE (CHOOSE n \in files : TRUE).id
Beside(j) == {n \in j.nodes : Callable(n) /\ At(j, n)}
Sharing(j, line)  == {g \in Beside(j) : g.line = line}
Homonyms(j, name) == {g \in Beside(j) : g.name = name}

CodeIsFound(j, node) ==
  IF ~Inside(j) THEN node = Unresolved
  ELSE IF j.owner = Nothing
  THEN node = FileNode(j) \/ (~j.module /\ \E g \in Sharing(j, j.line) : node = g.id)
  ELSE IF Cardinality(Sharing(j, j.line)) > 1 THEN node = FileNode(j)
  ELSE node = j.owner.id

FrameIsFound(j, node) ==
  LET named == Homonyms(j, <<Last(j.name)>>)
  IN  IF ~Inside(j) \/ j.pseudo THEN node = NoNode
      ELSE IF j.owner = Nothing
      THEN \/ node = FileNode(j)
           \/ j.name # <<>> /\ \E g \in Sharing(j, j.line) \union named : node = g.id
      ELSE IF Cardinality(Sharing(j, j.line)) > 1 /\ Cardinality(named) > 1
      THEN node = FileNode(j)
      ELSE node = j.owner.id

StatementIsFound(j, node) ==
  LET before == {g \in Beside(j) : g.line <= j.line}
  IN  IF ~Inside(j) THEN node = NoNode
      ELSE IF before = {} THEN node = FileNode(j)
      ELSE \E g \in before : node = g.id /\ \A h \in before : h.line <= g.line

(* A frame goes to its own function or, where the static graph cannot tell  *)
(* two apart, to the file: never to another function. A module frame goes   *)
(* to its file even when a function starts on its line, a frame outside the *)
(* project goes nowhere, and a statement goes to the last function declared *)
(* before it. Code that is no function of the graph's, a lambda or a        *)
(* callback, goes to the file or to a function that shares its line or the  *)
(* name V8 has for it, and to no other.                                      *)
FramesFindTheirNode ==
  /\ Answered("code") => CodeIsFound(asked, answer)
  /\ Answered("frame") => FrameIsFound(asked, answer)
  /\ Answered("statement") => StatementIsFound(asked, answer)
=============================================================================
