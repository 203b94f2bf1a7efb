------------------------- MODULE RuntimeResolution -------------------------
(***************************************************************************)
(* From a runtime position to a node of the static graph:                   *)
(* adapters/runtime_resolution.py and the four resolvers that extend it.    *)
(* A node is [id, kind, path, line, name]; ids are numbers in the order     *)
(* Python sorts the id strings; a name is the sequence of its dotted parts, *)
(* a path that of its components. What a runtime calls a file is an         *)
(* identifier [scheme, parts]; one outside the project has no path.          *)
(***************************************************************************)
EXTENDS Integers, Sequences, FiniteSets, SequencesExt

NoNode == 0              \* None
Unresolved == -1         \* "<unresolved>"
NOTPROJECT == <<>>

(* to_posix: the path below the root. *)
ToPosix(root, parts) ==
  IF IsStrictPrefix(root, parts) THEN SubSeq(parts, Len(root) + 1, Len(parts)) ELSE NOTPROJECT

(* The four _normalize: a co_filename may be a sentinel like "<string>", a  *)
(* V8 url may be remote or built in, a Go path begins with the module's     *)
(* name, which go.mod may not give; llvm-cov has plain paths.                *)
NormalizeCode(root, id) ==
  IF id.scheme = "sentinel" THEN NOTPROJECT ELSE ToPosix(root, id.parts)
NormalizeUrl(root, id) ==
  IF id.scheme \notin {"file", "path"} THEN NOTPROJECT ELSE ToPosix(root, id.parts)
NormalizeImport(goModule, id) ==
  IF goModule = <<>> THEN NOTPROJECT ELSE ToPosix(goModule, id.parts)
NormalizePath(root, id) == ToPosix(root, id.parts)

Callables(nodes, path) ==
  {n \in nodes : n.kind \in {"function", "method"} /\ n.path = path}

(* A key that two distinct ids claim declines to guess. *)
IndexLast(ids) == IF ids = {} THEN NoNode ELSE CHOOSE i \in ids : \A j \in ids : j <= i
IndexUnique(ids) == IF Cardinality(ids) = 1 THEN CHOOSE i \in ids : TRUE ELSE NoNode

SymIndex(nodes, path, line) ==
  IndexUnique({n.id : n \in {m \in Callables(nodes, path) : m.line = line}})

NameIndex(nodes, path, name) ==
  IndexUnique({n.id : n \in {m \in Callables(nodes, path) : m.name = name}})

FileIndex(nodes, path) ==
  LET ids == {n.id : n \in {m \in nodes : m.kind = "file" /\ m.path = path}}
  IN  IF ids = {} THEN Unresolved ELSE CHOOSE i \in ids : TRUE

(* The greatest (line, id) whose line is not past the statement. *)
ResolveByDeclLine(nodes, path, line) ==
  LET before == {n \in Callables(nodes, path) : n.line <= line}
      last   == {n \in before : \A m \in before :
                   m.line < n.line \/ (m.line = n.line /\ m.id <= n.id)}
  IN  IF before = {} THEN NoNode ELSE (CHOOSE n \in last : TRUE).id

(* V8 qualifies methods; the tail is retried. *)
ResolveByName(nodes, path, name) ==
  LET whole == IF name = <<>> THEN NoNode ELSE NameIndex(nodes, path, name)
  IN  IF whole # NoNode \/ Len(name) < 2 THEN whole
      ELSE NameIndex(nodes, path, <<name[Len(name)]>>)

(* NodeResolver.resolve of python_runtime: a code object. *)
ResolveCode(nodes, path, line, isModule) ==
  LET sym == SymIndex(nodes, path, line)
  IN  IF path = NOTPROJECT THEN Unresolved
      ELSE IF ~isModule /\ sym # NoNode THEN sym
      ELSE FileIndex(nodes, path)

(* NodeResolver.resolve_frame of node_runtime: a V8 callFrame. An empty name *)
(* is a module frame or an anonymous callback.                               *)
ResolveFrame(nodes, path, line, name, pseudo) ==
  LET sym   == SymIndex(nodes, path, line)
      named == ResolveByName(nodes, path, name)
  IN  IF pseudo \/ path = NOTPROJECT THEN NoNode
      ELSE IF name # <<>> /\ sym # NoNode THEN sym
      ELSE IF named # NoNode THEN named
      ELSE FileIndex(nodes, path)

(* GoResolver.resolve_block and RustResolver.resolve_function: a statement. *)
ResolveStatement(nodes, path, line) ==
  LET sym  == SymIndex(nodes, path, line)
      decl == ResolveByDeclLine(nodes, path, line)
  IN  IF path = NOTPROJECT THEN NoNode
      ELSE IF sym # NoNode THEN sym
      ELSE IF decl # NoNode THEN decl
      ELSE FileIndex(nodes, path)
=============================================================================
