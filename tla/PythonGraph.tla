---------------------------- MODULE PythonGraph ----------------------------
(***************************************************************************)
(* python_parser: the nodes and edges of each file's syntax tree             *)
(* (visitors.py), one definition an action, then the names resolved across   *)
(* the project (resolver.py), one file an action. A project is a sequence of *)
(* files [file, imports, defs]. A definition is [name, kind, parent, line,   *)
(* first, overload, calls, bases]: parent is the index of the enclosing      *)
(* definition or 0, first the line of the first decorator. Definitions come  *)
(* in source order. A dotted name, a module and a file are sequences of      *)
(* parts; a package's file ends in "__init__". An id is a file and the parts *)
(* of a qualified name, where a line number is a part too.                    *)
(***************************************************************************)
EXTENDS Integers, Sequences, FiniteSets, SequencesExt, TLC, Questions

CONSTANT PythonProjects        \* the projects that may be parsed

DottedNames == Seq(STRING) \ {<<>>}

(* No two definitions begin on the same line; a stub is a function.          *)
ProperDefinition(defs, i) ==
  LET d == defs[i] IN
  /\ d.kind \in {"class", "function"} /\ d.parent \in 0 .. i - 1 /\ d.name \in STRING
  /\ d.first \in Nat \ {0} /\ d.line \in Nat /\ d.first <= d.line
  /\ \A j \in 1 .. i - 1 : defs[j].line < d.first
  /\ d.overload \in BOOLEAN /\ (d.overload => d.kind = "function")
  /\ d.calls \in Seq(DottedNames) /\ d.bases \in Seq(DottedNames)

(* A relative import stays inside the project, and does not name its root.   *)
ProperImport(path, m) ==
  /\ m.level \in 0 .. Len(path) /\ m.module \in Seq(STRING)
  /\ m.module = <<>> => m.level \in 1 .. Len(path) - 1
  /\ m.names \in SUBSET STRING /\ m.alias \in STRING

ProperPythonFile(s) ==
  /\ s.file \in DottedNames
  /\ s.defs \in Seq(Range(s.defs)) /\ \A i \in DOMAIN s.defs : ProperDefinition(s.defs, i)
  /\ s.imports \in Seq(Range(s.imports)) /\ \A i \in DOMAIN s.imports : ProperImport(s.file, s.imports[i])

ASSUME PythonProjectsAreProper ==
  \A q \in PythonProjects : /\ q.kind = "project" /\ q.files \in Seq(Range(q.files))
                           /\ \A i \in DOMAIN q.files : ProperPythonFile(q.files[i])

AnyPythonProject == asked \in PythonProjects /\ answer = Nothing

Named(name) == [name |-> name, line |-> 0]
Numbered(line) == [name |-> "", line |-> line]

(* FunctionVisitor._emit and ClassVisitor: a closure carries its line. *)
Qualname(outer, d) ==
  outer.qual \o (IF d.kind = "class" \/ outer.kind \in {"file", "class"}
                 THEN <<Named(d.name)>> ELSE <<Named(d.name), Numbered(d.line)>>)

(* GraphBuilder: nodes, edges, and the index of the node under each id. *)
Suffixed(id, line) == [id EXCEPT !.qual = Append(@, Numbered(line))]

KeepsBase(current, node) == FALSE
TakesBase(current, node) == current.overload /\ ~node.overload

Indexed(index, id, at) == [x \in DOMAIN index \union {id} |-> IF x = id THEN at ELSE index[x]]

AddNode(b, node) ==
  LET at      == b.index[node.id]
      here    == Len(b.nodes) + 1
      current == b.nodes[at]
      demoted == Suffixed(node.id, current.line)
      aside   == Suffixed(node.id, node.line)
  IN  IF node.id \notin DOMAIN b.index
      THEN [b EXCEPT !.nodes = Append(@, node), !.index = Indexed(@, node.id, here),
                     !.stored = node.id]
      ELSE IF TakesBase(current, node)
      THEN [b EXCEPT !.nodes = Append([@ EXCEPT ![at].id = demoted], node),
                     !.index = Indexed(Indexed(@, demoted, at), node.id, here),
                     !.stored = node.id]
      ELSE [b EXCEPT !.nodes = Append(@, [node EXCEPT !.id = aside]),
                     !.index = Indexed(@, aside, here),
                     !.stored = aside]

Edge(source, target, kind) ==
  [source |-> source, name |-> target, kind |-> kind, resolved |-> FALSE, target |-> source]
Resolved(edge, id) == [edge EXCEPT !.resolved = TRUE, !.target = id]

(* ClassVisitor._resolve_local: the first class of the file with the name. *)
InheritEdge(b, base) ==
  LET local == {i \in DOMAIN b.nodes : b.nodes[i].kind = "class" /\ base = <<b.nodes[i].name>>}
      edge  == Edge(b.stored, base, "inherit")
  IN  IF local = {} THEN edge ELSE Resolved(edge, b.nodes[Min(local)].id)

(* One definition: its node, then the edges of its calls or its bases, all  *)
(* under the id the node was stored with. A definition stands in the node   *)
(* of its parent, the first node being the file's.                           *)
VisitDef(b, d) ==
  LET outer == b.nodes[d.parent + 1]
      kind  == IF d.kind = "class" THEN "class" ELSE IF outer.kind = "class" THEN "method" ELSE "function"
      qual  == Qualname(outer, d)
      added == AddNode(b, [id |-> [file |-> b.file, qual |-> qual], qual |-> qual, kind |-> kind,
                           name |-> d.name, path |-> b.file, line |-> d.first,
                           overload |-> d.overload])
  IN  [added EXCEPT !.edges = @
         \o (IF kind = "class"
             THEN [k \in DOMAIN d.bases |-> InheritEdge(added, d.bases[k])]
             ELSE [k \in DOMAIN d.calls |-> Edge(added.stored, d.calls[k], "call")])]

(* ImportVisitor: an import is [level, module, names, alias, under]; names   *)
(* is empty for a plain or a star import, "under" is what stands around it. *)
(* Imports in a class or a function are skipped; the rest carry their place  *)
(* and the conditions they stand under.                                      *)
ImportEdges(imports) ==
  {[at |-> i, level |-> imports[i].level, module |-> imports[i].module, names |-> imports[i].names,
    alias |-> imports[i].alias,
    flags |-> imports[i].under \intersect {"type_checking", "try", "platform"}] :
     i \in {j \in DOMAIN imports : "def" \notin imports[j].under}}

(* FileVisitor: the file node first. *)
FileGraph(source) ==
  LET id == [file |-> source.file, qual |-> <<>>]
  IN  [file |-> source.file,
       nodes |-> << [id |-> id, qual |-> <<>>, kind |-> "file", name |-> Last(source.file),
                     path |-> source.file, line |-> 0, overload |-> FALSE] >>,
       index |-> [x \in {id} |-> 1], edges |-> <<>>, stored |-> id,
       imports |-> ImportEdges(source.imports)]

(***************************************************************************)
(* The resolver, over the graphs of a project's files.                      *)
(***************************************************************************)
Builtins == {"print"}

LastId(nodes, kinds, name) ==
  LET same == {i \in DOMAIN nodes : nodes[i].kind \in kinds /\ nodes[i].name = name}
  IN  IF same = {} THEN {} ELSE {nodes[Max(same)].id}

LocalDefs(graph, name) == LastId(graph.nodes, {"class", "function", "method"}, name)

Exports(graphs, path, name) ==
  UNION {LastId(graphs[i].nodes, {"class", "function"}, name) :
           i \in {j \in DOMAIN graphs : graphs[j].file = path}}

(* The names an import binds: those it lists or, without a list, its alias  *)
(* or the last part of its module. The last import that binds a name counts. *)
Bound(m) ==
  IF m.names # {} THEN m.names
  ELSE IF m.alias # "" THEN {m.alias}
  ELSE IF m.module = <<>> THEN {} ELSE {Last(m.module)}
ImportsOf(graph, simple) == {m \in graph.imports : simple \in Bound(m)}
LatestOf(imports) == CHOOSE m \in imports : \A n \in imports : n.at <= m.at

(* _resolve_relative_module *)
ResolveTooHigh(path, level, module) ==
  LET package == Front(path) IN
  (IF level >= Len(package) THEN <<>> ELSE SubSeq(package, 1, Len(package) - level)) \o module
ResolveRelative(path, level, module) ==
  LET package == Front(path)
      up      == level - 1
  IN  (IF up >= Len(package) THEN <<>> ELSE SubSeq(package, 1, Len(package) - up)) \o module

ModuleOf(path) == IF Len(path) > 1 /\ Last(path) = "__init__" THEN Front(path) ELSE path

(* _from_module: the last file known by the module's name, then the two it  *)
(* could be; the first that exports the name answers.                        *)
FromModule(graphs, path, m, name) ==
  LET module == IF m.level = 0 THEN m.module ELSE ResolveRelative(path, m.level, m.module)
      known  == {i \in DOMAIN graphs : ModuleOf(graphs[i].file) = module}
      tried  == (IF known = {} THEN <<>> ELSE <<graphs[Max(known)].file>>)
                \o <<module, Append(module, "__init__")>>
      hits   == {i \in DOMAIN tried : Exports(graphs, tried[i], name) # {}}
  IN  IF module = <<>> \/ hits = {} THEN {} ELSE Exports(graphs, tried[Min(hits)], name)

(* SymbolResolver.resolve_call and _resolve *)
ResolveName(graphs, graph, edge) ==
  LET name == edge.name
      imported == ImportsOf(graph, name[1])
  IN  CASE edge.kind = "call" /\ Len(name) > 1 /\ name[1] \in {"self", "cls"} -> {}
        [] Len(name) = 1 /\ name[1] \in Builtins -> {}
        [] Len(name) = 1 /\ name[1] \notin Builtins /\ LocalDefs(graph, name[1]) # {}
             -> LocalDefs(graph, name[1])
        [] OTHER -> IF imported = {} \/ Len(name) > 2 THEN {}
                    ELSE FromModule(graphs, graph.file, LatestOf(imported), Last(name))

ResolveEdge(graphs, graph, edge) ==
  LET ids == ResolveName(graphs, graph, edge)
  IN  IF edge.resolved \/ ids = {} THEN edge ELSE Resolved(edge, CHOOSE i \in ids : TRUE)

(***************************************************************************)
(* The build: the graph of each file as far as its definitions are visited,  *)
(* and the resolved edges of each file.                                      *)
(***************************************************************************)
BeginPython == Answer("project", [graphs |-> <<>>, resolved |-> <<>>])

ParsingProject == asked.kind = "project" /\ answer # Nothing
FilesOpened == Len(answer.graphs)
FileVisited ==
  FilesOpened > 0 => Len(answer.graphs[FilesOpened].nodes) > Len(asked.files[FilesOpened].defs)

VisitModule ==
  /\ ParsingProject /\ FileVisited /\ FilesOpened < Len(asked.files)
  /\ answer' = [answer EXCEPT !.graphs = Append(@, FileGraph(asked.files[FilesOpened + 1]))]
  /\ UNCHANGED asked

VisitDefinition ==
  /\ ParsingProject /\ ~FileVisited
  /\ LET graph == answer.graphs[FilesOpened]
     IN  answer' = [answer EXCEPT !.graphs[FilesOpened] =
                      VisitDef(graph, asked.files[FilesOpened].defs[Len(graph.nodes)])]
  /\ UNCHANGED asked

(* resolve_graph *)
ResolveGraph ==
  /\ ParsingProject /\ FileVisited /\ FilesOpened = Len(asked.files)
  /\ Len(answer.resolved) < FilesOpened
  /\ LET graph == answer.graphs[Len(answer.resolved) + 1]
     IN  answer' = [answer EXCEPT !.resolved = Append(@,
                      [k \in DOMAIN graph.edges |-> ResolveEdge(answer.graphs, graph, graph.edges[k])])]
  /\ UNCHANGED asked

BuildPython == BeginPython \/ VisitModule \/ VisitDefinition \/ ResolveGraph

PythonSpec == AnyPythonProject /\ [][BuildPython]_questionVars
-----------------------------------------------------------------------------
(* Every definition visited has a node of its own, under an id of its own    *)
(* and at its own line; the name without a suffix belongs to the first that  *)
(* is not a type checker's stub, or to the first stub while there is none;   *)
(* every edge leads from a node of the file to a node of the file, until     *)
(* names are resolved across files.                                          *)
DefinitionsKeepIds ==
  Answered("project") => \A f \in DOMAIN answer.graphs :
    LET graph == answer.graphs[f]
        nodes == graph.nodes
        defs  == asked.files[f].defs
        Same(i) == {j \in 2 .. Len(nodes) : nodes[j].qual = nodes[i].qual}
        Real(i) == {j \in Same(i) : ~defs[j - 1].overload}
        canonical(i) == IF Real(i) = {} THEN Min(Same(i)) ELSE Min(Real(i))
        ids == {nodes[i].id : i \in DOMAIN nodes}
    IN  /\ \A i, j \in DOMAIN nodes : nodes[i].id = nodes[j].id => i = j
        /\ \A i \in 2 .. Len(nodes) :
             /\ nodes[i].kind # "file" /\ nodes[i].name = defs[i - 1].name /\ nodes[i].line = defs[i - 1].first
             /\ nodes[canonical(i)].id = [file |-> graph.file, qual |-> nodes[i].qual]
        /\ \A e \in Range(graph.edges) : e.source \in ids /\ e.target \in ids

(* The files an import names, by Python's rules: one dot is the package of   *)
(* the importing file, each further dot its parent; a module is a file or    *)
(* the package's own.                                                        *)
Imported(files, path, m) ==
  LET module == IF m.level = 0 THEN m.module
                ELSE SubSeq(path, 1, Len(path) - m.level) \o m.module
  IN  {f \in {files[i].file : i \in DOMAIN files} : f = module \/ f = Append(module, "__init__")}

(* What a name may stand for: a definition of the file itself, or one at the *)
(* top of a file that the last import at module level to bind its first part *)
(* reaches.                                                                  *)
LocalMeanings(graph, name) == {n \in Range(graph.nodes) : n.kind # "file" /\ <<n.name>> = name}

ImportedMeanings(source, graphs, name) ==
  LET binding == {i \in DOMAIN source.imports :
                    "def" \notin source.imports[i].under /\ name[1] \in Bound(source.imports[i])}
      away == IF binding = {} \/ Len(name) > 2 THEN {}
              ELSE Imported(graphs, source.file, source.imports[Max(binding)])
  IN  {n \in UNION {Range(graphs[j].nodes) : j \in {l \in DOMAIN graphs : graphs[l].file \in away}} :
         n.kind \in {"class", "function"} /\ n.name = Last(name)}

(* A resolved edge leads to something its name may stand for; a bare name    *)
(* that is no builtin is resolved whenever there is something.               *)
CallsResolveInScope ==
  Answered("project") =>
    \A f \in DOMAIN answer.resolved : \A k \in DOMAIN answer.graphs[f].edges :
      LET found == answer.graphs[f].edges[k]
          edge  == answer.resolved[f][k]
          meant == LocalMeanings(answer.graphs[f], found.name)
                   \union ImportedMeanings(asked.files[f], answer.graphs, found.name)
      IN  /\ edge.name = found.name /\ edge.source = found.source
          /\ edge.resolved => edge.target \in {n.id : n \in meant}
          /\ Len(found.name) = 1 /\ found.name[1] \notin Builtins /\ meant # {} => edge.resolved
=============================================================================
