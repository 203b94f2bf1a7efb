--------------------------- MODULE CompiledGraph ---------------------------
(***************************************************************************)
(* go_parser, typescript_parser and rust_parser: the nodes and edges of a   *)
(* file's syntax tree (visitors.py of each), then the names resolved over   *)
(* the project (resolver.py of each). A declaration is [name, kind, owner,  *)
(* line, methods, bases, calls, members]: owner is the receiver, class or   *)
(* impl type of a method, methods what an interface asks for, members what  *)
(* stands inside a class, trait, impl or mod. A name is [sep, parts],       *)
(* an import [path, alias, names, default]: alias maps names to local ones. *)
(* A TypeScript file ends in its extension: <<"src", "b", ".ts">>.          *)
(***************************************************************************)
EXTENDS PythonGraph

OwnQual(d) == IF d.owner = "" THEN <<Named(d.name)>> ELSE <<Named(d.owner), Named(d.name)>>

FirstOf(nodes, at) == IF at = {} THEN {} ELSE {nodes[Min(at)].id}
LastOf(nodes, at) == IF at = {} THEN {} ELSE {nodes[Max(at)].id}
FirstId(nodes) == IF nodes = <<>> THEN {} ELSE {nodes[1].id}
FinalId(nodes) == IF nodes = <<>> THEN {} ELSE {Last(nodes).id}

(* TSFileVisitor._find_local: a base that stands earlier in the file is      *)
(* resolved at once, whatever its kind.                                      *)
BaseEdge(lang, b, source, base) ==
  LET edge  == Edge(source, [sep |-> ".", parts |-> <<Last(base.parts)>>], base.kind)
      local == FirstId(SelectSeq(b.nodes, LAMBDA n : n.name = Last(base.parts)))
  IN  IF lang = "typescript" /\ local # {} THEN Resolved(edge, CHOOSE i \in local : TRUE) ELSE edge

Owned(members, owner) == [i \in DOMAIN members |-> [members[i] EXCEPT !.kind = "method", !.owner = owner]]

(* GoFileVisitor: a method whose receiver has no plain type name, as that of *)
(* a generic type, is left out.                                              *)
GoItem(d) == IF d.kind = "method" /\ d.owner = "" THEN <<>> ELSE <<d>>

(* TSFileVisitor: a class and its methods; of the names a const or let       *)
(* declares, those that are given a function.                                *)
TsItem(d) ==
  CASE d.kind = "class" -> <<d>> \o Owned(d.members, d.name)
    [] d.kind = "variable" -> SelectSeq(d.members, LAMBDA m : m.kind = "function")
    [] OTHER -> <<d>>

(* RustFileVisitor: a trait and its default methods, the methods of an impl  *)
(* under its type, and what a mod holds (here no further mod).               *)
RustItem(d) ==
  CASE d.kind = "interface" -> <<d>> \o Owned(d.members, d.name)
    [] d.kind = "impl" -> <<d>> \o Owned(d.members, d.owner)
    [] OTHER -> <<d>>
RustItems(d) ==
  IF d.kind = "mod" THEN FlattenSeq([i \in DOMAIN d.members |-> RustItem(d.members[i])]) ELSE RustItem(d)

Items(lang, d) == CASE lang = "go" -> GoItem(d) [] lang = "typescript" -> TsItem(d) [] lang = "rust" -> RustItems(d)

(* One declaration: its node, stored as GraphBuilder stores it, then its    *)
(* edges, all from the id it asked for. An impl block has no node.           *)
VisitDecl(lang, file, b, d) ==
  LET id    == [file |-> file, qual |-> OwnQual(d)]
      added == IF d.kind = "impl" THEN b
               ELSE AddNode(b, [id |-> id, kind |-> d.kind, name |-> d.name, path |-> file,
                                line |-> d.line, overload |-> FALSE,
                                owner |-> d.owner, methods |-> d.methods])
  IN  [added EXCEPT !.edges = @
         \o [k \in DOMAIN d.bases |-> BaseEdge(lang, added, id, d.bases[k])]
         \o [k \in DOMAIN d.calls |-> Edge(id, d.calls[k], "call")]]

VisitUnit(lang, file, imports, decls) ==
  LET id    == [file |-> file, qual |-> <<>>]
      empty == [nodes |-> << [id |-> id, kind |-> "file", name |-> "", path |-> file, line |-> 0,
                              overload |-> FALSE, owner |-> "", methods |-> {}] >>,
                index |-> (id :> 1), edges |-> <<>>, stored |-> id]
      built == FoldLeft(LAMBDA b, d : VisitDecl(lang, file, b, d), empty,
                        FlattenSeq([i \in DOMAIN decls |-> Items(lang, decls[i])]))
  IN  [file |-> file, nodes |-> built.nodes, edges |-> built.edges, imports |-> imports]

AllNodes(units) == FlattenSeq([i \in DOMAIN units |-> units[i].nodes])

(***************************************************************************)
(* Go: a package is a directory; an import is mapped when it lies under the *)
(* module of go.mod, under its alias or the last part of its path.           *)
(***************************************************************************)
GoKinds == {"struct", "interface", "function", "type_alias"}

InPackage(nodes, dir, name) ==
  {i \in DOMAIN nodes : nodes[i].kind \in GoKinds /\ Front(nodes[i].path) = dir /\ nodes[i].name = name}

(* _import_to_dir and build_file_scope: the directories an alias stands for. *)
GoName(m) == IF m.alias \in {"", "_", "."} THEN Last(m.path) ELSE m.alias

GoImported(unit, module, alias) ==
  LET mapped == {i \in DOMAIN unit.imports : /\ module # <<>> /\ IsStrictPrefix(module, unit.imports[i].path)
                                            /\ alias = GoName(unit.imports[i])}
      path   == unit.imports[Max(mapped)].path
  IN  IF mapped = {} THEN {} ELSE {SubSeq(path, Len(module) + 1, Len(path))}

GoResolve(nodes, unit, module, name) ==
  IF Len(name.parts) = 1 THEN FirstOf(nodes, InPackage(nodes, Front(unit.file), name.parts[1]))
  ELSE IF Len(name.parts) > 2 THEN {}
  ELSE UNION {LastOf(nodes, InPackage(nodes, dir, name.parts[2])) : dir \in GoImported(unit, module, name.parts[1])}

(* _detect_implements: over the methods whose receiver is named in the      *)
(* package, wherever its files declare them.                                 *)
Provided(nodes, dir, type) ==
  {n.name : n \in {m \in Range(nodes) : m.kind = "method" /\ Front(m.path) = dir /\ m.owner = type}}

Covers(methods, required) == required # {} /\ required \subseteq methods

Implements(nodes) ==
  LET types(k) == {i \in DOMAIN nodes : nodes[i].kind = k /\ (k = "interface" => nodes[i].methods # {})}
      last(i)  == i = Max({j \in types(nodes[i].kind) : /\ Front(nodes[j].path) = Front(nodes[i].path)
                                                        /\ nodes[j].name = nodes[i].name})
  IN  {<<nodes[p[1]].id, nodes[p[2]].id>> :
         p \in {q \in types("struct") \X types("interface") :
                  /\ last(q[1]) /\ last(q[2])
                  /\ Covers(Provided(nodes, Front(nodes[q[1]].path), nodes[q[1]].name), nodes[q[2]].methods)}}

(***************************************************************************)
(* TypeScript: a specifier that starts with a dot is a path from the file.  *)
(***************************************************************************)
TsKinds == {"class", "interface", "function", "type_alias", "enum", "method"}

(* _normalize_posix *)
KeepDots(parts) == SelectSeq(parts, LAMBDA part : part # ".")
NormalizePosix(parts) ==
  FoldLeft(LAMBDA out, part :
             IF part = "." THEN out
             ELSE IF part = ".." /\ out # <<>> /\ Last(out) # ".." THEN Front(out)
             ELSE Append(out, part), <<>>, parts)

(* _resolve_ts_module: the file, its index, or the source of a .js. *)
ResolveTsModule(path, spec, ids) ==
  LET base  == NormalizePosix(SubSeq(path, 1, Len(path) - 2) \o spec)
      tried == [i \in 1 .. 4 |-> Append(base, <<".ts", ".tsx", ".mts", ".cts">>[i])]
               \o <<base \o <<"index", ".ts">>, base \o <<"index", ".tsx">>>>
               \o (IF base # <<>> /\ Last(base) = ".js"
                   THEN <<Append(Front(base), ".ts"), Append(Front(base), ".tsx")>> ELSE <<>>)
      hits  == SelectSeq(tried, LAMBDA f : f \in ids)
  IN  IF spec[1] \notin {".", ".."} \/ hits = <<>> THEN {} ELSE {hits[1]}

(* build_file_scope: what binds a local name, listed names before the       *)
(* default of one statement; [file, name], of the last statement that does.  *)
TsBinding(unit, ids, local) ==
  LET of(m) ==
        IF m.default = local THEN <<local>>
        ELSE SelectSeq(m.names, LAMBDA name :
               local = IF name \in DOMAIN m.alias THEN m.alias[name] ELSE name)
      binding == SelectSeq(unit.imports, LAMBDA m : of(m) # <<>>)
  IN  IF binding = <<>> THEN {}
      ELSE {[file |-> f, name |-> Last(of(Last(binding)))] :
              f \in ResolveTsModule(unit.file, Last(binding).path, ids)}

TsResolve(nodes, unit, name) ==
  LET simple == name.parts[1]
      home   == FinalId(SelectSeq(unit.nodes, LAMBDA n : n.name = simple))
      ids    == {n.path : n \in Range(nodes)}
      exported(b) == SelectSeq(nodes, LAMBDA n : n.kind \in TsKinds /\ n.path = b.file /\ n.name = b.name)
  IN  IF home # {} THEN home
      ELSE UNION {FinalId(exported(b)) : b \in TsBinding(unit, ids, simple)}

(***************************************************************************)
(* Rust: crates is a sequence of [name, root].                               *)
(***************************************************************************)
RustKinds == {"struct", "interface", "function", "type_alias", "enum"}

Holds(crate, path) == crate.root = <<>> \/ IsStrictPrefix(crate.root, path)

(* _crate_for_file: the first that holds it, else the first. *)
CrateForFile(crates, path) ==
  LET held == SelectSeq(crates, LAMBDA c : Holds(c, path))
  IN  IF held # <<>> THEN {held[1]} ELSE IF crates # <<>> THEN {crates[1]} ELSE {}

(* build_file_scope: what a use declaration brings in. *)
UseTarget(nodes, crates, unit, path) ==
  LET called(Where(_)) == FirstId(SelectSeq(nodes, LAMBDA n : n.name = Last(path) /\ Where(n)))
      export(c) == called(LAMBDA n : n.kind \in RustKinds /\ CrateForFile(crates, n.path) = {c})
      within(c) == called(LAMBDA n : Holds(c, n.path))
      other == {c \in Range(crates) : c.name = path[1]}
  IN  CASE other # {} -> UNION {IF export(c) # {} THEN export(c) ELSE within(c) : c \in other}
        [] path[1] = "crate" -> UNION {within(c) : c \in CrateForFile(crates, unit.file)}
        [] path[1] \in {"self", "super"} -> called(LAMBDA n : Front(n.path) = Front(unit.file))
        [] OTHER -> {}

ImportMap(nodes, crates, unit, name) ==
  LET bound == SelectSeq(unit.imports, LAMBDA m :
                 /\ name = IF m.alias # "" THEN m.alias ELSE Last(m.path)
                 /\ UseTarget(nodes, crates, unit, m.path) # {})
  IN  IF bound = <<>> THEN {} ELSE UseTarget(nodes, crates, unit, Last(bound).path)

FirstNonEmpty(sets) ==
  LET found == SelectSeq(sets, LAMBDA s : s # {}) IN IF found = <<>> THEN {} ELSE found[1]

(* _resolve_call: Type::function, receiver.method, or a plain name. *)
RustCall(nodes, crates, unit, name) ==
  LET Import(n) == ImportMap(nodes, crates, unit, n)
      parts  == name.parts
      last   == Last(parts)
      owner  == parts[Len(parts) - 1]
      Ids    == {n.id : n \in Range(nodes)}
      suffix == FirstId(SelectSeq(nodes, LAMBDA n : n.id.qual = <<Named(owner), Named(last)>>))
      beside == {[file |-> i.file, qual |-> <<Named(owner), Named(last)>>] : i \in Import(owner)} \intersect Ids
      under  == {[i EXCEPT !.qual = Append(@, Named(last))] : i \in Import(owner)} \intersect Ids
      byReceiver == FirstId(SelectSeq(nodes, LAMBDA n : n.kind = "method" /\ n.name = last /\ n.owner = owner))
  IN  CASE Len(parts) = 1 ->
             FirstNonEmpty(<<Import(last), FirstId(SelectSeq(unit.nodes, LAMBDA n : n.name = last))>>)
        [] Len(parts) > 1 /\ name.sep = "::" -> FirstNonEmpty(<<beside, suffix, Import(last)>>)
        [] Len(parts) = 2 /\ name.sep = "." ->
             FirstNonEmpty(<<under, IF Import(owner) = {} THEN {} ELSE suffix, byReceiver>>)
        [] OTHER -> {}

(* _resolve_name_to_node: imported, else in the file, else anywhere. *)
RustName(nodes, crates, unit, name) ==
  LET called(list) == FirstId(SelectSeq(list, LAMBDA n : n.name = name))
  IN  FirstNonEmpty(<<ImportMap(nodes, crates, unit, name), called(unit.nodes), called(nodes)>>)

(***************************************************************************)
(* resolve_graph of the three languages; settings is [lang, module, crates]. *)
(***************************************************************************)
ResolveIn(settings, nodes, unit, edge) ==
  LET ids == CASE settings.lang = "go"         -> GoResolve(nodes, unit, settings.module, edge.name)
               [] settings.lang = "typescript" -> TsResolve(nodes, unit, edge.name)
               [] settings.lang = "rust" /\ edge.kind = "call" -> RustCall(nodes, settings.crates, unit, edge.name)
               [] OTHER -> RustName(nodes, settings.crates, unit, edge.name.parts[1])
  IN  IF edge.resolved \/ ids = {} THEN edge ELSE Resolved(edge, CHOOSE i \in ids : TRUE)

ResolveUnits(settings, units) ==
  LET nodes == AllNodes(units)
  IN  [edges |-> FlattenSeq([i \in DOMAIN units |->
                   [k \in DOMAIN units[i].edges |-> ResolveIn(settings, nodes, units[i], units[i].edges[k])]]),
       implements |-> IF settings.lang = "go" THEN Implements(nodes) ELSE {}]
-----------------------------------------------------------------------------
(* What a name may stand for in Go: a declaration of the package, or of the  *)
(* package whose path, under that of the module, an import gives by the name. *)
GoMeaning(settings, unit, parts, nodes) ==
  {n \in nodes :
     /\ n.kind \in GoKinds /\ n.name = Last(parts)
     /\ \/ Len(parts) = 1 /\ Front(n.path) = Front(unit.file)
        \/ Len(parts) = 2 /\ settings.module # <<>>
           /\ \E m \in Range(unit.imports) : settings.module \o Front(n.path) = m.path /\ GoName(m) = parts[1]}

(* A struct implements the interfaces of the project whose methods its       *)
(* package declares on it, in whichever files.                               *)
GoImplements(nodes) ==
  LET Kind(k) == {n \in nodes : n.kind = k}
      Methods(s) == {n.name : n \in {m \in Kind("method") : m.owner = s.name /\ Front(m.path) = Front(s.path)}}
  IN  {<<p[1].id, p[2].id>> :
         p \in {q \in Kind("struct") \X Kind("interface") :
                  q[2].methods # {} /\ q[2].methods \subseteq Methods(q[1])}}
=============================================================================
