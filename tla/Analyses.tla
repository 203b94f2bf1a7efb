------------------------------ MODULE Analyses -----------------------------
(***************************************************************************)
(* The parts of grackle that answer one question from data at hand:         *)
(* attributing a frame to a node, tracing by a coverage build,              *)
(* reconstructing a sampled profile, finding cycles, indexing a trace file, *)
(* comparing two traces, linking languages, formatting a value, and         *)
(* building the graph of a Python project. The properties compare the       *)
(* answer with what the question itself determines. The questions whose     *)
(* answers are proved sound are asked in modules of their own.              *)
(***************************************************************************)
EXTENDS Attribution, ColdTrace, ProfileReconstruct, GraphAnalysis, Aggregates, CrossLanguage,
        ValueRepr, CompiledGraph

CONSTANT Jobs        \* the other questions in groups, [group name -> set of jobs]

CompiledProjectJob ==
  LET units == [i \in DOMAIN asked.files |->
                  VisitUnit(asked.settings.lang, asked.files[i].file, asked.files[i].imports, asked.files[i].decls)]
  IN  Answer("compiled", [units |-> units, resolved |-> ResolveUnits(asked.settings, units)])

Next == \/ Attribute \/ Analyse \/ ParseAll \/ Aggregate
        \/ Reconstruct \/ TraceCold \/ FormatValue \/ BuildPython
        \/ CompiledProjectJob

Init ==
  \/ AnyReport \/ AnyGraph \/ AnyProject \/ AnyScan \/ AnyProfile
  \/ AnyScenario \/ AnyValue \/ AnyPythonProject
  \/ ((\E group \in DOMAIN Jobs : asked \in Jobs[group]) /\ answer = Nothing)

Spec == Init /\ [][Next]_questionVars

(***************************************************************************)
(* The graph of a Go, TypeScript or Rust project.                            *)
(***************************************************************************)
(* What an import's path names by the language's own rules: a file some      *)
(* directories up, a part of a crate.                                        *)
TsNames(path, m, n) ==
  LET ups  == Len(SelectSeq(m.path, LAMBDA p : p = ".."))
      rest == SelectSeq(m.path, LAMBDA p : p \notin {".", "..", ".js"})
      dir  == SubSeq(path, 1, Len(path) - 2)
      base == SubSeq(dir, 1, Len(dir) - ups) \o rest
  IN  /\ m.path[1] \in {".", ".."} /\ ups <= Len(dir) /\ n.kind # "file"
      /\ Front(n.path) \in {base} \union (IF Last(m.path) = ".js" THEN {} ELSE {Append(base, "index")})

RustNames(path, m, n) ==
  LET crates == Range(asked.settings.crates)
      Mine(c) == Holds(c, path) /\ Holds(c, n.path)
  IN  /\ n.name = Last(m.path)
      /\ \/ \E c \in crates : c.name = m.path[1] /\ Holds(c, n.path)
         \/ m.path[1] = "crate" /\ \E c \in crates : Mine(c)
         \/ m.path[1] \in {"self", "super"} /\ Front(n.path) = Front(path)

Used(unit, name, nodes) ==
  {n \in nodes : \E m \in Range(unit.imports) :
     RustNames(unit.file, m, n) /\ name = IF m.alias = "" THEN n.name ELSE m.alias}

LocalName(m, name) == IF name \in DOMAIN m.alias THEN m.alias[name] ELSE name

(* The declarations a name may stand for in a file of the project. *)
Meanings(unit, edge, nodes) ==
  LET parts == edge.name.parts
      imports == Range(unit.imports)
      lang  == asked.settings.lang
      rust(name) == Used(unit, name, nodes)
      home  == {n \in nodes : n.path = unit.file /\ n.name = parts[1]}
      owned == {n \in nodes : n.kind = "method" /\ n.name = Last(parts) /\ Len(parts) > 1}
      away  == {n \in nodes : \E m \in imports :
                  /\ TsNames(unit.file, m, n)
                  /\ \/ n.name \in Range(m.names) /\ LocalName(m, n.name) = parts[1]
                     \/ m.default = parts[1] /\ n.name = parts[1]}
  IN  CASE lang = "go" -> GoMeaning(asked.settings, unit, parts, nodes)
        [] lang = "typescript" -> IF home # {} THEN home ELSE away
        [] lang = "rust" /\ edge.kind # "call" -> {n \in nodes : n.name = parts[1]} \union rust(parts[1])
        [] lang = "rust" /\ edge.kind = "call" /\ Len(parts) = 1 -> home \union rust(parts[1])
        [] OTHER -> {n \in owned : n.owner = parts[1]}
                    \union (IF edge.name.sep = "::" THEN rust(Last(parts))
                            ELSE {n \in owned : \E t \in rust(parts[1]) : t.name = n.owner /\ t.path = n.path})

(* Only the last part of a Rust path is looked at, so two types may answer.  *)
Ambiguous(unit, edge, nodes) ==
  asked.settings.lang = "rust" /\ Cardinality(Used(unit, edge.name.parts[1], nodes)) > 1

(* A call, a base or a trait leads to a declaration its name may stand for   *)
(* under the language's scopes, and to one whenever there is one and the     *)
(* import is not ambiguous; a struct implements exactly the interfaces of    *)
(* the project whose methods its package declares on it, in whichever files. *)
ScopesAreKept ==
  Answered("compiled") =>
    LET units == answer.units
        all   == AllNodes(units)
        nodes == Range(all)
    IN  /\ \A i \in DOMAIN units : \A k \in DOMAIN units[i].edges :
             LET edge    == ResolveIn(asked.settings, all, units[i], units[i].edges[k])
                 meaning == Meanings(units[i], edge, nodes)
             IN  /\ edge \in Range(answer.resolved.edges)
                 /\ edge.resolved => edge.target \in {n.id : n \in meaning}
                 /\ meaning # {} /\ ~Ambiguous(units[i], edge, nodes) => edge.resolved
        /\ asked.settings.lang = "go" => answer.resolved.implements = GoImplements(nodes)
=============================================================================
