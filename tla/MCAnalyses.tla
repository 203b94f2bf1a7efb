----------------------------- MODULE MCAnalyses -----------------------------
(* The questions asked in the instance, one set per kind. *)
EXTENDS Analyses

SeqsUpTo(S, n) == UNION {[1 .. k -> S] : k \in 0 .. n}
Permuted(S) == SetToSeqs(S)

(* Three callables of one file, in the order of their lines and with two    *)
(* names; a method of another file; both files. The project is at r.         *)
Node(id, kind, path, line, name) ==
  [id |-> id, kind |-> kind, path |-> <<path>>, line |-> line, name |-> <<name>>]
Layouts ==
  {{Node(1, "file", "p", 0, "p"), Node(2, "file", "q", 0, "q"), Node(6, "method", "q", 1, "f")}
     \union {Node(2 + i, "function", "p", lines[i], names[i]) : i \in 1 .. 3} :
   lines \in {l \in [1 .. 3 -> 1 .. 3] : l[1] <= l[2] /\ l[2] <= l[3]}, names \in [1 .. 3 -> {"f", "g"}]}
Id(scheme, parts) == [scheme |-> scheme, parts |-> parts]
Frame(kind, ns, id, line, name, owner) ==
  [kind |-> kind, nodes |-> ns, root |-> <<"r">>, id |-> id, line |-> line, owner |-> owner,
   module |-> owner = Nothing /\ line = 1, name |-> name, pseudo |-> FALSE]
FramesOf(kind, ns) ==
  UNION {{Frame(kind, ns, Id("path", <<"r">> \o n.path), n.line, name, n) :
            name \in {n.name, <<"C">> \o n.name}} : n \in {m \in ns : m.kind # "file"}}
  \union {Frame(kind, ns, Id("path", <<"r", file>>), line, <<>>, Nothing) : line \in {1, 2, 4}, file \in {"p", "z"}}
  \union {Frame(kind, ns, id, 1, <<"f">>, Nothing) :
            id \in {Id("path", <<"usr", "p">>), Id("sentinel", <<"p">>)}}
  \union (IF kind = "code" THEN {}
          ELSE {[Frame(kind, ns, Id("file", <<"r", "p">>), 1, <<"f">>, Nothing) EXCEPT !.pseudo = TRUE],
                Frame(kind, ns, Id("remote", <<"r", "p">>), 1, <<"f">>, Nothing)}
                \union {Frame(kind, ns, Id("file", <<"r", "p">>), line, name, Nothing) :
                          line \in {2, 4}, name \in {<<"g">>, <<"C", "f">>, <<"h">>}})
Statements ==
  {Frame("statement", ns, Id("path", parts), line, <<>>, Nothing) :
     ns \in Layouts, parts \in {<<"r", "p">>, <<"r", "q">>, <<"usr", "p">>}, line \in 0 .. 4}

(* Toolchain (up to two tools missing), steps and package of a coverage     *)
(* trace, then what it counts.                                               *)
Once == {<<TRUE, TRUE>>, <<FALSE, FALSE>>, <<FALSE, TRUE>>}
Versions == {<<0, 0>>, <<0, 2>>, <<1, 1>>, <<2, 2>>}
Crate(root, name) == [root |-> root, name |-> name, crate |-> TRUE]
Manifest(members, package) == [workspace |-> TRUE, members |-> members, package |-> package]
Message(bin, source, executable) == [bin |-> bin, source |-> source, executable |-> executable]
Script == <<"a", "b", "main">>
Scenario(lang) ==
  LET yes == <<TRUE, TRUE>>
  IN  [kind |-> "cold", lang |-> lang, testFile |-> FALSE, exe |-> yes, version |-> <<2, 2>>, rustc |-> yes,
       sysroot |-> yes, triple |-> yes, profdata |-> yes, cov |-> yes,
       script |-> Script, manifest |-> Manifest({Crate(<<"a">>, "x")}, "none"),
       build |-> "ok", run |-> "ok", merge |-> "ok", export |-> "ok", ended |-> "flushed",
       messages |-> <<Message(FALSE, <<"a", "lib">>, FALSE), Message(TRUE, Script, TRUE)>>,
       root |-> <<"r">>, nodes |-> {Node(1, "file", "p", 0, "p")}, coverage |-> <<>>,
       cap |-> 2, calls |-> <<>>]
Gates ==
  {[Scenario(l) EXCEPT !.exe = e, !.version = v, !.testFile = t] :
     l \in {"node", "go"}, e \in Once, v \in Versions, t \in BOOLEAN}
  \union {s \in {[Scenario("rust") EXCEPT !.exe = e, !.rustc = r, !.version = v, !.sysroot = y,
                    !.triple = t, !.profdata = d, !.cov = c] :
                 e \in Once, r \in Once, v \in Versions, y \in Once, t \in Once, d \in Once, c \in Once} :
            Cardinality({f \in {"exe", "rustc", "sysroot", "triple", "profdata", "cov"} : ~s[f][1] \/ ~s[f][2]}) <= 2}
Results == {"ok", "nonzero", "raised"}
Steps ==
  {s \in {[Scenario(l) EXCEPT !.build = b, !.run = r, !.merge = m, !.export = e, !.ended = q] :
          l \in {"go", "rust"}, b \in Results, r \in Results, m \in Results, e \in Results,
          q \in {"flushed", "panicked", "killed"}} :
     /\ s.ended # "flushed" => s.run # "ok"
     /\ s.run = "raised" => s.ended = "killed"}
Crates == {Crate(<<".">>, "r"), Crate(<<"a">>, "x"), Crate(<<"a", "b">>, "y"), Crate(<<"c">>, "z"),
           [Crate(<<"a", "b">>, "w") EXCEPT !.crate = FALSE]}
Packages ==
  {[Scenario("rust") EXCEPT !.manifest = [Manifest(c, r) EXCEPT !.workspace = w]] :
     c \in SUBSET Crates, r \in {"none", "r"}, w \in BOOLEAN}
  \union {[Scenario("rust") EXCEPT !.messages = ms] :
            ms \in SeqsUpTo({Message(TRUE, Script, TRUE), Message(TRUE, Script, FALSE),
                             Message(TRUE, <<"c", "main">>, TRUE)}, 2)}

(* f at line 1 with its body at "body" and an inner block, g at line 4. *)
Program == {Node(1, "file", "p", 0, "p"), Node(3, "function", "p", 1, "f"),
            Node(4, "function", "p", 4, "g")}
Own == Id("path", <<"r", "p">>)
Foreign == Id("path", <<"usr", "p">>)
Unindexed == Id("path", <<"r", "z">>)
Block(id, line, count, of) == [id |-> id, line |-> line, count |-> count, of |-> of]
GoFolds ==
  {[Scenario("go") EXCEPT !.nodes = Program, !.cap = cap,
      !.calls = IF turned THEN (3 :> f) @@ (4 :> g) ELSE (3 :> f) @@ (4 :> g) @@ (Unresolved :> n),
      !.coverage = IF turned THEN <<Block(Own, 4, g, 4), Block(Own, body, f, 3), Block(Own, inner, n, 3)>>
                   ELSE <<Block(Foreign, 1, 9, NoNode), Block(Own, body, f, 3), Block(Own, inner, n, 3),
                          Block(Own, 4, g, 4), Block(Unindexed, 1, n, Unresolved)>>] :
   f \in 0 .. 2, g \in 0 .. 2, n \in 0 .. 2, cap \in {0, 1, 2, Nothing}, body \in 1 .. 2,
   inner \in 2 .. 3, turned \in BOOLEAN}
  \union {[Scenario("go") EXCEPT !.nodes = Program, !.calls = (3 :> 1), !.ended = "panicked",
             !.run = "nonzero", !.coverage = <<Block(Own, 1, 0, 3)>>]}
Region(line, file) == [line |-> line, file |-> file]
Entry(id, regions, count, of) == [id |-> id, regions |-> regions, count |-> count, of |-> of]
RustFolds ==
  {[Scenario("rust") EXCEPT !.nodes = Program, !.cap = cap, !.run = run,
      !.calls = (3 :> f1 + f2 + c) @@ (4 :> g),
      !.coverage = <<Entry(Own, {Region(1, 0), Region(2, 0)}, f1, 3), Entry(Own, {}, 9, 3),
                     Entry(Own, {Region(4, 0)} \union macro, g, 4),
                     Entry(Own, {Region(1, 0), Region(2, 0)}, f2, 3),
                     Entry(Own, {Region(2, 0)}, c, 3), Entry(Foreign, {Region(1, 0)}, 9, NoNode)>>] :
   f1 \in 0 .. 2, f2 \in 0 .. 1, c \in 0 .. 1, g \in 0 .. 1, cap \in 0 .. 2,
   run \in {"ok", "nonzero"}, macro \in {{}, {Region(1, 1)}}}

(* Trees of three frames, and up to three samples of them or of a frame the *)
(* tree does not hold.                                                       *)
MCProfiles ==
  {[kind |-> "profile", children |-> tree, resolve |-> res, samples |-> ss[1], deltas |-> ss[2],
    start |-> 0, end |-> e] :
   tree \in {<<{2}, {3}, {}>>, <<{2, 3}, {}, {}>>},
   res \in [1 .. 3 -> {"none", "f"}] \union {<<"f", "g", "f">>}, e \in {0, 5},
   ss \in UNION {[1 .. k -> {1, 2, 3, 9}] \X [1 .. k -> {0, 1}] : k \in 0 .. 3}}

(* Edges in the order of their targets under each permutation of the nodes; *)
(* with two nodes, 3 is an id that is no node's.                             *)
Listing(order) == FlattenSeq([i \in 1 .. 3 |-> [s \in 1 .. 3 |-> <<s, order[i]>>]])
Listings == {Listing(o) : o \in Permuted(1 .. 3)}
Listed(pairs, listing) ==
  LET seq == SelectSeq(listing, LAMBDA p : p \in pairs)
  IN  [i \in DOMAIN seq |-> [source |-> seq[i][1], target |-> seq[i][2],
                             kind |-> IF seq[i][1] < seq[i][2] THEN "call" ELSE "inherit"]]
Digraph(n, pairs, listing) == [kind |-> "cycles", n |-> n, edges |-> Listed(pairs, listing)]
Pairs == (1 .. 3) \X (1 .. 3)
MCGraphs == {Digraph(n, ps, l) : n \in {2, 3}, ps \in SUBSET Pairs, l \in Listings}

Line(kind, node, type, n) == [kind |-> kind, node |-> node, count |-> [type |-> type, n |-> n]]
Quiet == {Line("blank", "", "none", 0), Line("bad", "", "none", 0), Line("event", "", "none", 0)}
Busy == {Line("event", "a", "none", 0), Line("event", "a", "int", 3),
         Line("event", "b", "float", 2), Line("event", "b", "bool", 1)}
DiffLines == {Line("event", "a", "none", 0), Line("event", "a", "int", 3),
              Line("event", "b", "none", 0), Line("bad", "", "none", 0)}

MCScans ==
  {[kind |-> "scan", files |-> <<f>>, k |-> k, rank |-> [n \in {"", "a", "b"} |-> IF n = "a" THEN 1 ELSE IF n = "b" THEN 2 ELSE 0]] :
     f \in SeqsUpTo(Quiet \union Busy, 3), k \in {0, 2}}
  \union {[kind |-> "diff", files |-> <<a, b>>, k |-> 1, nodes |-> {"a", "b", "c"}] :
            a \in SeqsUpTo(DiffLines, 2), b \in SeqsUpTo(DiffLines, 2)}

Part(style, text) == [style |-> style, text |-> text]
Url(segments) == [segments |-> segments, slash |-> TRUE]
Urls == {Url(<<Part("text", "api"), last>>) :
           last \in {Part("text", "me"), Part("brace", "id"), Part("colon", "n")}}
        \union {Url(<<Part("text", "api")>>)}
Hint(kind, node, path) == [kind |-> kind, node |-> node, path |-> path, line |-> 1]
Place(id, path) == [id |-> id, kind |-> "file", path |-> path]
Places == {Place("f1", <<"src", "run">>), Place("f2", <<"run">>),
           Place("f3", <<"tools", "run">>)}
Language(name, hints) ==
  [language |-> name, nodes |-> Places, hints |-> hints,
   edges |-> <<[source |-> "f1", target |-> "f2", kind |-> "import", line |-> 1]>>]
HttpJobs ==
  {[kind |-> "cross", order |-> SetToSeq(Places),
    graphs |-> <<Language("python", servers), Language("typescript", clients)>>] :
   servers \in SeqsUpTo({Hint("http_server", n, u) : n \in {"s1", "s2"}, u \in Urls}, 2),
   clients \in SeqsUpTo({Hint("http_client", n, u) : n \in {"c1", "s1"}, u \in Urls}, 1)}
SpawnJobs ==
  {[kind |-> "cross", order |-> order, graphs |-> <<Language("python", <<Hint("subprocess", n, p)>>)>>] :
   order \in Permuted(Places), n \in {"c1", "f2"},
   p \in {<<".", "run">>, <<"run">>, <<"src", "run">>, <<"..">>, <<"x", "run">>}}
  \union {[kind |-> "cross", order |-> <<>>, graphs |-> <<>>]}

(* An argument at 1 with an object at 2 in it, and leaves at 3 and 4: items  *)
(* that several entries share, and a container that holds itself.            *)
Object(type, width, items, keys) == [type |-> type, width |-> width, items |-> items, keys |-> keys]
Plain(type, items) == Object(type, 0, items, [i \in DOMAIN items |-> 0])
Keyed(type, items, keys) == {Object(type, 0, items, k) : k \in [DOMAIN items -> keys]}
KeyOf(secret, readable) == [secret |-> secret, readable |-> readable, width |-> 1]
DictKeys == {KeyOf(s, TRUE) : s \in BOOLEAN}
FieldKeys == DictKeys \union {KeyOf(FALSE, FALSE)}
Containers(contents) ==
  UNION {{Plain("list", c)} \union Keyed("dict", c, DictKeys) \union Keyed("data", c, FieldKeys) : c \in contents}
LeafOf(width) == Object("leaf", width, <<>>, <<>>)
Arguments == {LeafOf(2), LeafOf(9), Plain("slice", <<2, 4, 3>>)}
             \union Containers({<<>>, <<2>>, <<1, 2>>, <<2, 2>>, <<2, 4>>, <<4, 2>>})
Inner == {LeafOf(2), LeafOf(9), Object("lazy", 0, <<>>, <<>>), Plain("slice", <<3, 4, 4>>)}
         \union Containers({<<>>, <<1>>, <<3>>, <<3, 4>>})
Argument(heap, secret, redact, l, i, d) ==
  [kind |-> "value", heap |-> heap, root |-> 1, secret |-> secret, redact |-> redact,
   limits |-> [maxLen |-> l, maxItems |-> i, maxDepth |-> d]]
MCValues ==
  {Argument(<<x, y, LeafOf(w), LeafOf(2)>>, FALSE, TRUE, lm[1], lm[2], lm[3]) :
     x \in Arguments, y \in Inner, w \in {2, 9}, lm \in {<<3, 1, 1>>, <<3, 2, 2>>, <<8, 2, 1>>, <<8, 2, 2>>, <<8, 2, 3>>}}
  \union {Argument(<<LeafOf(w)>>, s, r, 3, 1, 1) : w \in {2, 9}, s \in BOOLEAN, r \in BOOLEAN}

(* Files of up to three definitions, well nested; a stub is decorated. *)
Definition(i, parent, name, kind, overload, uses) ==
  [name |-> name, kind |-> kind, parent |-> parent, line |-> 2 * i,
   first |-> IF overload THEN 2 * i - 1 ELSE 2 * i, overload |-> overload,
   calls |-> IF kind = "function" THEN uses ELSE <<>>,
   bases |-> IF kind = "class" THEN uses ELSE <<>>]
Defs(i, parents) ==
  {d \in {Definition(i, p, n, k, o, u) :
            p \in parents, n \in {"a", "b"}, k \in {"class", "function"}, o \in BOOLEAN,
            u \in {<<>>, << <<"a">> >>}} :
     d.overload => d.kind = "function"}
DefLists ==
  UNION {{<<x>>, <<x, y>>, <<x, y, z>>} :
           x \in Defs(1, {0}), y \in Defs(2, {0, 1}), z \in Defs(3, {0, 1, 2})}
Nested(defs) ==
  Len(defs) = 3 => defs[3].parent \in {0, 2, defs[2].parent}
Source(path, imports, defs) == [file |-> path, imports |-> imports, defs |-> defs]
FileProjects == {[kind |-> "project", files |-> <<Source(<<"p", "x">>, <<>>, defs)>>] :
                   defs \in {ds \in DefLists : Nested(ds)}}

(* A file that calls t, two that may define it, and up to two imports whose *)
(* dots stay inside the project.                                             *)
Import(level, module, names, alias, under) ==
  [level |-> level, module |-> module, names |-> names, alias |-> alias, under |-> under]
Imports ==
  {Import(l, m, {"t"}, "", u) : l \in 0 .. 2, m \in {<<>>, <<"b">>, <<"p">>, <<"p", "b">>},
     u \in {{}, {"try"}, {"def"}}}
  \union {Import(0, m, {}, a, {}) : m \in {<<"b">>, <<"p", "b">>}, a \in {"", "m"}}
Meaningful(path, imports) ==
  \A i \in DOMAIN imports :
    /\ imports[i].level < Len(path)
    /\ imports[i].level + Len(imports[i].module) > 0
Top(i, name, kind, uses) == Definition(i, 0, name, kind, FALSE, uses)
ImportProjects ==
  {[kind |-> "project",
    files |-> <<Source(path, imports, <<Top(1, "u", "function", <<call>>)>> \o home),
                Source(<<"p", "b">>, <<>>, <<Top(1, "t", "function", <<>>)>>),
                Source(other, <<>>, <<Top(1, name, "class", <<>>)>>)>>] :
   path \in {<<"p", "x">>, <<"p", "q", "x">>},
   imports \in {is \in SeqsUpTo(Imports, 1) \union {<<i, Import(1, <<"b">>, {"t"}, "", {"try"})>> : i \in Imports} :
                  Meaningful(<<"p", "q", "x">>, is)},
   call \in {<<"t">>, <<"m", "t">>, <<"b", "t">>, <<"print">>, <<"self", "t">>},
   home \in {<<>>, <<Top(2, "t", "class", <<>>)>>},
   other \in {<<"p", "__init__">>, <<"b">>, <<"p", "q", "b">>}, name \in {"t", "v"}}
Possible(j) == Meaningful(j.files[1].file, j.files[1].imports)

(* Compiled languages: a file that uses a name, and others that may declare  *)
(* it, in the same place or where one import leads.                          *)
Decl(line, owner, kind, name) ==
  [name |-> name, kind |-> kind, owner |-> owner, line |-> line, methods |-> {}, bases |-> <<>>, calls |-> <<>>,
   members |-> <<>>]
Around(d, members) == [d EXCEPT !.members = members]
Use(path, alias, names, default) == [path |-> path, alias |-> alias, names |-> names, default |-> default]
Unit(file, imports, decls) == [file |-> file, imports |-> imports, decls |-> decls]
Ref(sep, parts) == [sep |-> sep, parts |-> parts]
Based(kind, parts) == [sep |-> ".", parts |-> parts, kind |-> kind]
Compiled(settings, files) == [kind |-> "compiled", settings |-> settings, files |-> files]
Optional(S) == {<<>>} \union {<<x>> : x \in S}

GoUses == {Use(p, a, <<>>, "") : p \in {<<"x", "n">>, <<"y", "n">>, <<"x">>}, a \in {"", "k", "_"}}
GoCalls ==
  {Compiled([lang |-> "go", module |-> module, crates |-> <<>>],
     <<Unit(<<"m", "a">>, uses, <<[Decl(1, "", "function", "u") EXCEPT !.calls = <<Ref(".", call)>>]>> \o here),
       Unit(<<"m", "b">>, <<>>, beside), Unit(<<"n", "c">>, <<>>, there)>>) :
   module \in {<<>>, <<"x">>}, uses \in Optional(GoUses),
   call \in {<<"t">>, <<"n", "t">>, <<"k", "t">>, <<"n", "t", "z">>},
   here \in Optional({Decl(2, "", "struct", "t")}),
   beside \in Optional({Decl(1, "", "function", "t"), Decl(1, "s", "method", "t")}),
   there \in Optional({Decl(1, "", "interface", "t"), Decl(1, "s", "method", "t")})}
GoMethodSets ==
  {Compiled([lang |-> "go", module |-> <<"x">>, crates |-> <<>>],
     <<Unit(<<"m", "a">>, <<>>, <<[Decl(1, "", "struct", "s") EXCEPT !.bases = base]>>),
       Unit(place, <<>>, <<Decl(1, "s", "method", "f"), Decl(2, other, "method", "g")>>),
       Unit(<<"n", "c">>, <<>>, <<[Decl(1, "", "interface", "i") EXCEPT !.methods = wanted],
                                  Decl(2, "", "type_alias", "b")>>)>>) :
   base \in Optional({Based("inherit", <<"b">>), Based("inherit", <<"n", "s">>)}),
   place \in {<<"m", "b">>, <<"n", "b">>}, other \in {"s", "r", ""}, wanted \in SUBSET {"f", "g"}}

TsUses ==
  {Use(p, a, <<"t">>, d) : p \in {<<".", "b">>, <<"..", "b">>, <<".", "..", "b">>, <<"b">>, <<".", "b", ".js">>},
     a \in {<<>>, [t |-> "v"]}, d \in {"", "w"}}
TsProjects ==
  {Compiled([lang |-> "typescript", module |-> <<>>, crates |-> <<>>],
     <<Unit(path, uses, home \o <<[Decl(2, "", "class", "u") EXCEPT
                                     !.bases = <<Based("inherit", <<name[1]>>)>>,
                                     !.members = <<[Decl(3, "", "", "m") EXCEPT !.calls = <<Ref(".", name)>>]>>]>>),
       Unit(target, <<>>, <<Decl(1, "", "class", "t"), Around(Decl(2, "", "variable", ""), <<Decl(2, "", "function", "w"), Decl(2, "", "value", "v")>>)>>)>>) :
   path \in {<<"s", "a", ".ts">>, <<"s", "q", "a", ".tsx">>, <<"a", ".ts">>}, uses \in Optional(TsUses),
   home \in Optional({Decl(1, "", "interface", "t")}), name \in {<<"t">>, <<"v">>, <<"w">>, <<"t", "m">>},
   target \in {<<"s", "b", ".ts">>, <<"s", "b", "index", ".tsx">>, <<"b", ".ts">>, <<"s", "q", "b", ".ts">>}}

New == Decl(3, "", "", "new")
RustUses == {Use(p, a, <<>>, "") :
   p \in {<<"y", "T">>, <<"y", "k", "T">>, <<"crate", "b", "T">>, <<"self", "T">>, <<"std", "T">>, <<"T">>}, a \in {"", "V"}}
RustProjects ==
  {Compiled([lang |-> "rust", module |-> <<>>, crates |-> crates],
     <<Unit(<<"cx", "a">>, uses, <<[Decl(1, "", "function", "u") EXCEPT !.calls = <<call>>],
                                   [Decl(2, "T", "impl", "") EXCEPT !.bases = <<Based("implements", <<"T">>)>>]>>),
       Unit(<<"cx", "b">>, <<>>, near), Unit(<<"cy", "l">>, <<>>, far)>>) :
   crates \in {<<>>, <<[name |-> "r", root |-> <<>>]>>,
               <<[name |-> "x", root |-> <<"cx">>], [name |-> "y", root |-> <<"cy">>]>>},
   uses \in Optional(RustUses),
   call \in {Ref(".", <<"T">>), Ref("::", <<"T", "new">>), Ref("::", <<"V", "new">>), Ref(".", <<"T", "new">>),
             Ref(".", <<"V", "new">>), Ref("::", <<"b", "T">>)},
   near \in Optional({Decl(1, "", "struct", "T"), Around(Decl(1, "T", "impl", ""), <<New>>),
                      Around(Decl(1, "", "mod", "k"), <<Decl(2, "", "struct", "T"), Around(Decl(2, "T", "impl", ""), <<New>>)>>)}),
   far \in Optional({Decl(1, "", "enum", "T"), Around(Decl(1, "", "interface", "T"), <<New>>)})}

MCProjects == HttpJobs \union SpawnJobs
MCReports == (UNION {FramesOf(kind, ns) : kind \in {"code", "frame"}, ns \in Layouts}) \union Statements

MCScenarios == UNION {Gates, Steps, Packages, GoFolds, RustFolds}

MCPythonProjects == FileProjects \union {j \in ImportProjects : Possible(j)}

MCJobs ==
  [compiled  |-> GoCalls \union GoMethodSets \union TsProjects \union RustProjects]
=============================================================================
