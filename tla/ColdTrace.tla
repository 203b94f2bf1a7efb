----------------------------- MODULE ColdTrace -----------------------------
(***************************************************************************)
(* A trace taken by instrumenting a build: the Go and Rust adapters, and    *)
(* the gate they share with the Node adapter. The                           *)
(* gate probes the toolchain once per tool and remembers the answer; the    *)
(* toolchain module builds, runs and exports, each step in a subprocess     *)
(* with a timeout; the adapter folds the exported coverage into one event   *)
(* per executed function. A scenario holds what the environment answers:    *)
(* probes, manifest, step results, cargo's messages, how the program ended  *)
(* and the coverage it left. "root" is the project, or the Go module. For   *)
(* the properties only, "of" names the node an entry of the coverage is of  *)
(* and "calls" has the calls of each node there.                             *)
(***************************************************************************)
EXTENDS Attribution

CONSTANT Scenarios   \* the coverage traces that may be asked for

(* functools.cache: every later call sees the first call's answer. *)
Probe(p, call) == p[1]

MIN_VERSION == 2    \* versions are 0 (probe failed), 1 (too old), 2 and above

(* The first check of a sequence of <<name, broken>> that is broken. *)
FirstBroken(checks) ==
  LET broken == {i \in DOMAIN checks : checks[i][2]}
  IN  IF broken = {} THEN "none"
      ELSE checks[CHOOSE i \in broken : \A j \in broken : i <= j][1]

(* A probe that runs an executable has no answer without it. *)
NodeVersion(s, call) == IF Probe(s.exe, call) THEN Probe(s.version, call) ELSE 0
GoVersion(s, call) == IF Probe(s.exe, call) THEN Probe(s.version, call) ELSE 0
RustcVersion(s, call) == IF Probe(s.rustc, call) THEN Probe(s.version, call) ELSE 0
RustcTells(s, told, call) == Probe(s.rustc, call) /\ Probe(told, call)

(* node_runtime_available and its message. *)
NodeProbes(s, call) ==
  << <<"no node", ~Probe(s.exe, call)>>,
     <<"no version", NodeVersion(s, call) = 0>>,
     <<"too old", NodeVersion(s, call) < MIN_VERSION>> >>

(* What go_runtime_available asks, and remediation_message asks again. *)
GoProbes(s, call) ==
  << <<"no go", ~Probe(s.exe, call)>>,
     <<"no version", GoVersion(s, call) = 0>>,
     <<"too old", GoVersion(s, call) < MIN_VERSION>> >>

(* An LLVM tool lies under the sysroot of the host triple. *)
LlvmTool(s, tool, call) ==
  RustcTells(s, s.sysroot, call) /\ RustcTells(s, s.triple, call) /\ Probe(tool, call)

(* rust_runtime_available and its message. *)
RustProbes(s, call) ==
  << <<"no cargo", ~Probe(s.exe, call)>>,
     <<"no rustc", ~Probe(s.rustc, call)>>,
     <<"no version", RustcVersion(s, call) = 0>>,
     <<"too old", RustcVersion(s, call) < MIN_VERSION>>,
     <<"no llvm tools", ~LlvmTool(s, s.profdata, call) \/ ~LlvmTool(s, s.cov, call)>> >>

(* The message names the first thing missing at the second look; nothing    *)
(* missing by then would be "unknown reason".                                *)
Missing(first, second) ==
  IF FirstBroken(first) = "none" THEN "open"
  ELSE IF FirstBroken(second) = "none" THEN "unknown reason"
  ELSE FirstBroken(second)

(* runtime_unavailable_reason: a .tsx or .jsx file, a _test.go file, or a   *)
(* file right under tests/ or benches/, is refused before the toolchain is   *)
(* looked at.                                                                *)
NodeGate(s) == IF s.testFile THEN "test file" ELSE Missing(NodeProbes(s, 1), NodeProbes(s, 2))
GoGate(s) == IF s.testFile THEN "test file" ELSE Missing(GoProbes(s, 1), GoProbes(s, 2))
RustGate(s) == IF s.testFile THEN "test file" ELSE Missing(RustProbes(s, 1), RustProbes(s, 2))
Gate(s) ==
  CASE s.lang = "node" -> NodeGate(s) [] s.lang = "go" -> GoGate(s) [] s.lang = "rust" -> RustGate(s)

(* get_crates: the members of a workspace that are crates, without its own  *)
(* root package, or the project itself as the one crate.                     *)
GetCrates(manifest) ==
  IF manifest.workspace THEN {m \in manifest.members : m.crate}
  ELSE {[root |-> <<>>, crate |-> TRUE,
         name |-> IF manifest.package = "none" THEN "directory" ELSE manifest.package]}

(* _resolve_package: the crate with the longest root that holds the script, *)
(* else what the root manifest declares (_try_root_package).                 *)
ResolvePackage(script, manifest) ==
  LET matched == {c \in GetCrates(manifest) : IsStrictPrefix(c.root, script)}
  IN  IF matched # {}
      THEN (CHOOSE c \in matched : \A d \in matched : Len(d.root) <= Len(c.root)).name
      ELSE manifest.package

(* _run_step: a timeout or a failed spawn raises whatever the step; a       *)
(* non-zero exit is judged by the caller.                                   *)
StepFails(result, exitMatters) == result = "raised" \/ (exitMatters /\ result = "nonzero")

(* toolchain.run of Go. The program leaves a meta file from the moment it   *)
(* starts and its counters when it ends in order.                            *)
GoFailure(s) ==
  FirstBroken(<< <<"build", StepFails(s.build, TRUE)>>,
                 <<"run", StepFails(s.run, FALSE)>>,
                 <<"no data", s.ended = "killed">>,
                 <<"export", StepFails(s.export, TRUE)>> >>)

(* _build: of cargo's messages, the one bin artifact made from the script   *)
(* that names an executable.                                                 *)
Artifacts(s) ==
  {i \in DOMAIN s.messages : s.messages[i].bin /\ s.messages[i].source = s.script
                               /\ s.messages[i].executable}

(* toolchain.run of Rust: the package first; the program leaves a profile   *)
(* only when it ends in order; profiles are merged and then exported.        *)
RustFailure(s) ==
  FirstBroken(<< <<"package", ResolvePackage(s.script, s.manifest) = "none">>,
                 <<"build", StepFails(s.build, TRUE)>>,
                 <<"artifact", Cardinality(Artifacts(s)) # 1>>,
                 <<"run", StepFails(s.run, FALSE)>>,
                 <<"no data", s.ended # "flushed">>,
                 <<"merge", StepFails(s.merge, TRUE)>>,
                 <<"export", StepFails(s.export, TRUE)>> >>)

Failure(s) == IF s.lang = "go" THEN GoFailure(s) ELSE RustFailure(s)

(* What a coverage trace answers when it stops before there is coverage. *)
Stopped(s, why) ==
  [status |-> why, built |-> ResolvePackage(s.script, s.manifest), events |-> <<>>]

(* What follows the gate of Node is NodeSession. *)
Asked(gate) == asked.kind = "cold" /\ answer = Nothing /\ (Gate(asked) = "open") = gate

RefuseCold == Asked(FALSE) /\ Answer("cold", Stopped(asked, Gate(asked)))

DeferToNode == Asked(TRUE) /\ asked.lang = "node" /\ Answer("cold", Stopped(asked, "open"))

MayBuild == Asked(TRUE) /\ asked.lang # "node"

FailCold == MayBuild /\ Failure(asked) # "none" /\ Answer("cold", Stopped(asked, Failure(asked)))

(* The fold of the coverage over "i" entries: per node the calls and, for   *)
(* Go, the line of the block they were read from. "built" is the package.    *)
BeginFold ==
  /\ MayBuild /\ Failure(asked) = "none"
  /\ Answer("cold", [status |-> "fold", built |-> ResolvePackage(asked.script, asked.manifest),
                     i |-> 0, counts |-> [n \in {} |-> 0], lines |-> [n \in {} |-> 0]])

Folding == asked.kind = "cold" /\ answer # Nothing /\ answer.status = "fold"
More == Folding /\ answer.i < Len(asked.coverage)
NextEntry == asked.coverage[answer.i + 1]
With(f, n, value) == [m \in DOMAIN f \union {n} |-> IF m = n THEN value ELSE f[m]]

(* Go: the block with the lowest line is entered once per call; of two on   *)
(* one line the first stays.                                                 *)
GoReplacesEqual(line, kept) == line <= kept
GoReplaces(line, kept) == line < kept

BlockNode == ResolveStatement(asked.nodes, NormalizeImport(asked.root, NextEntry.id), NextEntry.line)
BlockCounts ==
  BlockNode # NoNode /\ (BlockNode \in DOMAIN answer.lines => GoReplaces(NextEntry.line, answer.lines[BlockNode]))

KeepBlock ==
  /\ More /\ asked.lang = "go" /\ BlockCounts
  /\ answer' = [answer EXCEPT !.i = @ + 1, !.lines = With(@, BlockNode, NextEntry.line),
                              !.counts = With(@, BlockNode, NextEntry.count)]
  /\ UNCHANGED asked

PassBlock ==
  /\ More /\ asked.lang = "go" /\ ~BlockCounts
  /\ answer' = [answer EXCEPT !.i = @ + 1] /\ UNCHANGED asked

(* _min_region_line: a function starts at the least line of its own file's  *)
(* regions, of any region when it has none there.                            *)
MinRegionLine(regions) ==
  LET own == {r \in regions : r.file = 0}
      used == IF own # {} THEN own ELSE regions
  IN  (CHOOSE r \in used : \A o \in used : r.line <= o.line).line

(* parse_export leaves out an entry without regions; those of one node, its *)
(* instantiations, are added up.                                             *)
FunctionNode ==
  ResolveStatement(asked.nodes, NormalizePath(asked.root, NextEntry.id), MinRegionLine(NextEntry.regions))
FunctionCounts == NextEntry.regions # {} /\ FunctionNode # NoNode

AddFunction ==
  /\ More /\ asked.lang = "rust" /\ FunctionCounts
  /\ LET before == IF FunctionNode \in DOMAIN answer.counts THEN answer.counts[FunctionNode] ELSE 0
     IN  answer' = [answer EXCEPT !.i = @ + 1, !.counts = With(@, FunctionNode, before + NextEntry.count)]
  /\ UNCHANGED asked

PassFunction ==
  /\ More /\ asked.lang = "rust" /\ ~FunctionCounts
  /\ answer' = [answer EXCEPT !.i = @ + 1] /\ UNCHANGED asked

(* One event per node with calls; the cap is checked afterwards. *)
Hit == {n \in DOMAIN answer.counts : answer.counts[n] # 0}
OverCap == asked.cap # Nothing /\ Cardinality(Hit) > asked.cap

Emit ==
  /\ Folding /\ answer.i = Len(asked.coverage) /\ ~OverCap
  /\ answer' = [status |-> "traced", built |-> answer.built, events |-> [n \in Hit |-> answer.counts[n]]]
  /\ UNCHANGED asked

CapExceeded ==
  /\ Folding /\ answer.i = Len(asked.coverage) /\ OverCap
  /\ answer' = [status |-> "capped", built |-> answer.built, events |-> <<>>]
  /\ UNCHANGED asked

TraceCold == \/ RefuseCold \/ DeferToNode \/ FailCold \/ BeginFold \/ KeepBlock \/ PassBlock
             \/ AddFunction \/ PassFunction \/ Emit \/ CapExceeded

AnyScenario == asked \in Scenarios /\ answer = Nothing
ColdSpec == AnyScenario /\ [][TraceCold]_questionVars
-----------------------------------------------------------------------------
(* The lines an entry is known by. An entry for a function of Rust that has *)
(* no region in its own file would only have the lines of other files.       *)
LinesOf(s, e) == IF s.lang = "go" THEN {e.line} ELSE {r.line : r \in {q \in e.regions : q.file = 0}}
Counted(s, e) == s.lang = "go" \/ e.regions # {}
Above(s, e) == {n \in s.nodes : e.id.parts = s.root \o n.path}

(* An entry is of the last function declared before its text, of the file   *)
(* when there is none; in a file the graph does not know it is unresolved,   *)
(* and outside the project it is nobody's. Of functions that begin on one    *)
(* line none can be told to be the last, and there are none such.            *)
EntryIsOf(s, e) ==
  /\ ~IsStrictPrefix(s.root, e.id.parts) => e.of = NoNode
  /\ IsStrictPrefix(s.root, e.id.parts) =>
       LET functions == {n \in Above(s, e) : Callable(n)}
           files     == {n \in Above(s, e) : n.kind = "file"}
           before    == {n \in functions : \A l \in LinesOf(s, e) : n.line <= l}
       IN  /\ LinesOf(s, e) # {} /\ e.of # NoNode
           /\ IF before # {}
              THEN \E n \in before : e.of = n.id /\ \A m \in before \ {n} : m.line < n.line
              ELSE IF files # {} THEN \E n \in files : e.of = n.id
              ELSE e.of = Unresolved

(* The calls of a node. Go: those of its first block, the first of several  *)
(* on its line; all counters are zero when they were not written. Rust: one  *)
(* for each call of an instantiation, its closures included.                 *)
EntriesOf(s, n) == {i \in DOMAIN s.coverage : Counted(s, s.coverage[i]) /\ s.coverage[i].of = n}
ComesFirst(s, i, j) ==
  s.coverage[i].line < s.coverage[j].line \/ (s.coverage[i].line = s.coverage[j].line /\ i <= j)
EntryCalls(s, I) == UNION {{i} \X (1 .. s.coverage[i].count) : i \in I}
CallsOf(s, n) == IF s.ended = "flushed" THEN s.calls[n] ELSE 0

CallsAreCounted(s) ==
  /\ DOMAIN s.calls = {n \in {s.coverage[i].of : i \in DOMAIN s.coverage} : n # NoNode /\ EntriesOf(s, n) # {}}
  /\ \A n \in DOMAIN s.calls :
       /\ s.lang = "go" => \E i \in EntriesOf(s, n) : /\ s.coverage[i].count = CallsOf(s, n)
                                                    /\ \A j \in EntriesOf(s, n) : ComesFirst(s, i, j)
       /\ s.lang = "rust" => s.calls[n] = Cardinality(EntryCalls(s, EntriesOf(s, n)))

ProperCrate(c) == c.root \in Seq(STRING) /\ c.name \in STRING \ {"none"} /\ c.crate \in BOOLEAN

ProperEntry(s, e) ==
  /\ e.id.scheme = "path" /\ e.id.parts \in Seq(STRING) \ {s.root} /\ e.count \in Nat
  /\ s.lang = "go" => e.line \in Nat
  /\ s.lang = "rust" => \A r \in e.regions : r.line \in Nat /\ r.file \in Nat
  /\ Counted(s, e) => EntryIsOf(s, e)

ProperScenario(s) ==
  /\ s.kind = "cold" /\ s.lang \in {"node", "go", "rust"} /\ s.testFile \in BOOLEAN
  /\ {s.exe, s.rustc, s.sysroot, s.triple, s.profdata, s.cov} \subseteq BOOLEAN \X BOOLEAN
  /\ s.version \in Nat \X Nat
  /\ s.script \in Seq(STRING) \ {<<>>} /\ s.manifest.workspace \in BOOLEAN
  /\ s.manifest.package \in STRING /\ IsFiniteSet(s.manifest.members)
  /\ \A c \in s.manifest.members : ProperCrate(c)
  /\ {s.build, s.run, s.merge, s.export} \subseteq {"ok", "nonzero", "raised"}
  /\ s.ended \in {"flushed", "panicked", "killed"} /\ IsFiniteSet(DOMAIN s.messages)
  /\ ProperNodes(s.nodes) /\ s.root \in Seq(STRING) /\ (s.lang = "go" => s.root # <<>>)
  /\ (s.cap # Nothing => s.cap \in Nat)
  /\ Len(s.coverage) \in Nat /\ DOMAIN s.coverage = 1 .. Len(s.coverage)
  /\ s.lang # "node" =>
       (\A i \in DOMAIN s.coverage : ProperEntry(s, s.coverage[i])) /\ CallsAreCounted(s)

ASSUME ScenariosAreProper == \A s \in Scenarios : ProperScenario(s)

GateWords == {"test file", "no node", "no go", "no cargo", "no rustc", "no version", "too old", "no llvm tools"}
Working(s) ==
  /\ ~s.testFile /\ s.exe[1] /\ s.version[1] >= MIN_VERSION
  /\ s.lang = "rust" => s.rustc[1] /\ s.sysroot[1] /\ s.triple[1] /\ s.profdata[1] /\ s.cov[1]

(* The crate of a script: the innermost that holds it; in a workspace whose *)
(* members do not, the package of the root.                                  *)
Home(s, name) ==
  \/ ~s.manifest.workspace
  \/ \E c \in s.manifest.members :
       /\ c.crate /\ c.name = name /\ IsStrictPrefix(c.root, s.script)
       /\ \A d \in s.manifest.members :
            d.crate /\ IsStrictPrefix(d.root, s.script) => IsPrefix(d.root, c.root)
  \/ /\ \A c \in s.manifest.members : c.crate => ~IsStrictPrefix(c.root, s.script)
     /\ name = s.manifest.package

(* A trace is delivered only when the toolchain, every step and the one     *)
(* binary of the script's innermost package were there; then it has exactly *)
(* one event per executed function, with the number of its calls, or it is  *)
(* refused for the cap. A refusal names what is missing.                     *)
ColdTraceIsExact ==
  Answered("cold") =>
    LET s   == asked
        ran == {n \in DOMAIN s.calls : CallsOf(s, n) > 0}
    IN  /\ answer.status \in GateWords <=> ~Working(s)
        /\ answer.status # "unknown reason"
        /\ answer.status \in {"traced", "capped"} =>
             /\ s.build = "ok" /\ s.run # "raised" /\ s.export = "ok" /\ s.ended # "killed"
             /\ s.lang = "rust" =>
                  /\ s.merge = "ok" /\ s.ended = "flushed"
                  /\ Home(s, answer.built) /\ answer.built # "none"
                  /\ \E i \in DOMAIN s.messages : s.messages[i].bin /\ s.messages[i].source = s.script
        /\ answer.status = "capped" => s.cap # Nothing /\ Cardinality(ran) > s.cap
        /\ answer.status = "traced" =>
             /\ s.cap # Nothing => Cardinality(ran) <= s.cap
             /\ answer.events = [n \in ran |-> CallsOf(s, n)]
=============================================================================
