--------------------------- MODULE GraphAnalysis ---------------------------
(***************************************************************************)
(* graph_analysis.py: hub scores and the iterative Tarjan search for        *)
(* strongly connected components, one action per turn of its loops. The     *)
(* nodes of a graph are 1 .. n in the graph's order; an edge is [source,    *)
(* target, kind], its ends any ids. The caps of 50 and 100 entries and the  *)
(* order of the entries are left out.                                        *)
(***************************************************************************)
EXTENDS Integers, Sequences, FiniteSets, SequencesExt, Questions

CONSTANT Graphs      \* the graphs that may be analysed

NodesOf(g) == 1 .. g.n

ProperGraph(g) ==
  /\ g.kind = "cycles" /\ g.n \in Nat
  /\ g.edges \in Seq([source : Nat, target : Nat, kind : STRING])

ASSUME GraphsAreProper == \A g \in Graphs : ProperGraph(g)

AnyGraph == asked \in Graphs /\ answer = Nothing

(* Every node and every target has a score.                                  *)
HubScore(g) ==
  LET In(v)  == {i \in DOMAIN g.edges : g.edges[i].target = v}
      Out(v) == {i \in DOMAIN g.edges : g.edges[i].source = v}
  IN  [v \in NodesOf(g) \union {e.target : e \in Range(g.edges)} |->
         Cardinality(In(v)) - Cardinality(Out(v))]

(* The search begins with nothing read and nothing discovered. *)
Fresh(V) ==
  [phase |-> "search", read |-> 0, adj |-> [v \in V |-> <<>>], loops |-> {}, kinds |-> {},
   counter |-> 1, index |-> [v \in V |-> 0], low |-> [v \in V |-> 0],
   stack |-> <<>>, onStack |-> {}, calls |-> <<>>, sccs |-> {}, cycles |-> {}, hubs |-> <<>>]

BeginAnalysis == Answer("cycles", Fresh(NodesOf(asked)))

Searching == asked.kind = "cycles" /\ answer # Nothing /\ answer.phase = "search"
AllRead == answer.read = Len(asked.edges)

(* An edge to or from an id that is no node's is skipped; a self-loop is    *)
(* kept out of the adjacency list.                                           *)
ReadEdge ==
  LET e == asked.edges[answer.read + 1]
      loop == e.source = e.target
      read == [answer EXCEPT !.read = @ + 1]
  IN  /\ Searching /\ ~AllRead
      /\ answer' = IF ~({e.source, e.target} \subseteq NodesOf(asked)) THEN read
                   ELSE [read EXCEPT
                           !.loops = IF loop THEN @ \union {e.source} ELSE @,
                           !.adj[e.source] = IF loop THEN @ ELSE Append(@, e.target),
                           !.kinds = @ \union {<<e.source, e.target, e.kind>>}]
      /\ UNCHANGED asked

MinOf(a, b) == IF a < b THEN a ELSE b

Discover(st, v) ==
  [st EXCEPT !.counter = @ + 1, !.index[v] = st.counter, !.low[v] = st.counter,
             !.stack = Append(@, v), !.onStack = @ \union {v},
             !.calls = Append(@, [node |-> v, pos |-> 1])]

CallTop(st) == st.calls[Len(st.calls)]

(* The next node in order that no search has reached. *)
StartNode ==
  LET fresh == {v \in NodesOf(asked) : answer.index[v] = 0}
  IN  /\ Searching /\ AllRead /\ answer.calls = <<>>
      /\ \E v \in fresh : /\ \A w \in fresh : v <= w
                          /\ answer' = Discover(answer, v)
      /\ UNCHANGED asked

(* The next neighbour w of the node v on top of the call stack. *)
AdvanceAnywhere(st, v, w) ==      \* forgets to ask whether w is still on the stack
  LET moved == [st EXCEPT !.calls[Len(st.calls)].pos = @ + 1]
  IN  IF st.index[w] = 0 THEN Discover(moved, w)
      ELSE [moved EXCEPT !.low[v] = MinOf(@, st.index[w])]

Advance(st, v, w) ==
  LET moved == [st EXCEPT !.calls[Len(st.calls)].pos = @ + 1]
  IN  IF st.index[w] = 0 THEN Discover(moved, w)
      ELSE IF w \in st.onStack THEN [moved EXCEPT !.low[v] = MinOf(@, st.index[w])]
      ELSE moved

VisitNeighbour ==
  LET top == CallTop(answer)
      list == answer.adj[top.node]
  IN  /\ Searching /\ AllRead /\ answer.calls # <<>> /\ top.pos <= Len(list)
      /\ answer' = Advance(answer, top.node, list[top.pos])
      /\ UNCHANGED asked

(* All neighbours done: hand the low link to the caller; a root pops its    *)
(* component.                                                                *)
Retreat(st, v) ==
  LET calls == Front(st.calls)
      low   == IF calls = <<>> THEN st.low
               ELSE [st.low EXCEPT ![Last(calls).node] = MinOf(@, st.low[v])]
      up    == [st EXCEPT !.calls = calls, !.low = low]
      at    == CHOOSE i \in DOMAIN st.stack : st.stack[i] = v
      scc   == {st.stack[i] : i \in at .. Len(st.stack)}
  IN  IF st.low[v] # st.index[v] THEN up
      ELSE [up EXCEPT !.sccs = @ \union {scc}, !.onStack = @ \ scc,
                      !.stack = SubSeq(@, 1, at - 1)]

FinishNode ==
  LET top == CallTop(answer)
  IN  /\ Searching /\ AllRead /\ answer.calls # <<>> /\ top.pos > Len(answer.adj[top.node])
      /\ answer' = Retreat(answer, top.node)
      /\ UNCHANGED asked

(* Components of two or more nodes and self-loops, with the kinds of the    *)
(* edges inside them.                                                        *)
Cycles(st) ==
  LET kept == {c \in st.sccs : Cardinality(c) > 1 \/ c \subseteq st.loops}
      Inside(c, k) == {k[1], k[2]} \subseteq c /\ (k[1] # k[2] \/ Cardinality(c) = 1)
  IN  {[nodes |-> c, kinds |-> {k[3] : k \in {l \in st.kinds : Inside(c, l)}}] : c \in kept}

ReportCycles ==
  /\ Searching /\ AllRead /\ answer.calls = <<>>
  /\ \A v \in NodesOf(asked) : answer.index[v] # 0
  /\ answer' = [answer EXCEPT !.phase = "reported", !.cycles = Cycles(answer),
                              !.hubs = HubScore(asked)]
  /\ UNCHANGED asked

Analyse == BeginAnalysis \/ ReadEdge \/ StartNode \/ VisitNeighbour \/ FinishNode \/ ReportCycles

AnalysisSpec == AnyGraph /\ [][Analyse]_questionVars
-----------------------------------------------------------------------------
(* A node reaches those that are in every set that has it and that no edge  *)
(* leaves.                                                                   *)
Links(g) == {<<e.source, e.target>> : e \in Range(g.edges)} \intersect (NodesOf(g) \X NodesOf(g))
Closed(g, S) == \A l \in Links(g) : l[1] \in S => l[2] \in S
Reach(g, v) ==
  {w \in NodesOf(g) : \A S \in SUBSET NodesOf(g) : v \in S /\ Closed(g, S) => w \in S}
Class(g, v) == {w \in Reach(g, v) : v \in Reach(g, w)}
OnCycle(g) == {v \in NodesOf(g) : \E l \in Links(g) : l[1] = v /\ v \in Reach(g, l[2])}

(* The kinds of the edges that make a cycle of the nodes c. *)
KindsIn(g, c) ==
  {e.kind : e \in {f \in Range(g.edges) : /\ {f.source, f.target} \subseteq c
                                          /\ f.source # f.target \/ Cardinality(c) = 1}}

(* The components found so far are classes of nodes that reach one another; *)
(* the cycles reported are all of those classes that have a cycle, one node *)
(* alone only with an edge to itself, with the kinds of the edges that make *)
(* them; and every edge counts once for its target and once against its     *)
(* source.                                                                   *)
CyclesAreExact ==
  Answered("cycles") =>
    /\ \A c \in answer.sccs : \E v \in NodesOf(asked) : c = Class(asked, v)
    /\ answer.phase = "reported" =>
         /\ {c.nodes : c \in answer.cycles} = {Class(asked, v) : v \in OnCycle(asked)}
         /\ \A c \in answer.cycles : c.kinds # {} /\ c.kinds = KindsIn(asked, c.nodes)
         /\ SumFunction(answer.hubs)
              = Cardinality({i \in DOMAIN asked.edges : asked.edges[i].source \notin DOMAIN answer.hubs})
=============================================================================
