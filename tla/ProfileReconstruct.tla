------------------------ MODULE ProfileReconstruct -------------------------
(***************************************************************************)
(* node_runtime/profile_reconstruct.py: a call/return stream from a sampled *)
(* call tree, by a walk up the tree for every sample. A profile holds the   *)
(* children of each tree node, the project node its frame resolves to or    *)
(* "none", the sampled tree nodes, the microseconds before each sample, and *)
(* its start and end. Tree nodes are positive; 0 stands for None.           *)
(***************************************************************************)
EXTENDS Integers, Sequences, FiniteSets, SequencesExt, Questions

CONSTANT Profiles    \* the profiles V8 may hand over

TreeNodes(p) == DOMAIN p.children

(* V8 hands over a tree, a node numbered after the one that calls it, and a *)
(* clock that does not run backwards. A sample may name a node that the     *)
(* tree does not hold.                                                       *)
ProperProfile(p) ==
  /\ p.kind = "profile" /\ IsFiniteSet(TreeNodes(p)) /\ TreeNodes(p) \subseteq Nat \ {0}
  /\ \A m \in TreeNodes(p) : \A n \in p.children[m] : m < n
  /\ \A m, o \in TreeNodes(p) : p.children[m] \intersect p.children[o] # {} => m = o
  /\ p.samples \in Seq(Nat) /\ p.deltas \in Seq(Nat) /\ p.start \in Int /\ p.end \in Int

ASSUME ProfilesAreProper == \A p \in Profiles : ProperProfile(p)

AnyProfile == asked \in Profiles /\ answer = Nothing

(* _build_parents *)
ParentOf(p, n) ==
  LET claim == {m \in TreeNodes(p) : n \in p.children[m]}
  IN  IF claim = {} THEN 0 ELSE CHOOSE m \in claim : \A o \in claim : o <= m

Event(kind, frame, ts, depth) == [event |-> kind, node |-> frame[2], ts |-> ts, depth |-> depth]

(* The instant a sample's transition is stamped with: the START of the      *)
(* interval it stands for.                                                   *)
StampAtSample(before, after) == after
Stamp(before, after) == before

(* "open" is prev, the frames with a call and no return yet, "path" what    *)
(* filtered_path has built so far, "i" the samples taken.                    *)
BeginProfile ==
  Answer("profile",
         [status |-> IF asked.samples = <<>> THEN "profiled" ELSE "emit", i |-> 0,
          cum |-> asked.start, stamp |-> asked.start, cache |-> [n \in {} |-> <<>>],
          cur |-> 0, pending |-> <<>>, path |-> <<>>, open |-> <<>>, events |-> <<>>])

In(status) == asked.kind = "profile" /\ answer # Nothing /\ answer.status = status

(* The stream has reached the stack of the last sample.                      *)
StackReached == In("emit") /\ answer.pending = <<>> /\ answer.open = answer.path

Clock == answer.cum + (IF answer.i < Len(asked.deltas) THEN asked.deltas[answer.i + 1] ELSE 0)

SampleKnown ==
  /\ StackReached /\ answer.i < Len(asked.samples)
  /\ asked.samples[answer.i + 1] \in TreeNodes(asked)
  /\ answer' = [answer EXCEPT !.i = @ + 1, !.cum = Clock, !.stamp = Stamp(answer.cum, Clock),
                              !.status = "climb", !.cur = asked.samples[answer.i + 1]]
  /\ UNCHANGED asked

SampleUnknown ==
  /\ StackReached /\ answer.i < Len(asked.samples)
  /\ asked.samples[answer.i + 1] \notin TreeNodes(asked)
  /\ answer' = [answer EXCEPT !.i = @ + 1, !.cum = Clock]
  /\ UNCHANGED asked

(* filtered_path climbs to the nearest ancestor with a path in the cache;   *)
(* a node seen twice would end the climb too.                                *)
MayClimb ==
  answer.cur # 0 /\ answer.cur \notin DOMAIN answer.cache /\ answer.cur \notin Range(answer.pending)

ClimbUp ==
  /\ In("climb") /\ MayClimb
  /\ answer' = [answer EXCEPT !.pending = Append(@, answer.cur), !.cur = ParentOf(asked, @)]
  /\ UNCHANGED asked

TurnBack ==
  /\ In("climb") /\ ~MayClimb
  /\ answer' = [answer EXCEPT !.status = "emit",
                  !.path = IF answer.cur \in DOMAIN answer.cache THEN answer.cache[answer.cur] ELSE <<>>]
  /\ UNCHANGED asked

(* On the way back each pending node's path is cached; a frame outside the  *)
(* project adds nothing to it.                                               *)
ExtendPath ==
  /\ In("emit") /\ answer.pending # <<>>
  /\ LET n    == Last(answer.pending)
         path == IF asked.resolve[n] = "none" THEN answer.path
                 ELSE Append(answer.path, <<n, asked.resolve[n]>>)
     IN  answer' = [answer EXCEPT !.pending = Front(@), !.cur = n, !.path = path,
                      !.cache = [m \in DOMAIN @ \union {n} |-> IF m = n THEN path ELSE @[m]]]
  /\ UNCHANGED asked

(* _emit_transition: close the deepest first, down to what the two stacks   *)
(* have in common, then open the shallowest first.                           *)
CloseFrame ==
  /\ In("emit") /\ answer.pending = <<>> /\ ~IsPrefix(answer.open, answer.path)
  /\ answer' = [answer EXCEPT !.open = Front(@),
                  !.events = Append(@, Event("return", Last(answer.open), answer.stamp, Len(answer.open) - 1))]
  /\ UNCHANGED asked

OpenFrame ==
  /\ In("emit") /\ answer.pending = <<>> /\ IsStrictPrefix(answer.open, answer.path)
  /\ LET frame == answer.path[Len(answer.open) + 1]
     IN  answer' = [answer EXCEPT !.open = Append(@, frame),
                      !.events = Append(@, Event("call", frame, answer.stamp, Len(answer.open)))]
  /\ UNCHANGED asked

(* What is still open closes at the end, and not before the last sample.    *)
CloseProfile ==
  /\ StackReached /\ answer.i = Len(asked.samples)
  /\ answer' = [answer EXCEPT !.i = @ + 1, !.path = <<>>,
                  !.stamp = IF asked.end > answer.cum THEN asked.end ELSE answer.cum]
  /\ UNCHANGED asked

ReturnProfile ==
  /\ StackReached /\ answer.i > Len(asked.samples)
  /\ answer' = [answer EXCEPT !.status = "profiled"] /\ UNCHANGED asked

Reconstruct == \/ BeginProfile \/ SampleKnown \/ SampleUnknown \/ ClimbUp \/ TurnBack \/ ExtendPath
               \/ CloseFrame \/ OpenFrame \/ CloseProfile \/ ReturnProfile

ProfileSpec == AnyProfile /\ [][Reconstruct]_questionVars
-----------------------------------------------------------------------------
(* The call path of a tree node: the least set of nodes that holds it and   *)
(* the parent of each of its own; and the part of it within the project.     *)
HoldsParents(p, S) == \A m \in TreeNodes(p) : p.children[m] \intersect S # {} => m \in S
CallPath(p, n) ==
  {m \in TreeNodes(p) : \A S \in SUBSET TreeNodes(p) : n \in S /\ HoldsParents(p, S) => m \in S}
ProjectFrames(p, n) == {m \in CallPath(p, n) : p.resolve[m] # "none"}

(* The stack a sample shows: each of its frames at the number of project    *)
(* frames that called it.                                                    *)
StackOf(p, n) == {<<Cardinality(ProjectFrames(p, m) \ {m}), p.resolve[m]>> : m \in ProjectFrames(p, n)}

(* The stack that some events of a stream leave: their calls without a      *)
(* later return at the same depth.                                           *)
OpenCalls(events, S) ==
  {c \in S : /\ events[c].event = "call"
             /\ \A r \in S : r > c /\ events[r].event = "return" => events[r].depth # events[c].depth}
StackAfter(events, S) == {<<events[c].depth, events[c].node>> : c \in OpenCalls(events, S)}

(* A call goes on top of the stack and a return takes the top off.          *)
CallsNest(events) ==
  \A e \in DOMAIN events :
    LET stack  == StackAfter(events, 1 .. e - 1)
        depths == {frame[1] : frame \in stack}
    IN  IF events[e].event = "call" THEN depths = 0 .. events[e].depth - 1
        ELSE depths = 0 .. events[e].depth /\ <<events[e].depth, events[e].node>> \in stack

(* When the i-th sample was taken. *)
SampledAt(p, i) ==
  p.start + Cardinality(UNION {{j} \X (1 .. p.deltas[j]) : j \in (1 .. i) \intersect DOMAIN p.deltas})

(* The calls and returns of a profile nest, are in the order of time and    *)
(* leave nothing open, and at every instant of the interval that ends with  *)
(* a sample the open calls are the project frames of that sample.            *)
ProfileIsTheStack ==
  Answered("profile") /\ answer.status = "profiled" =>
    LET events == answer.events
    IN  /\ CallsNest(events) /\ StackAfter(events, DOMAIN events) = {}
        /\ \A d, e \in DOMAIN events : d < e => events[d].ts <= events[e].ts
        /\ \A i \in DOMAIN asked.samples :
             asked.samples[i] \in TreeNodes(asked) =>
               \A t \in SampledAt(asked, i - 1) .. SampledAt(asked, i) - 1 :
                 StackAfter(events, {e \in DOMAIN events : events[e].ts <= t}) = StackOf(asked, asked.samples[i])
=============================================================================
