----------------------------- MODULE ValueRepr -----------------------------
(***************************************************************************)
(* python_runtime/value_repr.py: a captured value formatted within limits,  *)
(* never running the program's code, one action per element the recursion   *)
(* of repr1 takes up. The heap of a question has the object at each address:*)
(*   [type, width, items, keys], its type being                              *)
(*   "leaf"   a scalar, a string, an enum member, of a text of that width    *)
(*   "lazy"   a generator, a bare iterator                                   *)
(*   "list", "slice"  a list, tuple or set; a range or slice                 *)
(*   "dict", "data"   keys[i] is [secret, readable, width]: a dict key or a  *)
(*                    field name                                             *)
(* Items are addresses: objects may share items, and hold themselves. The    *)
(* text is its length and the set of leaves it shows whole.                  *)
(***************************************************************************)
EXTENDS Integers, Sequences, FiniteSets, SequencesExt, Questions

CONSTANTS Multiple, Floor,     \* _CHAR_BUDGET_MULTIPLE, _CHAR_BUDGET_FLOOR
          Values               \* the arguments that may be formatted
Dots == 3                      \* the length of "..."
Redacted == 4                  \* of a placeholder: <redacted>, <generator>, ...

ProperObject(heap, x) ==
  /\ x.type \in {"leaf", "lazy", "list", "slice", "dict", "data"}
  /\ x.width \in Nat /\ x.items \in Seq(DOMAIN heap)
  /\ x.type \in {"leaf", "lazy"} => x.items = <<>>
  /\ x.type \in {"dict", "data"} =>
       /\ DOMAIN x.keys = DOMAIN x.items
       /\ \A i \in DOMAIN x.keys : /\ x.keys[i].width \in Nat
                                   /\ x.keys[i].secret \in BOOLEAN /\ x.keys[i].readable \in BOOLEAN

ProperValue(q) ==
  /\ q.kind = "value" /\ q.root \in DOMAIN q.heap
  /\ q.secret \in BOOLEAN /\ q.redact \in BOOLEAN
  /\ q.limits \in [maxLen : Nat, maxItems : Nat, maxDepth : Nat]
  /\ \A a \in DOMAIN q.heap : ProperObject(q.heap, q.heap[a])

ASSUME BudgetIsNatural == Multiple \in Nat /\ Floor \in Nat
ASSUME ValuesAreProper == \A q \in Values : ProperValue(q)

AnyValue == asked \in Values /\ answer = Nothing

LesserOf(a, b) == IF a < b THEN a ELSE b
GreaterOf(a, b) == IF a > b THEN a ELSE b

(* _SafeRepr.__init__: the budget of one formatter; the calls of repr1 that *)
(* are on the stack are its frames.                                          *)
Formatter(limits) ==
  [status |-> "formatting", budget |-> GreaterOf(limits.maxLen * Multiple, Floor),
   truncated |-> FALSE, len |-> 0, work |-> 0, shown |-> {}, read |-> {}, frames |-> <<>>]

Elide(st) == [st EXCEPT !.truncated = TRUE, !.len = @ + Dots]
Placeholder(st) ==
  [st EXCEPT !.len = @ + Redacted, !.work = @ + Redacted, !.budget = @ - Redacted]

(* repr1 answers "..." for free once the budget is spent. *)
NeverSpent(st) == FALSE
Spent(st) == st.budget <= 0

(* The scalar handlers and _clamp_middle: a text clamped to max_len and     *)
(* charged against the budget.                                               *)
Charge(width, st, limits) ==
  LET cut == width > limits.maxLen
      put == IF cut THEN GreaterOf(limits.maxLen, Dots) ELSE width
  IN  [st EXCEPT !.truncated = @ \/ cut, !.len = @ + put,
                 !.work = @ + put, !.budget = @ - put]

Leaf(at, width, st, limits) ==
  [Charge(width, st, limits) EXCEPT !.shown = IF width > limits.maxLen THEN @ ELSE @ \union {at}]

(* A key of a dict is a value of its own; a field's name costs nothing. *)
Key(x, i, st, limits) ==
  IF x.type # "dict" THEN st
  ELSE IF Spent(st) THEN Elide(st) ELSE Charge(x.keys[i].width, st, limits)

(* An entry whose value may not be touched: one with a secret name, and a   *)
(* field that no __dict__ and no slot holds.                                 *)
Unreadable(x, i) == x.type = "data" /\ ~x.keys[i].readable
HiddenInDicts(x, i) == (x.type = "dict" /\ x.keys[i].secret) \/ Unreadable(x, i)
Hidden(x, i) ==
  (x.type \in {"dict", "data"} /\ x.keys[i].secret) \/ Unreadable(x, i)

(* Is the tree below this value elided for its depth? An empty container    *)
(* has nothing to elide; a dataclass is elided all the same.                 *)
TooDeep(x, level) ==
  level <= 0 /\ (x.type = "data" \/ (x.type \in {"list", "dict"} /\ x.items # <<>>))

(* The components of a slice are formatted at level 0, all three of them. *)
Width(x, limits) == IF x.type = "slice" THEN Len(x.items) ELSE LesserOf(Len(x.items), limits.maxItems)
Below(x, level) == IF x.type = "slice" THEN 0 ELSE level - 1

(* The start of repr1: what is elided or a leaf is formatted at once, a     *)
(* container is entered. What a handler is given counts as read.             *)
Repr1(q, at, level, st) ==
  LET x == q.heap[at]
      seen == [st EXCEPT !.read = @ \union {at}]
  IN  CASE Spent(st) -> Elide(st)
        [] ~Spent(st) /\ x.type = "lazy" -> Placeholder(seen)
        [] ~Spent(st) /\ x.type = "leaf" -> Leaf(at, x.width, seen, q.limits)
        [] OTHER -> IF TooDeep(x, level) THEN Elide(seen)
                    ELSE [seen EXCEPT !.len = @ + 2,
                                      !.frames = Append(@, [at |-> at, level |-> level, next |-> 1])]

(* format_arg: a secret argument is never handed to the formatter. *)
FormatArg(q) ==
  IF q.redact /\ q.secret
  THEN [Formatter(q.limits) EXCEPT !.status = "formatted", !.len = Redacted]
  ELSE Repr1(q, q.root, q.limits.maxDepth, Formatter(q.limits))

BeginValue == Answer("value", FormatArg(asked))

Formatting == asked.kind = "value" /\ answer # Nothing /\ answer.status = "formatting"
TopCall == answer.frames[Len(answer.frames)]

(* The next entry of the innermost container. *)
AfterItem(q, st, call) ==
  LET x == q.heap[call.at]
      moved == [st EXCEPT !.frames[Len(st.frames)].next = @ + 1]
      keyed == Key(x, call.next, moved, q.limits)
  IN  IF Hidden(x, call.next) THEN [keyed EXCEPT !.len = @ + Redacted]
      ELSE Repr1(q, x.items[call.next], Below(x, call.level), keyed)

FormatItem ==
  /\ Formatting /\ answer.frames # <<>>
  /\ TopCall.next <= Width(asked.heap[TopCall.at], asked.limits)
  /\ answer' = AfterItem(asked, answer, TopCall)
  /\ UNCHANGED asked

CloseContainer ==
  LET x == asked.heap[TopCall.at]
      closed == [answer EXCEPT !.frames = SubSeq(@, 1, Len(@) - 1)]
  IN  /\ Formatting /\ answer.frames # <<>> /\ TopCall.next > Width(x, asked.limits)
      /\ answer' = IF Len(x.items) > Width(x, asked.limits) THEN Elide(closed) ELSE closed
      /\ UNCHANGED asked

(* safe_repr: the whole text is clamped once more; what is raised on the    *)
(* way (recursion, a dict that another thread changes) gives a placeholder. *)
ReturnText ==
  /\ Formatting /\ answer.frames = <<>>
  /\ answer' = [answer EXCEPT !.status = "formatted",
                              !.truncated = @ \/ answer.len > asked.limits.maxLen,
                              !.len = LesserOf(@, asked.limits.maxLen)]
  /\ UNCHANGED asked

Unreprable ==
  /\ Formatting
  /\ answer' = [answer EXCEPT !.status = "formatted", !.truncated = TRUE, !.len = Redacted,
                              !.shown = {}, !.frames = <<>>]
  /\ UNCHANGED asked

FormatValue == BeginValue \/ FormatItem \/ CloseContainer \/ ReturnText \/ Unreprable

ValueSpec == AnyValue /\ [][FormatValue]_questionVars
-----------------------------------------------------------------------------
(* What is reached from the argument through the given entries of each      *)
(* object: it is in every set that has the argument and no entry leaves.     *)
Kept(q, entries, S) ==
  q.root \in S /\ \A b \in S : \A i \in entries[b] : q.heap[b].items[i] \in S
ReachedBy(q, entries) ==
  {a \in DOMAIN q.heap : \A S \in SUBSET DOMAIN q.heap : Kept(q, entries, S) => a \in S}

Secretive(x, i) == x.type \in {"dict", "data"} /\ x.keys[i].secret
PublicEntries(q) ==
  [a \in DOMAIN q.heap |-> {i \in DOMAIN q.heap[a].items : ~Secretive(q.heap[a], i)}]
VisibleEntries(q) ==
  [a \in DOMAIN q.heap |-> {i \in PublicEntries(q)[a] : ~Unreadable(q.heap[a], i)}]

(* What stands under a secret name is never read, at any depth and in any   *)
(* container: not the value of an argument, not an entry, not a field. What *)
(* is also reached under another name is not hidden by the secret one.       *)
SecretsUntouched ==
  Answered("value") =>
    /\ answer.read \subseteq ReachedBy(asked, PublicEntries(asked))
    /\ asked.secret /\ asked.redact => answer.read = {}

(* The work done on a value is bounded by its budget and one more leaf,     *)
(* whatever its shape, and an answer not marked as truncated shows every    *)
(* leaf it was allowed to show.                                              *)
BoundsAreTold ==
  Answered("value") =>
    /\ answer.work <= Formatter(asked.limits).budget + GreaterOf(asked.limits.maxLen, Redacted)
    /\ answer.status = "formatted" /\ ~answer.truncated /\ ~(asked.secret /\ asked.redact) =>
         \A a \in ReachedBy(asked, VisibleEntries(asked)) :
           asked.heap[a].type = "leaf" => a \in answer.shown
=============================================================================
