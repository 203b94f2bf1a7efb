-------------------------- MODULE NodeSession_proofs --------------------------
(***************************************************************************)
(* Proofs about NodeSession for any set of functions and any bounds:        *)
(* commands are settled by their own replies, user code never runs          *)
(* unobserved before the coroutine begins to collect, and the deltas of the *)
(* coverage polls add up.                                                   *)
(***************************************************************************)
EXTENDS NodeSession, TLAPS

(***************************************************************************)
(* Commands and replies.                                                     *)
(***************************************************************************)
\* At most one future is registered, that of the command awaited, and an
\* answer is there only while its command is.
CommandInv ==
    /\ nextId \in Nat
    /\ pending \subseteq {waiting} \ {0}
    /\ waiting = 0 => answer = NoAnswer
    /\ pending # {} => answer = NoAnswer
    /\ AnswersMatch

LEMMA CommandInit == Init => CommandInv
BY DEF Init, CommandInv, AnswersMatch, NoAnswer

\* Registering a future under a fresh id, or failing at once.
LEMMA SendKeepsCommands ==
    ASSUME CommandInv, NEW method, Send(method)
    PROVE  CommandInv'
<1>1. answer = NoAnswer /\ pending = {} /\ waiting' = nextId + 1 /\ nextId' = nextId + 1
  BY DEF CommandInv, Send, Idle
<1>2. CASE UNCHANGED answer /\ pending' = pending \cup {nextId'}
  BY <1>1, <1>2 DEF CommandInv, AnswersMatch, NoAnswer
<1>3. CASE answer' = Failed /\ UNCHANGED pending
  BY <1>1, <1>3 DEF CommandInv, AnswersMatch, NoAnswer, Failed
<1> QED BY <1>2, <1>3 DEF Send

LEMMA ConsumeKeepsCommands ==
    ASSUME CommandInv, Answered, Consume
    PROVE  CommandInv'
BY DEF CommandInv, Answered, Consume, AnswersMatch, NoAnswer

\* A step that settles or fails the awaited command, once it is registered.
LEMMA TaskKeepsCommands ==
    ASSUME CommandInv, Tasks \/ CommandTimeout \/ _stop
    PROVE  CommandInv'
<1>1. CASE _read_stderr
  BY <1>1 DEF CommandInv, AnswersMatch, _read_stderr, cdpVars
<1>2. CASE _watch_exit
  BY <1>2 DEF CommandInv, AnswersMatch, _watch_exit, cdpVars
<1>3. CASE _dispatch
  <2>1. UNCHANGED <<nextId, waiting>> /\ Settle(Head(replies))
    BY <1>3 DEF _dispatch
  <2> DEFINE reply == Head(replies)
  <2>2. CASE reply.id \in pending
    <3>1. pending' = pending \ {reply.id} /\ answer' = reply /\ reply.id = waiting
      BY <2>1, <2>2 DEF Settle, CommandInv
    <3>2. pending' = {} /\ waiting # 0
      BY <3>1, <2>2 DEF CommandInv
    <3> QED BY <2>1, <3>1, <3>2 DEF CommandInv, AnswersMatch
  <2>3. CASE reply.id \notin pending
    BY <2>1, <2>3 DEF Settle, CommandInv, AnswersMatch
  <2> QED BY <2>2, <2>3
<1>4. CASE RecvEnds
  <2>1. UNCHANGED <<nextId, waiting>>
    BY <1>4 DEF RecvEnds
  <2>2. CASE pending # {}
    <3>1. pending' = {} /\ answer' = Failed /\ waiting # 0
      BY <1>4, <2>2 DEF RecvEnds, CommandInv
    <3> QED BY <2>1, <3>1 DEF CommandInv, AnswersMatch, Failed
  <2>3. CASE pending = {}
    BY <1>4, <2>1, <2>3 DEF RecvEnds, CommandInv, AnswersMatch
  <2> QED BY <2>2, <2>3
<1>5. CASE CommandTimeout
  <2>1. pending' = {} /\ answer' = Failed /\ UNCHANGED <<nextId, waiting>> /\ waiting # 0
    BY <1>5 DEF CommandTimeout, CommandInv
  <2> QED BY <2>1 DEF CommandInv, AnswersMatch, Failed
<1>6. CASE _stop
  BY <1>6 DEF _stop, CommandInv, AnswersMatch
<1> QED BY <1>1, <1>2, <1>3, <1>4, <1>5, <1>6 DEF Tasks

LEMMA CommandStep == CommandInv /\ [Next]_vars => CommandInv'
<1> SUFFICES ASSUME CommandInv, [Next]_vars PROVE CommandInv'
  OBVIOUS
<1>1. CASE UNCHANGED vars
  BY <1>1 DEF vars, cdpVars, CommandInv, AnswersMatch
<1>2. CASE Environment
  BY <1>2 DEF Environment, Listen, UserCall, Wedge, Finish, LateError, Exit, Serve, cdpVars,
              CommandInv, AnswersMatch
<1>3. CASE AttachSend \/ CollectSend \/ PollSend \/ StopCoverageSend
  BY <1>3, SendKeepsCommands DEF AttachSend, CollectSend, PollSend, StopCoverageSend
<1>4. CASE AttachReply \/ CollectReply \/ PollReply \/ StopCoverageReply
  BY <1>4, ConsumeKeepsCommands DEF AttachReply, CollectReply, PollReply, StopCoverageReply
<1>5. CASE wait_for_listening \/ wait_for_done \/ Terminate \/ Terminated \/ Report
  BY <1>5 DEF wait_for_listening, wait_for_done, Terminate, Terminated, Report, cdpVars,
              CommandInv, AnswersMatch
<1>6. CASE Tasks \/ CommandTimeout \/ _stop
  BY <1>6, TaskKeepsCommands
<1> QED BY <1>1, <1>2, <1>3, <1>4, <1>5, <1>6 DEF Next, Main, Ended

(* For every run: a reply settles only the command it answers, never the one *)
(* that is awaited when it comes late (CDPClient._dispatch).                  *)
THEOREM RepliesSettleTheirCommand == Spec => []AnswersMatch
<1>1. Spec => []CommandInv
  BY CommandInit, CommandStep, PTL DEF Spec
<1>2. CommandInv => AnswersMatch
  BY DEF CommandInv
<1> QED BY <1>1, <1>2, PTL

(***************************************************************************)
(* Profiling from the first line of user code on.                            *)
(***************************************************************************)
\* The coroutine has begun to collect, and may have the profiler stopped.
Late == pc \in {"collect", "stopCoverage", "close", "terminate", "kill", "report", "ended"}

StartStep == IF mode = "sampling" THEN 4 ELSE 3

Methods == {"Runtime.enable", "Profiler.enable", "setSamplingInterval", "start", "release",
            "take", "stop", "stopCoverage"}
Requests == [id : Nat, method : Methods]
Replies == [id : Nat, ok : BOOLEAN, counts : [Fns -> Nat]]

\* What is on the socket, and that every id on it was given out.
ChannelInv ==
    /\ mode \in {"sampling", "coverage"} /\ step \in 1 .. 6
    /\ profiler \in BOOLEAN /\ calls \in [Fns -> Nat]
    /\ pc \in {"listen", "attach"} => step \in 1 .. StartStep + 1
    /\ requests \in Seq(Requests) /\ replies \in Seq(Replies)
    /\ \A i \in DOMAIN requests : requests[i].id \in 1 .. nextId
    /\ \A i \in DOMAIN replies : replies[i].id \in 1 .. nextId
    /\ pc = "listen" => step = 1 /\ waiting = 0 /\ requests = <<>> /\ replies = <<>>

\* Until it collects: no stop is on its way, the pause is released only with
\* the profiler on, and the coroutine goes past the start only when V8 has said
\* that it started. Ids tell the awaited request and reply from old ones.
StartInv ==
    /\ proc \in {"running", "held"} => profiler
    /\ \A i \in DOMAIN requests : requests[i].method \notin {"stop", "stopCoverage"}
    /\ \A i \in DOMAIN requests : requests[i].method = "release" => profiler
    /\ pc \in {"wait", "poll"} => profiler
    /\ pc = "attach" /\ step > StartStep => profiler
    /\ pc = "attach" /\ step = StartStep =>
         /\ \A i \in DOMAIN requests :
              requests[i].id = waiting => requests[i].method = "start"
         /\ \A i \in DOMAIN replies :
              replies[i].id = waiting /\ replies[i].ok => profiler
         /\ answer # NoAnswer /\ answer.ok => profiler

ObservedInv == CommandInv /\ ChannelInv /\ (~Late => StartInv)

LEMMA ObservedInit == Init => ObservedInv
<1> SUFFICES ASSUME Init PROVE ChannelInv /\ StartInv
  BY CommandInit DEF ObservedInv
<1>1. calls \in [Fns -> Nat]
  BY DEF Init, Zero
<1>2. 1 \in 1 .. StartStep + 1
  BY DEF StartStep
<1>3. requests = <<>> /\ replies = <<>> /\ answer = NoAnswer /\ step = 1 /\ profiler = FALSE
  BY DEF Init
<1>4. ChannelInv
  <2>1. requests \in Seq(Requests) /\ replies \in Seq(Replies)
    BY <1>3
  <2>2. DOMAIN requests = {} /\ DOMAIN replies = {}
    BY <1>3
  <2>3. mode \in {"sampling", "coverage"} /\ waiting = 0 /\ profiler \in BOOLEAN
    BY DEF Init
  <2> QED BY <1>1, <1>2, <1>3, <2>1, <2>2, <2>3 DEF ChannelInv
<1>5. StartInv
  BY <1>3 DEF Init, StartInv
<1> QED BY <1>4, <1>5

\* The process and the readers, while nothing of the socket changes.
LEMMA OutsideKeeps ==
    ASSUME ObservedInv,
           Listen \/ (\E f \in Fns : UserCall(f)) \/ Wedge \/ Finish \/ LateError
             \/ _read_stderr \/ _watch_exit
    PROVE  ChannelInv' /\ (~Late' => StartInv')
<1>1. /\ UNCHANGED <<profiler, requests, replies, nextId, waiting, answer, mode, pc, step>>
      /\ proc' \in {"running", "held"} => proc \in {"running", "held"}
  BY DEF Listen, UserCall, Wedge, Finish, LateError, _read_stderr, _watch_exit, cdpVars,
         mainVars, procVars
<1>2. calls' \in [Fns -> Nat]
  BY DEF ObservedInv, ChannelInv, Listen, UserCall, Wedge, Finish, LateError, _read_stderr,
         _watch_exit, procVars
<1> QED BY <1>1, <1>2 DEF ObservedInv, ChannelInv, StartInv, Late, StartStep

LEMMA ExitKeeps ==
    ASSUME ObservedInv, Exit
    PROVE  ChannelInv' /\ (~Late' => StartInv')
<1>1. /\ UNCHANGED <<profiler, replies, nextId, waiting, answer, mode, pc, step, calls>>
      /\ proc' = "exited" /\ requests' = <<>>
  BY DEF Exit, Die, cdpVars, mainVars
<1> QED BY <1>1 DEF ObservedInv, ChannelInv, StartInv, Late, StartStep

\* V8 serves the oldest command: a start turns the profiler on before its reply
\* is sent, and nothing turns it off before the coroutine collects.
LEMMA ServeKeeps ==
    ASSUME ObservedInv, Serve
    PROVE  ChannelInv' /\ (~Late' => StartInv')
<1> DEFINE c == Head(requests)
<1>1. /\ UNCHANGED <<nextId, waiting, answer, mode, pc, step, calls>>
      /\ requests # <<>> /\ requests' = Tail(requests)
  BY DEF Serve, cdpVars, mainVars
<1>2. /\ requests \in Seq(Requests) /\ c = requests[1] /\ 1 \in DOMAIN requests
      /\ \A i \in DOMAIN requests' : i + 1 \in DOMAIN requests /\ requests'[i] = requests[i + 1]
      /\ requests' \in Seq(Requests)
  BY <1>1 DEF ObservedInv, ChannelInv
<1>3. PICK r \in Replies :
        /\ r.id = c.id /\ replies' = Append(replies, r)
        /\ \/ ~r.ok /\ UNCHANGED <<proc, profiler>>
           \/ /\ profiler' = CASE c.method = "start" -> TRUE
                               [] c.method \in {"stop", "stopCoverage"} -> FALSE
                               [] OTHER -> profiler
              /\ proc' = IF c.method = "release" /\ proc = "paused" THEN "running" ELSE proc
  <2>1. Zero \in [Fns -> Nat] /\ calls \in [Fns -> Nat] /\ c.id \in Nat
    BY <1>2 DEF ObservedInv, ChannelInv, Zero, Requests
  <2>2. CASE replies' = Append(replies, [id |-> c.id, ok |-> FALSE, counts |-> Zero])
              /\ UNCHANGED <<proc, profiler>>
    <3>1. [id |-> c.id, ok |-> FALSE, counts |-> Zero] \in Replies
      BY <2>1 DEF Replies
    <3> WITNESS [id |-> c.id, ok |-> FALSE, counts |-> Zero] \in Replies
    <3> QED BY <2>2
  <2>3. CASE /\ profiler' = CASE c.method = "start" -> TRUE
                             [] c.method \in {"stop", "stopCoverage"} -> FALSE
                             [] OTHER -> profiler
             /\ proc' = IF c.method = "release" /\ proc = "paused" THEN "running" ELSE proc
             /\ \E seen \in {Zero, calls} :
                  replies' = Append(replies, [id |-> c.id, ok |-> TRUE, counts |-> seen])
    <3>1. PICK seen \in {Zero, calls} :
            replies' = Append(replies, [id |-> c.id, ok |-> TRUE, counts |-> seen])
      BY <2>3
    <3>2. [id |-> c.id, ok |-> TRUE, counts |-> seen] \in Replies
      BY <2>1 DEF Replies
    <3> WITNESS [id |-> c.id, ok |-> TRUE, counts |-> seen] \in Replies
    <3> QED BY <2>3, <3>1
  <2> QED BY <2>2, <2>3 DEF Serve
<1>4. /\ \A i \in DOMAIN replies' :
           (i \in DOMAIN replies /\ replies'[i] = replies[i]) \/ replies'[i] = r
      /\ replies' \in Seq(Replies)
  BY <1>3 DEF ObservedInv, ChannelInv
<1>5. ChannelInv'
  <2>1. profiler' \in BOOLEAN
    BY DEF Serve, ObservedInv, ChannelInv
  <2> QED BY <1>1, <1>2, <1>3, <1>4, <2>1 DEF ObservedInv, ChannelInv, StartStep
<1>6. ASSUME ~Late' PROVE StartInv'
  <2>1. ~Late /\ StartInv
    BY <1>1, <1>6 DEF Late, ObservedInv
  <2>2. c.method \notin {"stop", "stopCoverage"}
    BY <1>2, <2>1 DEF StartInv
  <2>3. /\ profiler => profiler'
        /\ c.method = "start" /\ r.ok => profiler'
        /\ proc' \in {"running", "held"} => \/ proc \in {"running", "held"}
                                             \/ c.method = "release"
    BY <1>3, <2>2 DEF Serve, Replies, ObservedInv, ChannelInv
  <2>4. c.method = "release" => profiler
    BY <1>2, <2>1 DEF StartInv
  <2>5. pc = "attach" /\ step = StartStep /\ r.id = waiting /\ r.ok => profiler'
    BY <1>2, <1>3, <2>1, <2>3 DEF StartInv
  <2> QED BY <1>1, <1>2, <1>3, <1>4, <2>1, <2>3, <2>4, <2>5 DEF StartInv, StartStep
<1> QED BY <1>5, <1>6

\* The receive loop hands on a reply, or fails the command awaited.
LEMMA SettleKeeps ==
    ASSUME ObservedInv, _dispatch \/ RecvEnds \/ CommandTimeout
    PROVE  ChannelInv' /\ (~Late' => StartInv')
<1>1. UNCHANGED <<profiler, requests, nextId, waiting, mode, pc, step, calls, proc>>
  BY DEF _dispatch, RecvEnds, CommandTimeout, mainVars, procVars
<1>2. /\ replies' \in Seq(Replies)
      /\ \A i \in DOMAIN replies' : \E j \in DOMAIN replies : replies'[i] = replies[j]
      /\ replies = <<>> => replies' = <<>>
  <2>1. CASE _dispatch
    <3>1. replies \in Seq(Replies) /\ replies # <<>> /\ replies' = Tail(replies)
      BY <2>1 DEF _dispatch, ObservedInv, ChannelInv
    <3>2. \A i \in DOMAIN replies' : i + 1 \in DOMAIN replies /\ replies'[i] = replies[i + 1]
      BY <3>1
    <3> QED BY <3>1, <3>2
  <2>2. CASE RecvEnds \/ CommandTimeout
    BY <2>2 DEF RecvEnds, CommandTimeout, ObservedInv, ChannelInv
  <2> QED BY <2>1, <2>2
<1>3. \/ UNCHANGED answer
      \/ answer' = Failed
      \/ \E i \in DOMAIN replies : answer' = replies[i] /\ replies[i].id = waiting
  <2>1. CASE _dispatch
    <3>1. replies \in Seq(Replies) /\ replies # <<>>
      BY <2>1 DEF _dispatch, ObservedInv, ChannelInv
    <3>2. Head(replies) = replies[1] /\ 1 \in DOMAIN replies
      BY <3>1
    <3>3. pending \subseteq {waiting}
      BY DEF ObservedInv, CommandInv
    <3> QED BY <2>1, <3>2, <3>3 DEF _dispatch, Settle
  <2>2. CASE RecvEnds \/ CommandTimeout
    BY <2>2 DEF RecvEnds, CommandTimeout
  <2> QED BY <2>1, <2>2
<1>4. ChannelInv'
  BY <1>1, <1>2 DEF ObservedInv, ChannelInv, StartStep
<1>5. ASSUME ~Late' PROVE StartInv'
  <2>1. StartInv
    BY <1>1, <1>5 DEF Late, ObservedInv
  <2>2. StartStep' = StartStep
    BY <1>1 DEF StartStep
  <2>3. pc = "attach" /\ step = StartStep /\ answer' # NoAnswer /\ answer'.ok => profiler
    BY <1>3, <2>1 DEF StartInv, Failed
  <2> QED BY <1>1, <1>2, <2>1, <2>2, <2>3 DEF StartInv, NoAnswer, Zero
<1> QED BY <1>4, <1>5

\* A command is sent under an id that nothing on the socket has.
LEMMA SendKeeps ==
    ASSUME ObservedInv, AttachSend \/ CollectSend \/ PollSend \/ StopCoverageSend
    PROVE  ChannelInv' /\ (~Late' => StartInv')
<1>1. PICK method \in Methods :
        /\ Send(method)
        /\ pc = "attach" => method = Prologue(mode)[step]
        /\ pc = "poll" => method = "take"
        /\ pc \in {"attach", "poll", "collect", "stopCoverage"}
  <2>1. CASE AttachSend
    <3>1. mode \in {"sampling", "coverage"} /\ step \in 1 .. StartStep + 1
      BY <2>1 DEF AttachSend, ObservedInv, ChannelInv
    <3>2. Prologue(mode)[step] \in Methods
      <4>1. CASE mode = "sampling"
        <5>1. step \in {1, 2, 3, 4, 5}
          BY <3>1, <4>1 DEF StartStep
        <5>2. Prologue(mode) = <<"Runtime.enable", "Profiler.enable", "setSamplingInterval",
                                 "start", "release">>
          BY <4>1 DEF Prologue
        <5> QED BY <5>1, <5>2 DEF Methods
      <4>2. CASE mode = "coverage"
        <5>1. step \in {1, 2, 3, 4}
          BY <3>1, <4>2 DEF StartStep
        <5>2. Prologue(mode) = <<"Runtime.enable", "Profiler.enable", "start", "release">>
          BY <4>2 DEF Prologue
        <5> QED BY <5>1, <5>2 DEF Methods
      <4> QED BY <3>1, <4>1, <4>2
    <3>3. pc = "attach" /\ Send(Prologue(mode)[step])
      BY <2>1 DEF AttachSend
    <3> WITNESS Prologue(mode)[step] \in Methods
    <3> QED BY <3>3
  <2>2. CASE CollectSend
    <3>1. pc = "collect" /\ Send("stop")
      BY <2>2 DEF CollectSend
    <3>2. "stop" \in Methods
      BY DEF Methods
    <3> WITNESS "stop" \in Methods
    <3> QED BY <3>1
  <2>3. CASE PollSend
    <3>1. pc = "poll" /\ Send("take")
      BY <2>3 DEF PollSend
    <3>2. "take" \in Methods
      BY DEF Methods
    <3> WITNESS "take" \in Methods
    <3> QED BY <3>1
  <2>4. CASE StopCoverageSend
    <3>1. pc = "stopCoverage" /\ Send("stopCoverage")
      BY <2>4 DEF StopCoverageSend
    <3>2. "stopCoverage" \in Methods
      BY DEF Methods
    <3> WITNESS "stopCoverage" \in Methods
    <3> QED BY <3>1
  <2> QED BY <2>1, <2>2, <2>3, <2>4
<1>2. /\ UNCHANGED <<profiler, calls, proc, replies, mode, pc, step>>
      /\ nextId' = nextId + 1 /\ waiting' = nextId + 1 /\ nextId \in Nat
      /\ answer' \in {NoAnswer, Failed}
  BY <1>1 DEF Send, procVars, mainVars, Idle, ObservedInv, CommandInv
<1> DEFINE command == [id |-> nextId + 1, method |-> method]
<1>3. /\ requests \in Seq(Requests) /\ command \in Requests
      /\ requests' \in {requests, Append(requests, command)}
  BY <1>1, <1>2 DEF Send, ObservedInv, ChannelInv, Requests
<1>4. /\ requests' \in Seq(Requests)
      /\ \A i \in DOMAIN requests' :
           (i \in DOMAIN requests /\ requests'[i] = requests[i]) \/ requests'[i] = command
  BY <1>3
<1>5. ChannelInv'
  <2>1. pc # "listen"
    BY <1>1
  <2>2. command.id \in 1 .. nextId'
    BY <1>2
  <2> QED BY <1>2, <1>4, <2>1, <2>2 DEF ObservedInv, ChannelInv, StartStep
<1>6. ASSUME ~Late' PROVE StartInv'
  <2>1. StartInv /\ pc \in {"attach", "poll"}
    BY <1>1, <1>2, <1>6 DEF Late, ObservedInv
  <2>2. StartStep' = StartStep /\ step \in 1 .. 6
    BY <1>2 DEF StartStep, ObservedInv, ChannelInv
  <2>3. /\ method \notin {"stop", "stopCoverage"}
        /\ method = "release" => pc = "attach" /\ step > StartStep
        /\ pc = "attach" /\ step = StartStep => method = "start"
    BY <1>1, <2>1 DEF Prologue, StartStep, ObservedInv, ChannelInv
  <2>4. /\ \A i \in DOMAIN requests : requests[i].id # waiting'
        /\ \A i \in DOMAIN replies : replies[i].id # waiting'
    BY <1>2 DEF ObservedInv, ChannelInv
  <2>5. ~(answer' # NoAnswer /\ answer'.ok)
    BY <1>2 DEF Failed, NoAnswer
  <2>6. NoAnswer' = NoAnswer
    BY DEF NoAnswer, Zero
  <2> QED BY <1>2, <1>4, <2>1, <2>2, <2>3, <2>4, <2>5, <2>6 DEF StartInv
<1> QED BY <1>5, <1>6

\* The coroutine goes on: past a command, past the wait, or to the end.
LEMMA CoroutineKeeps ==
    ASSUME ObservedInv,
           \/ AttachReply \/ CollectReply \/ PollReply \/ StopCoverageReply
           \/ wait_for_listening \/ wait_for_done \/ _stop \/ Terminate \/ Terminated \/ Report
    PROVE  ChannelInv' /\ (~Late' => StartInv')
<1>1. UNCHANGED <<profiler, calls, nextId, mode>>
  BY DEF AttachReply, CollectReply, PollReply, StopCoverageReply, Consume, wait_for_listening,
         wait_for_done, _stop, Terminate, Terminated, Report, Die, procVars, cdpVars
<1>2. StartStep' = StartStep /\ StartStep \in {3, 4} /\ Len(Prologue(mode)) = StartStep + 1
  BY <1>1 DEF StartStep, Prologue, ObservedInv, ChannelInv
<1>3. CASE AttachReply
  <2>1. /\ UNCHANGED <<proc, requests, replies>> /\ waiting' = 0 /\ answer' = NoAnswer
        /\ pc = "attach" /\ answer # NoAnswer
    BY <1>3 DEF AttachReply, Answered, Consume, procVars
  <2>2. CASE pc' = "close"
    BY <1>1, <1>2, <1>3, <2>1, <2>2 DEF AttachReply, ObservedInv, ChannelInv, Late
  <2>3. CASE pc' # "close"
    <3>1. /\ answer.ok /\ step' = step + 1 /\ step \in 1 .. StartStep + 1
          /\ pc' = IF step = StartStep + 1 THEN "wait" ELSE "attach"
      BY <1>2, <1>3, <2>1, <2>3 DEF AttachReply, ObservedInv, ChannelInv
    <3>2. ChannelInv'
      BY <1>1, <1>2, <2>1, <3>1 DEF ObservedInv, ChannelInv
    <3>3. StartInv
      BY <2>1 DEF ObservedInv, Late
    <3>4. step >= StartStep => profiler
      BY <1>2, <2>1, <3>1, <3>3 DEF StartInv
    <3>5. \A i \in DOMAIN requests : requests[i].id # 0
      BY DEF ObservedInv, ChannelInv
    <3>6. \A i \in DOMAIN replies : replies[i].id # 0
      BY DEF ObservedInv, ChannelInv
    <3>7. NoAnswer' = NoAnswer
      BY DEF NoAnswer, Zero
    <3> QED BY <1>1, <1>2, <2>1, <3>1, <3>2, <3>3, <3>4, <3>5, <3>6, <3>7 DEF StartInv
  <2> QED BY <2>2, <2>3
<1>4. CASE CollectReply \/ StopCoverageReply
  BY <1>1, <1>2, <1>4 DEF CollectReply, StopCoverageReply, Consume, ObservedInv, ChannelInv, Late
<1>5. CASE PollReply
  <2>1. /\ UNCHANGED <<proc, requests, replies, step>> /\ pc = "poll"
        /\ pc' \in {"wait", "stopCoverage", "close"}
    BY <1>5 DEF PollReply, Consume, procVars, AfterPoll
  <2> QED BY <1>1, <1>2, <2>1 DEF ObservedInv, ChannelInv, StartInv, Late
<1>6. CASE wait_for_listening
  <2>1. /\ UNCHANGED <<proc, requests, replies, step, waiting, answer>> /\ pc = "listen"
        /\ pc' \in {"attach", "terminate"}
    BY <1>6 DEF wait_for_listening, procVars, cdpVars
  <2>2. answer = NoAnswer /\ step = 1 /\ requests = <<>> /\ replies = <<>>
    BY <2>1 DEF ObservedInv, ChannelInv, CommandInv
  <2>3. NoAnswer' = NoAnswer
    BY DEF NoAnswer, Zero
  <2> QED BY <1>1, <1>2, <2>1, <2>2, <2>3 DEF ObservedInv, ChannelInv, StartInv, Late
<1>7. CASE wait_for_done
  <2>1. /\ UNCHANGED <<proc, requests, replies, step, waiting, answer>> /\ pc = "wait"
        /\ pc' \in {"collect", "poll"}
    BY <1>7 DEF wait_for_done, procVars, cdpVars
  <2> QED BY <1>1, <1>2, <2>1 DEF ObservedInv, ChannelInv, StartInv, Late
<1>8. CASE _stop \/ Terminated \/ Report \/ Terminate
  <2>1. /\ UNCHANGED step /\ pc' \in {"terminate", "kill", "report", "ended"}
        /\ requests' \in {requests, <<>>} /\ replies' \in {replies, <<>>}
    BY <1>8 DEF _stop, Terminated, Report, Terminate, Die
  <2>2. /\ requests' \in Seq(Requests) /\ replies' \in Seq(Replies)
        /\ \A i \in DOMAIN requests' : requests'[i].id \in 1 .. nextId
        /\ \A i \in DOMAIN replies' : replies'[i].id \in 1 .. nextId
    <3>1. <<>> \in Seq(Requests) /\ <<>> \in Seq(Replies) /\ DOMAIN <<>> = {}
      OBVIOUS
    <3> QED BY <2>1, <3>1 DEF ObservedInv, ChannelInv
  <2> QED BY <1>1, <1>2, <2>1, <2>2 DEF ObservedInv, ChannelInv, Late
<1> QED BY <1>3, <1>4, <1>5, <1>6, <1>7, <1>8

LEMMA ObservedStep == ObservedInv /\ [Next]_vars => ObservedInv'
<1> SUFFICES ASSUME ObservedInv, [Next]_vars PROVE ObservedInv'
  OBVIOUS
<1>1. CommandInv'
  BY CommandStep DEF ObservedInv
<1>2. ChannelInv' /\ (~Late' => StartInv')
  <2>1. CASE UNCHANGED vars
    BY <2>1 DEF vars, procVars, cdpVars, mainVars, ObservedInv, ChannelInv, StartInv, StartStep, Late,
                NoAnswer, Zero
  <2>2. CASE Environment
    BY <2>2, OutsideKeeps, ExitKeeps, ServeKeeps DEF Environment
  <2>3. CASE Tasks
    BY <2>3, OutsideKeeps, SettleKeeps DEF Tasks
  <2>4. CASE Main
    BY <2>4, SendKeeps, SettleKeeps, CoroutineKeeps DEF Main
  <2>5. CASE Ended
    BY <2>1, <2>5 DEF Ended
  <2> QED BY <2>1, <2>2, <2>3, <2>4, <2>5 DEF Next
<1> QED BY <1>1, <1>2 DEF ObservedInv

(* For any functions, calls and polls, and whatever V8 answers or leaves      *)
(* unanswered: user code runs only while V8 collects, until the coroutine     *)
(* collects itself (the prologue of run_sampling and run_coverage).            *)
THEOREM UserCodeIsObserved == Spec => []NothingUnseen
<1>1. Spec => []ObservedInv
  BY ObservedInit, ObservedStep, PTL DEF Spec
<1>2. ObservedInv => NothingUnseen
  BY DEF ObservedInv, StartInv, NothingUnseen, Late
<1> QED BY <1>1, <1>2, PTL

(***************************************************************************)
(* The polls add up.                                                         *)
(***************************************************************************)
AtLeast(c, d) == \A f \in Fns : c[f] >= d[f]

\* Counts that V8 took after the baseline was taken and, once the coroutine
\* knows of DONE, after DONE.
Recent(c) ==
    /\ c \in [Fns -> Nat] /\ AtLeast(c, baseline) /\ AtLeast(calls, c)
    /\ outcome = "done" => AtLeast(c, atDone)

CountInv ==
    /\ calls \in [Fns -> Nat] /\ baseline \in [Fns -> Nat]
    /\ pc # "ended" => reported \in [Fns -> Nat]
    /\ atDone \in [Fns -> Nat]
    /\ AtLeast(calls, baseline) /\ AtLeast(calls, atDone)
    /\ pc \in {"listen", "attach", "wait", "poll"} => reported = baseline

\* Whoever knows of DONE, by flag or by the line on its way, knows that user
\* code has been evaluated; the coroutine waits with no command under way.
PhaseInv ==
    /\ stderr \in Seq({"listening", "error", "done"})
    /\ done \/ outcome = "done" \/ (\E i \in DOMAIN stderr : stderr[i] = "done")
         => proc \in {"held", "exited"}
    /\ pc \in {"listen", "wait"} => waiting = 0
    /\ pc = "collect" => mode = "sampling"
    /\ pc = "poll" => mode = "coverage"
    /\ mode = "coverage" => \A i \in DOMAIN requests : requests[i].method # "stop"

\* The answer awaited, received or still on the socket, is recent; late replies
\* to commands that timed out need not be.
RecentInv ==
    mode = "coverage" =>
      /\ \A i \in DOMAIN replies :
           replies[i].id = waiting /\ replies[i].ok => Recent(replies[i].counts)
      /\ answer.ok => Recent(answer.counts)

PollInv == ObservedInv /\ CountInv /\ PhaseInv /\ RecentInv

LEMMA PollInit == Init => PollInv
<1> SUFFICES ASSUME Init PROVE CountInv /\ PhaseInv /\ RecentInv
  BY ObservedInit DEF PollInv
<1>1. CountInv
  BY DEF Init, CountInv, AtLeast, Zero
<1>2. stderr = <<>> /\ requests = <<>> /\ replies = <<>>
  BY DEF Init
<1>3. PhaseInv
  BY <1>2 DEF Init, PhaseInv
<1>4. RecentInv
  BY <1>2 DEF Init, RecentInv, NoAnswer
<1> QED BY <1>1, <1>3, <1>4

\* Calls only grow; DONE is written once, before anyone knows of it.
LEMMA StaysRecent ==
    ASSUME NEW c, Recent(c), CountInv, calls' \in [Fns -> Nat],
           AtLeast(calls', calls), UNCHANGED <<baseline, outcome>>,
           outcome = "done" => UNCHANGED atDone
    PROVE  Recent(c)'
BY DEF Recent, AtLeast, CountInv

LEMMA RepliesStayRecent ==
    ASSUME PollInv, calls' \in [Fns -> Nat],
           AtLeast(calls', calls), UNCHANGED <<baseline, outcome, replies, waiting, answer, mode>>,
           outcome = "done" => UNCHANGED atDone
    PROVE  RecentInv'
<1> SUFFICES ASSUME mode = "coverage"
             PROVE  /\ \A i \in DOMAIN replies :
                         replies[i].id = waiting /\ replies[i].ok => Recent(replies[i].counts)'
                    /\ answer.ok => Recent(answer.counts)'
  BY DEF RecentInv, Recent
<1>1. CountInv /\ RecentInv
  BY DEF PollInv
<1> QED BY <1>1, StaysRecent DEF RecentInv

\* The process makes calls, throws, writes and dies.
LEMMA ProcessKeepsPolls ==
    ASSUME PollInv,
           Listen \/ (\E f \in Fns : UserCall(f)) \/ Wedge \/ Finish \/ LateError \/ Exit
    PROVE  CountInv' /\ PhaseInv' /\ RecentInv'
<1>1. /\ UNCHANGED <<replies, waiting, answer, mode, pc, baseline, reported, outcome, done>>
      /\ requests' \in {requests, <<>>}
  BY DEF Listen, UserCall, Wedge, Finish, LateError, Exit, Die, cdpVars, mainVars, sessVars
<1>2. CountInv /\ PhaseInv
  BY DEF PollInv
<1>3. /\ calls' \in [Fns -> Nat] /\ AtLeast(calls', calls)
      /\ atDone' \in {atDone, calls}
      /\ proc = "running" \/ UNCHANGED atDone
  <2>1. CASE \E f \in Fns : UserCall(f)
    BY <1>2, <2>1 DEF UserCall, CountInv, AtLeast
  <2>2. CASE Listen \/ Wedge \/ Finish \/ LateError \/ Exit
    BY <1>2, <2>2 DEF Listen, Wedge, Finish, LateError, Exit, Die, procVars, CountInv, AtLeast
  <2> QED BY <2>1, <2>2
<1>4. outcome = "done" => UNCHANGED atDone
  BY <1>2, <1>3 DEF PhaseInv
<1>5. CountInv'
  BY <1>1, <1>2, <1>3 DEF CountInv, AtLeast
<1>6. PhaseInv'
  <2>1. /\ stderr' \in Seq({"listening", "error", "done"})
        /\ \A i \in DOMAIN stderr' : stderr'[i] = "done" =>
             \/ proc = "running" /\ proc' = "held"
             \/ \E j \in DOMAIN stderr : stderr[j] = "done"
    <3>1. stderr \in Seq({"listening", "error", "done"})
      BY <1>2 DEF PhaseInv
    <3>2. CASE Listen
      BY <3>1, <3>2 DEF Listen
    <3>3. CASE Finish
      <4>1. PICK s \in {<<"done">>, <<"error", "done">>} : stderr' = stderr \o s
        BY <3>3 DEF Finish
      <4>2. s \in Seq({"listening", "error", "done"})
        BY <4>1
      <4>3. /\ stderr' \in Seq({"listening", "error", "done"})
            /\ \A i \in DOMAIN stderr' : i \in DOMAIN stderr => stderr'[i] = stderr[i]
        BY <3>1, <4>1, <4>2
      <4> QED BY <3>3, <4>3 DEF Finish
    <3>4. CASE LateError
      BY <3>1, <3>4 DEF LateError
    <3>5. CASE (\E f \in Fns : UserCall(f)) \/ Wedge \/ Exit
      BY <3>1, <3>5 DEF UserCall, Wedge, Exit, Die
    <3> QED BY <3>2, <3>3, <3>4, <3>5
  <2>2. proc \in {"held", "exited"} => proc' \in {"held", "exited"}
    BY DEF Listen, UserCall, Wedge, Finish, LateError, Exit, Die, procVars
  <2>3. mode = "coverage" => \A i \in DOMAIN requests' : requests'[i].method # "stop"
    BY <1>1, <1>2 DEF PhaseInv
  <2> QED BY <1>1, <1>2, <2>1, <2>2, <2>3 DEF PhaseInv
<1>7. RecentInv'
  BY <1>1, <1>3, <1>4, RepliesStayRecent
<1> QED BY <1>5, <1>6, <1>7

\* V8 answers with the counts of now.
LEMMA ServeKeepsPolls ==
    ASSUME PollInv, Serve
    PROVE  CountInv' /\ PhaseInv' /\ RecentInv'
<1> DEFINE c == Head(requests)
<1>1. /\ UNCHANGED <<waiting, answer, mode, pc, baseline, reported, outcome, done, stderr,
                     calls, atDone>>
      /\ requests # <<>> /\ requests' = Tail(requests)
      /\ proc \in {"held", "exited"} => proc' \in {"held", "exited"}
  BY DEF Serve, cdpVars, mainVars, sessVars
<1>2. CountInv /\ PhaseInv /\ RecentInv /\ requests \in Seq(Requests) /\ replies \in Seq(Replies)
  BY DEF PollInv, ObservedInv, ChannelInv
<1>3. /\ c = requests[1] /\ 1 \in DOMAIN requests
      /\ \A i \in DOMAIN requests' : i + 1 \in DOMAIN requests /\ requests'[i] = requests[i + 1]
  BY <1>1, <1>2
<1>4. CountInv'
  BY <1>1, <1>2 DEF CountInv, AtLeast
<1>5. PhaseInv'
  BY <1>1, <1>2, <1>3 DEF PhaseInv
<1>6. ASSUME mode = "coverage" PROVE RecentInv'
  <2>1. c.method # "stop"
    BY <1>2, <1>3, <1>6 DEF PhaseInv
  <2>2. PICK r : replies' = Append(replies, r) /\ (r.ok => r.counts = calls)
    <3>1. CASE replies' = Append(replies, [id |-> c.id, ok |-> FALSE, counts |-> Zero])
      BY <3>1
    <3>2. CASE \E seen \in IF c.method = "stop" THEN {Zero, calls} ELSE {calls} :
                 replies' = Append(replies, [id |-> c.id, ok |-> TRUE, counts |-> seen])
      BY <2>1, <3>2
    <3> QED BY <3>1, <3>2 DEF Serve
  <2>3. \A i \in DOMAIN replies' :
          (i \in DOMAIN replies /\ replies'[i] = replies[i]) \/ replies'[i] = r
    BY <1>2, <2>2
  <2>4. Recent(calls)
    BY <1>2 DEF Recent, CountInv, AtLeast
  <2>5. ASSUME NEW i \in DOMAIN replies', replies'[i].id = waiting, replies'[i].ok
        PROVE  Recent(replies'[i].counts)
    BY <1>2, <1>6, <2>2, <2>3, <2>4, <2>5 DEF RecentInv
  <2>6. answer.ok => Recent(answer.counts)
    BY <1>2, <1>6 DEF RecentInv
  <2> QED BY <1>1, <2>5, <2>6 DEF RecentInv, Recent, AtLeast
<1>7. mode # "coverage" => RecentInv'
  BY <1>1 DEF RecentInv
<1> QED BY <1>4, <1>5, <1>6, <1>7

\* The readers, the receive loop and the time-out of a command.
LEMMA TasksKeepPolls ==
    ASSUME PollInv, Tasks \/ CommandTimeout
    PROVE  CountInv' /\ PhaseInv' /\ RecentInv'
<1>1. /\ UNCHANGED <<requests, waiting, mode, pc, baseline, reported, outcome, calls, atDone, proc>>
  BY DEF Tasks, _read_stderr, _watch_exit, _dispatch, RecvEnds, CommandTimeout, cdpVars, mainVars,
         procVars
<1>2. CountInv /\ PhaseInv /\ RecentInv /\ replies \in Seq(Replies) /\ pending \subseteq {waiting}
  BY DEF PollInv, ObservedInv, ChannelInv, CommandInv
<1>3. CountInv'
  BY <1>1, <1>2 DEF CountInv, AtLeast
<1>4. PhaseInv'
  <2>1. CASE _read_stderr
    <3>1. stderr \in Seq({"listening", "error", "done"}) /\ stderr # <<>> /\ stderr' = Tail(stderr)
      BY <1>2, <2>1 DEF _read_stderr, PhaseInv
    <3>2. /\ stderr' \in Seq({"listening", "error", "done"})
          /\ \A i \in DOMAIN stderr' : i + 1 \in DOMAIN stderr /\ stderr'[i] = stderr[i + 1]
          /\ Head(stderr) = stderr[1] /\ 1 \in DOMAIN stderr
      BY <3>1
    <3>3. done' => done \/ stderr[1] = "done"
      BY <2>1, <3>2 DEF _read_stderr, _handle_stderr_line
    <3> QED BY <1>1, <1>2, <3>2, <3>3 DEF PhaseInv
  <2>2. CASE _watch_exit \/ _dispatch \/ RecvEnds \/ CommandTimeout
    <3>1. UNCHANGED <<stderr, done>>
      BY <2>2 DEF _watch_exit, _dispatch, RecvEnds, CommandTimeout, sessVars
    <3> QED BY <1>1, <1>2, <3>1 DEF PhaseInv
  <2> QED BY <2>1, <2>2 DEF Tasks
<1>5. \A i \in DOMAIN replies' : \E j \in DOMAIN replies : replies'[i] = replies[j]
  <2>1. CASE _dispatch
    <3>1. replies # <<>> /\ replies' = Tail(replies)
      BY <2>1 DEF _dispatch
    <3>2. \A i \in DOMAIN replies' : i + 1 \in DOMAIN replies /\ replies'[i] = replies[i + 1]
      BY <1>2, <3>1
    <3> QED BY <3>2
  <2>2. CASE _read_stderr \/ _watch_exit \/ RecvEnds \/ CommandTimeout
    BY <2>2 DEF _read_stderr, _watch_exit, RecvEnds, CommandTimeout
  <2> QED BY <2>1, <2>2 DEF Tasks
<1>6. \/ UNCHANGED answer
      \/ answer' = Failed
      \/ \E i \in DOMAIN replies : answer' = replies[i] /\ replies[i].id = waiting
  <2>1. CASE _dispatch
    <3>1. replies # <<>>
      BY <2>1 DEF _dispatch
    <3>2. Head(replies) = replies[1] /\ 1 \in DOMAIN replies
      BY <1>2, <3>1
    <3> QED BY <1>2, <2>1, <3>2 DEF _dispatch, Settle
  <2>2. CASE _read_stderr \/ _watch_exit \/ RecvEnds \/ CommandTimeout
    BY <2>2 DEF _read_stderr, _watch_exit, RecvEnds, CommandTimeout, cdpVars
  <2> QED BY <2>1, <2>2 DEF Tasks
<1>7. ASSUME mode = "coverage" PROVE RecentInv'
  <2>1. \A i \in DOMAIN replies' :
          replies'[i].id = waiting /\ replies'[i].ok => Recent(replies'[i].counts)
    BY <1>2, <1>5, <1>7 DEF RecentInv
  <2>2. answer'.ok => Recent(answer'.counts)
    BY <1>2, <1>6, <1>7 DEF RecentInv, Failed
  <2> QED BY <1>1, <2>1, <2>2 DEF RecentInv, Recent, AtLeast
<1>8. mode # "coverage" => RecentInv'
  BY <1>1 DEF RecentInv
<1> QED BY <1>3, <1>4, <1>7, <1>8

\* A command is sent: nothing on the socket is its reply yet.
LEMMA SendKeepsPolls ==
    ASSUME PollInv, AttachSend \/ CollectSend \/ PollSend \/ StopCoverageSend
    PROVE  CountInv' /\ PhaseInv' /\ RecentInv'
<1>1. PICK method :
        /\ Send(method)
        /\ method = "stop" => mode = "sampling"
        /\ pc \notin {"listen", "wait"}
  <2>1. CASE AttachSend
    <3>1. mode \in {"sampling", "coverage"} /\ step \in 1 .. StartStep + 1
      BY <2>1 DEF AttachSend, PollInv, ObservedInv, ChannelInv
    <3>2. Prologue(mode)[step] # "stop"
      <4>1. CASE mode = "sampling"
        BY <3>1, <4>1 DEF StartStep, Prologue
      <4>2. CASE mode = "coverage"
        BY <3>1, <4>2 DEF StartStep, Prologue
      <4> QED BY <3>1, <4>1, <4>2
    <3> QED BY <2>1, <3>2 DEF AttachSend
  <2>2. CASE CollectSend
    BY <2>2 DEF CollectSend, PollInv, PhaseInv
  <2>3. CASE PollSend \/ StopCoverageSend
    BY <2>3 DEF PollSend, StopCoverageSend
  <2> QED BY <2>1, <2>2, <2>3
<1>2. /\ UNCHANGED <<replies, mode, pc, baseline, reported, outcome, done, stderr, calls, atDone,
                     proc>>
      /\ nextId' = nextId + 1 /\ waiting' = nextId'
      /\ answer' \in {answer, Failed} /\ waiting = 0
      /\ requests' = requests \/ requests' = Append(requests, [id |-> nextId', method |-> method])
  BY <1>1 DEF Send, Idle, mainVars, procVars, sessVars
<1>3. /\ CountInv /\ PhaseInv /\ RecentInv /\ nextId \in Nat
      /\ \A i \in DOMAIN replies : replies[i].id \in 1 .. nextId
      /\ answer = NoAnswer /\ requests \in Seq(Requests)
  BY <1>2 DEF PollInv, ObservedInv, ChannelInv, CommandInv
<1>4. CountInv'
  BY <1>2, <1>3 DEF CountInv, AtLeast
<1>5. PhaseInv'
  <2>1. mode = "coverage" => \A i \in DOMAIN requests' : requests'[i].method # "stop"
    <3>1. CASE requests' = requests
      BY <1>3, <3>1 DEF PhaseInv
    <3>2. CASE requests' = Append(requests, [id |-> nextId', method |-> method])
      <4>1. \A i \in DOMAIN requests' :
              \/ i \in DOMAIN requests /\ requests'[i] = requests[i]
              \/ requests'[i] = [id |-> nextId', method |-> method]
        BY <1>3, <3>2
      <4> QED BY <1>1, <1>3, <4>1 DEF PhaseInv
    <3> QED BY <1>2, <3>1, <3>2
  <2> QED BY <1>1, <1>2, <1>3, <2>1 DEF PhaseInv
<1>6. RecentInv'
  <2>1. \A i \in DOMAIN replies : replies[i].id # nextId + 1
    BY <1>3
  <2>2. ~answer'.ok
    BY <1>2, <1>3 DEF NoAnswer, Failed
  <2> QED BY <1>2, <2>1, <2>2 DEF RecentInv
<1> QED BY <1>4, <1>5, <1>6

\* The coroutine takes an answer: nothing is awaited then.
LEMMA ConsumedIsRecent ==
    ASSUME PollInv, Consume, UNCHANGED mode
    PROVE  RecentInv'
<1>1. /\ \A i \in DOMAIN replies : replies[i].id \in 1 .. nextId
      /\ nextId \in Nat
  BY DEF PollInv, ObservedInv, ChannelInv, CommandInv
<1>2. UNCHANGED replies /\ waiting' = 0 /\ answer' = NoAnswer
  BY DEF Consume
<1>3. \A i \in DOMAIN replies : replies[i].id # 0
  BY <1>1
<1>4. NoAnswer.ok = FALSE /\ NoAnswer' = NoAnswer
  BY DEF NoAnswer, Zero
<1> QED BY <1>2, <1>3, <1>4 DEF RecentInv

\* What a poll reports: all that its counts add, or a part of it at the cap.
LEMMA PollReports ==
    ASSUME PollInv, PollReply, answer.ok
    PROVE  /\ Recent(answer.counts) /\ baseline' = answer.counts
           /\ reported' \in [Fns -> Nat]
           /\ pc' \notin {"listen", "attach", "wait", "poll"} \/ reported' = answer.counts
           /\ result' # "cap" => reported' = answer.counts
           /\ AtLeast(answer.counts, reported')
<1>1. Recent(answer.counts) /\ CountInv /\ reported = baseline /\ pc = "poll"
  BY DEF PollInv, PollReply, PhaseInv, RecentInv, CountInv
<1>2. baseline' = answer.counts
  BY DEF PollReply
<1> DEFINE active == {f \in Fns : Delta(f) > 0}
<1>3. PICK E \in SUBSET active :
        /\ reported' = [f \in Fns |-> reported[f] + IF f \in E THEN Delta(f) ELSE 0]
        /\ IF E # active THEN result' = "cap" /\ pc' = "close" ELSE TRUE
  BY DEF PollReply
<1>4. ASSUME NEW f \in Fns
      PROVE  /\ answer.counts[f] \in Nat /\ baseline[f] \in Nat /\ reported[f] = baseline[f]
             /\ Delta(f) = answer.counts[f] - baseline[f] /\ Delta(f) \in Nat
             /\ Delta(f) > 0 \/ answer.counts[f] = baseline[f]
  BY <1>1, <1>4 DEF Recent, CountInv, AtLeast, Delta
<1>5. \A f \in Fns : reported'[f] \in Nat /\ answer.counts[f] >= reported'[f]
  BY <1>3, <1>4
<1>6. ASSUME E = active PROVE reported' = answer.counts
  <2>1. \A f \in Fns : reported'[f] = answer.counts[f]
    BY <1>3, <1>4, <1>6
  <2>2. answer.counts \in [Fns -> Nat]
    BY <1>1 DEF Recent
  <2> QED BY <1>3, <2>1, <2>2
<1>7. reported' \in [Fns -> Nat]
  BY <1>3, <1>5
<1> QED BY <1>1, <1>2, <1>3, <1>5, <1>6, <1>7 DEF AtLeast

LEMMA ReplyKeepsPolls ==
    ASSUME PollInv, AttachReply \/ CollectReply \/ PollReply \/ StopCoverageReply
    PROVE  CountInv' /\ PhaseInv' /\ RecentInv'
<1>1. /\ Consume /\ UNCHANGED <<mode, outcome>>
      /\ UNCHANGED <<requests, done, stderr, calls, atDone, proc>> /\ waiting' = 0
  BY DEF AttachReply, CollectReply, PollReply, StopCoverageReply, Consume, procVars, sessVars
<1>2. CountInv /\ PhaseInv
  BY DEF PollInv
<1>3. RecentInv'
  BY <1>1, ConsumedIsRecent
<1>4. pc' \in {"attach", "close", "wait", "stopCoverage"} /\ pc' # "collect" /\ pc' # "poll"
  BY DEF AttachReply, CollectReply, PollReply, StopCoverageReply, AfterPoll
<1>5. PhaseInv'
  BY <1>1, <1>2, <1>4 DEF PhaseInv
<1>6. CountInv'
  <2>1. CASE PollReply /\ answer.ok
    <3>1. /\ Recent(answer.counts) /\ baseline' = answer.counts /\ reported' \in [Fns -> Nat]
          /\ pc' \notin {"listen", "attach", "wait", "poll"} \/ reported' = answer.counts
      BY <2>1, PollReports
    <3> QED BY <1>1, <1>2, <3>1 DEF CountInv, Recent, AtLeast
  <2>2. CASE AttachReply \/ CollectReply \/ StopCoverageReply \/ (PollReply /\ ~answer.ok)
    <3>1. UNCHANGED <<baseline, reported>> /\ pc # "ended"
      BY <2>2 DEF AttachReply, CollectReply, PollReply, StopCoverageReply
    <3>2. pc' \in {"attach", "wait"} => pc \in {"attach", "poll"}
      BY <2>2 DEF AttachReply, CollectReply, PollReply, StopCoverageReply
    <3> QED BY <1>1, <1>2, <1>4, <3>1, <3>2 DEF CountInv, AtLeast
  <2> QED BY <2>1, <2>2
<1> QED BY <1>3, <1>5, <1>6

\* The rest of the coroutine. When it learns of DONE no command is under way.
LEMMA CoroutineKeepsPolls ==
    ASSUME PollInv,
           wait_for_listening \/ wait_for_done \/ _stop \/ Terminate \/ Terminated \/ Report
    PROVE  CountInv' /\ PhaseInv' /\ RecentInv'
<1>1. /\ UNCHANGED <<waiting, answer, mode, baseline, done, calls, atDone>>
      /\ requests' \in {requests, <<>>} /\ replies' \in {replies, <<>>} /\ stderr' \in {stderr, <<>>}
      /\ proc' \in {proc, "exited"}
  BY DEF wait_for_listening, wait_for_done, _stop, Terminate, Terminated, Report, Die, cdpVars,
         procVars, sessVars
<1>2. /\ CountInv /\ PhaseInv /\ RecentInv /\ mode \in {"sampling", "coverage"}
      /\ waiting = 0 => answer = NoAnswer
      /\ \A i \in DOMAIN replies : replies[i].id \in 1 .. nextId
      /\ nextId \in Nat
  BY DEF PollInv, ObservedInv, ChannelInv, CommandInv
<1>3. PhaseInv'
  <2>1. outcome' = "done" => outcome = "done" \/ done
    BY DEF wait_for_listening, wait_for_done, _stop, Terminate, Terminated, Report
  <2>2. /\ pc' \in {"listen", "wait"} => waiting = 0
        /\ pc' = "collect" => mode = "sampling"
        /\ pc' = "poll" => mode = "coverage"
    BY <1>2 DEF wait_for_listening, wait_for_done, _stop, Terminate, Terminated, Report
  <2>3. <<>> \in Seq({"listening", "error", "done"}) /\ DOMAIN <<>> = {}
    OBVIOUS
  <2> QED BY <1>1, <1>2, <2>1, <2>2, <2>3 DEF PhaseInv
<1>4. CASE wait_for_done
  <2>1. UNCHANGED <<reported, replies>> /\ pc = "wait" /\ waiting = 0
    BY <1>2, <1>4 DEF wait_for_done, PhaseInv
  <2>2. CountInv'
    BY <1>1, <1>2, <2>1 DEF CountInv, AtLeast
  <2>3. (\A i \in DOMAIN replies : replies[i].id # 0) /\ ~answer.ok
    BY <1>2, <2>1 DEF NoAnswer
  <2>4. RecentInv'
    BY <1>1, <2>1, <2>3 DEF RecentInv
  <2> QED BY <1>3, <2>2, <2>4
<1>5. CASE wait_for_listening \/ _stop \/ Terminate \/ Terminated \/ Report
  <2>1. UNCHANGED outcome
    BY <1>5 DEF wait_for_listening, _stop, Terminate, Terminated, Report
  <2>2. /\ pc' \in {"listen", "attach", "wait", "poll"} => pc \in {"listen", "attach", "wait", "poll"}
        /\ pc' = "ended" \/ (UNCHANGED reported /\ pc # "ended")
    BY <1>5 DEF wait_for_listening, _stop, Terminate, Terminated, Report
  <2>3. CountInv'
    BY <1>1, <1>2, <2>2 DEF CountInv, AtLeast
  <2>4. RecentInv'
    <3>1. ASSUME mode = "coverage"
          PROVE  /\ \A i \in DOMAIN replies' :
                      replies'[i].id = waiting /\ replies'[i].ok => Recent(replies'[i].counts)
                 /\ answer.ok => Recent(answer.counts)
      BY <1>1, <1>2, <3>1 DEF RecentInv
    <3> QED BY <1>1, <2>1, <3>1 DEF RecentInv, Recent, AtLeast
  <2> QED BY <1>3, <2>3, <2>4
<1> QED BY <1>4, <1>5

LEMMA PollStep == PollInv /\ [Next]_vars => PollInv'
<1> SUFFICES ASSUME PollInv, [Next]_vars PROVE PollInv'
  OBVIOUS
<1>1. ObservedInv'
  BY ObservedStep DEF PollInv
<1>2. CountInv' /\ PhaseInv' /\ RecentInv'
  <2>1. CASE UNCHANGED vars
    BY <2>1 DEF vars, procVars, sessVars, cdpVars, mainVars, PollInv, CountInv, PhaseInv, RecentInv,
                Recent, AtLeast
  <2>2. CASE Environment
    BY <2>2, ProcessKeepsPolls, ServeKeepsPolls DEF Environment
  <2>3. CASE Tasks
    BY <2>3, TasksKeepPolls
  <2>4. CASE Main
    BY <2>4, TasksKeepPolls, SendKeepsPolls, ReplyKeepsPolls, CoroutineKeepsPolls DEF Main
  <2>5. CASE Ended
    BY <2>1, <2>5 DEF Ended
  <2> QED BY <2>1, <2>2, <2>3, <2>4, <2>5 DEF Next
<1> QED BY <1>1, <1>2 DEF PollInv

(* For any functions, calls and polls: no call is reported twice, and the      *)
(* poll after DONE leaves none of those made by then unreported, whichever     *)
(* polls failed or were answered late (iter_coverage_deltas, poll).             *)
THEOREM PollsAddUp == Spec => CoverageAddsUp
<1>1. Spec => []PollInv
  BY PollInit, PollStep, PTL DEF Spec
<1>2. PollInv /\ [Next]_vars =>
        [PollReply /\ answer.ok =>
           \A f \in Fns : /\ reported'[f] <= calls[f]
                          /\ outcome = "done" /\ result' # "cap" => reported'[f] >= atDone[f]]_vars
  <2> SUFFICES ASSUME PollInv, PollReply, answer.ok, NEW f \in Fns
               PROVE  /\ reported'[f] <= calls[f]
                      /\ outcome = "done" /\ result' # "cap" => reported'[f] >= atDone[f]
    OBVIOUS
  <2>1. /\ Recent(answer.counts) /\ reported' \in [Fns -> Nat]
        /\ result' # "cap" => reported' = answer.counts
        /\ AtLeast(answer.counts, reported')
    BY PollReports
  <2>2. calls \in [Fns -> Nat] /\ atDone \in [Fns -> Nat]
    BY DEF PollInv, CountInv
  <2> QED BY <2>1, <2>2 DEF Recent, AtLeast
<1> QED BY <1>1, <1>2, PTL DEF Spec, CoverageAddsUp
===============================================================================
