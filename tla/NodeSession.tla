----------------------------- MODULE NodeSession -----------------------------
(***************************************************************************)
(* One traced run of a Node process (node_runtime/launcher.py over         *)
(* cdp_client.py): the process paused by --inspect-brk, its stderr         *)
(* sentinels (bootstrap.mjs), V8's inspector, the CDP client with its      *)
(* pending map, and the coroutine run_sampling or run_coverage.  V8 may    *)
(* stop answering, the process may exit, a command may time out and its    *)
(* reply arrive later: at any step, in any order.                          *)
(***************************************************************************)
EXTENDS Integers, Sequences, FiniteSets

CONSTANTS Fns,        \* project functions of the traced script
          MaxCalls,   \* bound: calls of each function
          MaxPolls,   \* the deadline passes at the latest with this poll
          Cap         \* options.max_events

ASSUME NodeAssumption ==
    MaxCalls \in Nat /\ MaxPolls \in Nat \ {0} /\ Cap \in Nat \ {0} /\ IsFiniteSet(Fns)

VARIABLES
    proc,        \* "spawned", "paused", "running", "held" (after DONE), "exited"
    wedged,      \* synchronous JavaScript keeps V8 from serving the inspector
    profiler,    \* V8 collects
    calls,       \* calls of each function so far (V8 counts them cumulatively)
    threw,       \* top-level evaluation threw
    atDone,      \* calls when the bootstrap wrote DONE
    stderr,      \* lines written and not yet read
    requests, replies,      \* the two directions of the socket
    sock,        \* "none", "open", "cut" (peer gone), "closed" (receive loop ended)
    listening, done, exited, errorText,      \* _NodeSession
    pending, nextId, waiting, answer,        \* CDPClient and the command awaited
    mode, pc, step, outcome, polls, profile, baseline, reported, emitted, result

procVars == <<proc, wedged, profiler, calls, threw, atDone>>
sessVars == <<listening, done, exited, errorText>>
cdpVars  == <<pending, nextId, waiting, answer>>
mainVars == <<mode, pc, step, outcome, polls, profile, baseline, reported, emitted, result>>
vars == <<procVars, stderr, requests, replies, sock, sessVars, cdpVars, mainVars>>

Zero == [f \in Fns |-> 0]
Sum(c) == LET s[S \in SUBSET Fns] ==
                  IF S = {} THEN 0 ELSE LET f == CHOOSE f \in S : TRUE IN c[f] + s[S \ {f}]
          IN  s[Fns]

NoProfile == [f \in Fns |-> -1]
NoAnswer == [id |-> 0, ok |-> FALSE, counts |-> Zero]
Failed == [id |-> -1, ok |-> FALSE, counts |-> Zero]      \* a CDPError in the caller

\* Mutant: the pause is released before the profiler starts.
PrologueReleasesEarly(m) ==
    IF m = "sampling"
    THEN <<"Runtime.enable", "Profiler.enable", "setSamplingInterval", "release", "start">>
    ELSE <<"Runtime.enable", "Profiler.enable", "release", "start">>

\* The commands sent before user code may run, in order; the last releases the pause.
Prologue(m) ==
    IF m = "sampling"
    THEN <<"Runtime.enable", "Profiler.enable", "setSamplingInterval", "start", "release">>
    ELSE <<"Runtime.enable", "Profiler.enable", "start", "release">>

Init ==
    /\ mode \in {"sampling", "coverage"} /\ pc = "listen" /\ step = 1
    /\ proc = "spawned" /\ wedged = FALSE /\ profiler = FALSE /\ calls = Zero
    /\ threw = FALSE /\ atDone = Zero
    /\ stderr = <<>> /\ requests = <<>> /\ replies = <<>> /\ sock = "none"
    /\ listening = FALSE /\ done = FALSE /\ exited = FALSE /\ errorText = FALSE
    /\ pending = {} /\ nextId = 0 /\ waiting = 0 /\ answer = NoAnswer
    /\ outcome = "none" /\ polls = 0 /\ profile = NoProfile /\ baseline = Zero
    /\ reported = Zero /\ emitted = 0 /\ result = "none"
------------------------------------------------------------------------------
(* The process and V8. *)

Alive == proc # "exited"

Listen ==
    /\ proc = "spawned"
    /\ proc' = "paused" /\ stderr' = Append(stderr, "listening")
    /\ UNCHANGED <<wedged, profiler, calls, threw, atDone, requests, replies, sock, sessVars,
                   cdpVars, mainVars>>

UserCall(f) ==
    /\ proc \in {"running", "held"} /\ calls[f] < MaxCalls
    /\ calls' = [calls EXCEPT ![f] = @ + 1]
    /\ UNCHANGED <<proc, wedged, profiler, threw, atDone, stderr, requests, replies, sock,
                   sessVars, cdpVars, mainVars>>

\* Synchronous code enters, or leaves, a stretch in which the inspector is not served.
Wedge ==
    /\ proc \in {"running", "held"}
    /\ wedged' = ~wedged
    /\ UNCHANGED <<proc, profiler, calls, threw, atDone, stderr, requests, replies, sock,
                   sessVars, cdpVars, mainVars>>

\* bootstrap.mjs: ERROR, if top-level evaluation threw, then DONE, then the hold timer.
Finish ==
    /\ proc = "running" /\ ~wedged
    /\ proc' = "held" /\ atDone' = calls
    /\ \E t \in BOOLEAN :
          /\ threw' = t
          /\ stderr' = stderr \o IF t THEN <<"error", "done">> ELSE <<"done">>
    /\ UNCHANGED <<wedged, profiler, calls, requests, replies, sock, sessVars, cdpVars, mainVars>>

\* uncaughtException or unhandledRejection after the top level has been evaluated.
LateError ==
    /\ proc = "held" /\ ~wedged /\ ~errorText /\ "error" \notin {stderr[i] : i \in DOMAIN stderr}
    /\ stderr' = Append(stderr, "error")
    /\ UNCHANGED <<procVars, requests, replies, sock, sessVars, cdpVars, mainVars>>

\* process.exit(), a crash, a failed start, or the end of the hold.
Die == /\ proc' = "exited"
       /\ sock' = IF sock = "open" THEN "cut" ELSE sock
       /\ requests' = <<>>
       /\ UNCHANGED <<wedged, profiler, calls, threw, atDone, stderr, replies>>

Exit == Alive /\ Die /\ UNCHANGED <<sessVars, cdpVars, mainVars>>

\* V8 serves the oldest command; any command may also be answered with an error.
Serve ==
    /\ Alive /\ ~wedged /\ requests # <<>>
    /\ LET c == Head(requests) IN
       \/ /\ replies' = Append(replies, [id |-> c.id, ok |-> FALSE, counts |-> Zero])
          /\ UNCHANGED <<proc, profiler>>
       \/ /\ profiler' = CASE c.method = "start" -> TRUE
                           [] c.method \in {"stop", "stopCoverage"} -> FALSE
                           [] OTHER -> profiler
          /\ proc' = IF c.method = "release" /\ proc = "paused" THEN "running" ELSE proc
          /\ \E seen \in IF c.method = "stop" THEN {Zero, calls} ELSE {calls} :
                replies' = Append(replies, [id |-> c.id, ok |-> TRUE, counts |-> seen])
    /\ requests' = Tail(requests)
    /\ UNCHANGED <<wedged, calls, threw, atDone, stderr, sock, sessVars, cdpVars, mainVars>>
------------------------------------------------------------------------------
(* The tasks beside the coroutine: stderr reader, exit watcher, receive loop. *)

_handle_stderr_line(line) ==
    /\ listening' = (listening \/ line = "listening")
    /\ errorText' = (errorText \/ line = "error")
    /\ done' = (done \/ line = "done")
    /\ UNCHANGED exited

_read_stderr ==
    /\ pc \notin {"report", "ended"} /\ stderr # <<>>
    /\ _handle_stderr_line(Head(stderr)) /\ stderr' = Tail(stderr)
    /\ UNCHANGED <<procVars, requests, replies, sock, cdpVars, mainVars>>

_watch_exit ==
    /\ pc \notin {"report", "ended"} /\ ~Alive /\ ~exited
    /\ exited' = TRUE
    /\ UNCHANGED <<procVars, stderr, requests, replies, sock, listening, done, errorText,
                   cdpVars, mainVars>>

\* A reply settles the future registered under its id; one nobody waits for is dropped.
Settle(reply) ==
    IF reply.id \in pending
    THEN pending' = pending \ {reply.id} /\ answer' = reply
    ELSE UNCHANGED <<pending, answer>>

_dispatch ==
    /\ sock \in {"open", "cut"} /\ replies # <<>>
    /\ Settle(Head(replies)) /\ replies' = Tail(replies)
    /\ UNCHANGED <<procVars, stderr, requests, sock, sessVars, nextId, waiting, mainVars>>

\* The receive loop sees the close after every buffered reply and fails what is pending.
RecvEnds ==
    /\ sock = "cut" /\ replies = <<>>
    /\ sock' = "closed"
    /\ IF pending # {} THEN pending' = {} /\ answer' = Failed ELSE UNCHANGED <<pending, answer>>
    /\ UNCHANGED <<procVars, stderr, requests, replies, sessVars, nextId, waiting, mainVars>>
------------------------------------------------------------------------------
(* CDPClient.send as the coroutine sees it: Send, then an answer or a timeout. *)

Idle == waiting = 0

Send(method) ==
    /\ Idle
    /\ nextId' = nextId + 1 /\ waiting' = nextId'
    /\ \/ /\ sock \in {"open", "cut"}
          /\ pending' = pending \cup {nextId'} /\ UNCHANGED answer
          /\ requests' = IF sock = "open"
                         THEN Append(requests, [id |-> nextId', method |-> method])
                         ELSE requests
       \/ /\ sock # "open"                          \* ws.send raises
          /\ answer' = Failed /\ UNCHANGED <<pending, requests>>
    /\ UNCHANGED <<procVars, stderr, replies, sock, sessVars, mainVars>>

\* Mutant: the future stays registered.
CommandTimeoutLeaks ==
    /\ waiting \in pending
    /\ answer' = Failed
    /\ UNCHANGED <<procVars, stderr, requests, replies, sock, sessVars, pending, nextId, waiting,
                   mainVars>>

\* wait_for's cancellation, and the finally that forgets the future.
CommandTimeout ==
    /\ waiting \in pending
    /\ pending' = pending \ {waiting} /\ answer' = Failed
    /\ UNCHANGED <<procVars, stderr, requests, replies, sock, sessVars, nextId, waiting, mainVars>>

Answered == ~Idle /\ answer # NoAnswer

Consume == /\ waiting' = 0 /\ answer' = NoAnswer
           /\ UNCHANGED <<procVars, stderr, requests, replies, sock, sessVars, pending, nextId>>
------------------------------------------------------------------------------
(* run_sampling, run_coverage and _spawn_and_attach. *)

wait_for_listening ==
    /\ pc = "listen"
    /\ \/ /\ listening /\ Alive                     \* connect succeeds
          /\ sock' = "open" /\ pc' = "attach" /\ UNCHANGED result
       \/ /\ pc' = "terminate" /\ result' = "error" \* timeout, early exit, or no connection
          /\ UNCHANGED sock
    /\ UNCHANGED <<procVars, stderr, requests, replies, sessVars, cdpVars, mode, step, outcome,
                   polls, profile, baseline, reported, emitted>>

AttachSend == pc = "attach" /\ Send(Prologue(mode)[step])

AttachReply ==
    /\ pc = "attach" /\ Answered /\ Consume
    /\ IF ~answer.ok
       THEN pc' = "close" /\ result' = "error" /\ UNCHANGED step
       ELSE /\ step' = step + 1 /\ UNCHANGED result
            /\ pc' = IF step = Len(Prologue(mode)) THEN "wait" ELSE pc
    /\ UNCHANGED <<mode, outcome, polls, profile, baseline, reported, emitted>>

\* DONE is preferred to the exit; otherwise the timeout, which may come at any time.
wait_for_done ==
    /\ pc = "wait"
    /\ outcome' = IF done THEN "done" ELSE IF exited THEN "exited" ELSE "timeout"
    /\ pc' = IF mode = "sampling" THEN "collect" ELSE "poll"
    /\ UNCHANGED <<procVars, stderr, requests, replies, sock, sessVars, cdpVars, mode, step,
                   polls, profile, baseline, reported, emitted, result>>

CollectSend == pc = "collect" /\ Send("stop")

\* contextlib.suppress(CDPError): without an answer the profile stays empty.
CollectReply ==
    /\ pc = "collect" /\ Answered /\ Consume
    /\ profile' = IF answer.ok THEN answer.counts ELSE NoProfile
    /\ pc' = "close"
    /\ UNCHANGED <<mode, step, outcome, polls, baseline, reported, emitted, result>>

PollSend == pc = "poll" /\ Send("take")

\* Mutant: the counts since the start.
DeltaSinceStart(f) == answer.counts[f]

\* iter_coverage_deltas: what the counts add to the baseline of the last poll.
Delta(f) == answer.counts[f] - baseline[f]

\* DONE or the exit was seen before this poll, or the deadline has passed: the last poll.
AfterPoll == IF outcome = "timeout" /\ polls + 1 < MaxPolls THEN {"wait", "stopCoverage"}
             ELSE {"stopCoverage"}

\* poll(): one event per active function, until the cap; a CDPError ends the poll only.
PollReply ==
    /\ pc = "poll" /\ Answered /\ Consume
    /\ polls' = polls + 1
    /\ \/ /\ ~answer.ok /\ UNCHANGED <<baseline, reported, emitted, result>>
          /\ pc' \in AfterPoll
       \/ /\ answer.ok /\ baseline' = answer.counts
          /\ LET active == {f \in Fns : Delta(f) > 0}
                 room == Cap - emitted
             IN \E E \in SUBSET active :
                   /\ IF Cardinality(active) <= room THEN E = active ELSE Cardinality(E) = room
                   /\ reported' = [f \in Fns |-> reported[f] + IF f \in E THEN Delta(f) ELSE 0]
                   /\ emitted' = emitted + Cardinality(E)
                   /\ IF E # active THEN result' = "cap" /\ pc' = "close"
                      ELSE UNCHANGED result /\ pc' \in AfterPoll
    /\ UNCHANGED <<mode, step, outcome, profile>>

StopCoverageSend == pc = "stopCoverage" /\ Send("stopCoverage")
StopCoverageReply ==
    /\ pc = "stopCoverage" /\ Answered /\ Consume
    /\ pc' = "close"
    /\ UNCHANGED <<mode, step, outcome, polls, profile, baseline, reported, emitted, result>>

\* connect()'s exit: cancel the receive task, fail what is pending, close the socket.
_stop ==
    /\ pc = "close"
    /\ pc' = "terminate" /\ sock' = "closed" /\ pending' = {} /\ replies' = <<>>
    /\ UNCHANGED <<procVars, stderr, requests, sessVars, nextId, waiting, answer, mode, step,
                   outcome, polls, profile, baseline, reported, emitted, result>>

\* Mutant: no SIGKILL after the grace period.
TerminateAsks ==
    /\ pc = "terminate" /\ Alive
    /\ \/ Die /\ UNCHANGED pc
       \/ /\ pc' = "kill"
          /\ UNCHANGED <<procVars, stderr, requests, replies, sock>>
    /\ UNCHANGED <<sessVars, cdpVars, mode, step, outcome, polls, profile, baseline, reported,
                   emitted, result>>

\* terminate(): SIGTERM, which the script may ignore, up to 5 s, then SIGKILL; the readers
\* run on until they are cancelled and lose what they have not read by then.
Terminate ==
    /\ pc \in {"terminate", "kill"} /\ Alive
    /\ \/ Die /\ UNCHANGED pc
       \/ /\ pc = "terminate" /\ pc' = "kill"
          /\ UNCHANGED <<procVars, stderr, requests, replies, sock>>
    /\ UNCHANGED <<sessVars, cdpVars, mode, step, outcome, polls, profile, baseline, reported,
                   emitted, result>>
Terminated ==
    /\ pc \in {"terminate", "kill"} /\ ~Alive
    /\ pc' = "report" /\ stderr' = <<>>
    /\ UNCHANGED <<procVars, requests, replies, sock, sessVars, cdpVars, mode, step, outcome,
                   polls, profile, baseline, reported, emitted, result>>

\* After the context: reconstructed events (a call and a return each), the exception event,
\* the explanation of an empty trace, the cap.
Report ==
    /\ pc = "report" /\ pc' = "ended"
    /\ LET exc == IF errorText THEN 1 ELSE 0
           sampled == IF profile = NoProfile THEN Zero ELSE profile
           size == 2 * Sum(sampled) + exc IN
       IF result # "none" THEN UNCHANGED <<emitted, reported, result>>
       ELSE IF mode = "coverage"
       THEN /\ emitted' = IF emitted < Cap THEN emitted + exc ELSE emitted
            /\ result' = "ok" /\ UNCHANGED reported
       ELSE /\ result' = CASE size = 0 /\ outcome \in {"exited", "timeout"} -> "error"
                           [] size > Cap -> "cap"
                           [] OTHER -> "ok"
            /\ emitted' = IF result' = "ok" THEN size ELSE 0
            /\ reported' = sampled
    /\ UNCHANGED <<procVars, stderr, requests, replies, sock, sessVars, cdpVars, mode, step,
                   outcome, polls, profile, baseline>>

Ended == pc = "ended" /\ UNCHANGED vars

Environment == Listen \/ (\E f \in Fns : UserCall(f)) \/ Wedge \/ Finish \/ LateError \/ Exit
                 \/ Serve
Tasks == _read_stderr \/ _watch_exit \/ _dispatch \/ RecvEnds
Main == \/ AttachSend \/ CollectSend \/ PollSend \/ StopCoverageSend
        \/ CommandTimeout
        \/ wait_for_listening \/ AttachReply \/ wait_for_done \/ CollectReply \/ PollReply
        \/ StopCoverageReply \/ _stop \/ Terminate \/ Terminated \/ Report

Next == Environment \/ Tasks \/ Main \/ Ended

\* The event loop runs the coroutine and the tasks; V8 and the script owe nothing.
Spec == Init /\ [][Next]_vars /\ WF_vars(Main) /\ WF_vars(Tasks)
------------------------------------------------------------------------------
(* Properties. *)

\* A command is settled by the reply to it: a reply that comes after its command timed out
\* settles nothing, whatever command is awaited by then (cdp_client._dispatch).
AnswersMatch == answer.id > 0 => answer.id = waiting

\* User code never runs unobserved: whenever it may run and the coroutine has not begun to
\* collect, V8 is profiling (the order of the commands before runIfWaitingForDebugger).
NothingUnseen ==
    proc \in {"running", "held"} /\ ~profiler =>
        pc \in {"collect", "stopCoverage", "close", "terminate", "kill", "report", "ended"}

\* The deltas of the polls add up: what was reported is never more than the calls made, and
\* after the poll that follows DONE it is all the calls made by then, whichever polls
\* failed, timed out or were answered late.
CoverageAddsUp ==
    [][PollReply /\ answer.ok =>
          \A f \in Fns : /\ reported'[f] <= calls[f]
                         /\ outcome = "done" /\ result' # "cap" => reported'[f] >= atDone[f]]_vars

\* Whatever V8 and the script do, the run ends, with the process dead, no command pending
\* and no reader left.
RunEnds == <>[](pc = "ended" /\ ~Alive /\ pending = {} /\ stderr = <<>>)

=============================================================================
