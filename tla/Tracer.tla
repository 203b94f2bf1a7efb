-------------------------------- MODULE Tracer --------------------------------
(***************************************************************************)
(* The Python tracer (python_runtime/tracer.py) while it runs a script of  *)
(* several threads, and the .part file its sink writes (writer.py).        *)
(*                                                                         *)
(* The interpreter calls the tracer at every start, return, line, raise    *)
(* and unwind of a project frame, in the thread that made it.  A callback  *)
(* updates the thread's depth and records the event in four steps, between *)
(* which another thread may run: the count is tested against the cap, the  *)
(* event counted and the writer's broken flag read, the line written, the  *)
(* line counted.  An exception a callback raises, the cap, a sink failure  *)
(* or a Ctrl-C, goes on in the traced program, which may handle it.        *)
(***************************************************************************)
EXTENDS Naturals, Sequences, FiniteSets, SequencesExt

CONSTANTS
  Threads, Main,   \* the script's threads; Main is the one run() was called in
  Cap,             \* options.max_events
  MaxFrames,       \* bound: frames on a stack
  MaxSteps,        \* bound: calls, lines and raises of all threads
  MaxFailures      \* bound: failed writes

ASSUME TracerAssumption ==
  /\ Main \in Threads /\ IsFiniteSet(Threads)
  /\ Cap \in Nat /\ MaxFrames \in Nat /\ MaxSteps \in Nat /\ MaxFailures \in Nat

VARIABLES
  pc,        \* where run() and its caller are
  tool,      \* who has sys.monitoring's tool id: "free", "grackle" or "other"
  armed,     \* events are set and callbacks registered
  swallow,   \* the sink swallows its own failures, as the CLI's sinks do
  alive,     \* threads that run
  stack,     \* stack[t]: its frames, outermost first: "project" or "library"
  suspended, \* generators that yielded and have not been resumed, by thread
  depth,     \* _depth
  mode,      \* what thread t is doing
  ev,        \* the event thread t is recording
  exc,       \* the exception in flight in thread t
  slipped,   \* t's depth lost its frame: a callback raised half way
  count,     \* _count
  sinkExc,   \* _sink_exc is set
  file, good, broken, closed,  \* the writer: bytes, lines counted, flags
  overlap,   \* a line was written after the write that broke the writer
  steps, failures, interrupts,
  lost,      \* threads that had an event dropped by a sink that does not swallow
  outcome    \* how run() ended

writerVars == <<file, good, broken, closed, overlap, failures>>
runVars == <<pc, tool, armed, swallow, outcome>>
tvars == <<runVars, alive, stack, suspended, depth, mode, ev, exc, slipped, count,
           sinkExc, writerVars, steps, interrupts, lost>>

NoEvent == [event |-> "none", depth |-> 0]
Recording == {"check", "test", "write", "count"}
Frames(t) == Cardinality({i \in 1 .. Len(stack[t]) : stack[t][i] = "project"})
Sub1(n) == IF n = 0 THEN 0 ELSE n - 1

TracerInit ==
  /\ pc = "idle" /\ tool \in {"free", "other"} /\ armed = FALSE
  /\ swallow \in BOOLEAN
  /\ alive = {}
  /\ stack = [t \in Threads |-> <<>>] /\ suspended = [t \in Threads |-> 0]
  /\ depth = [t \in Threads |-> 0]
  /\ mode = [t \in Threads |-> "run"]
  /\ ev = [t \in Threads |-> NoEvent]
  /\ exc = [t \in Threads |-> "none"]
  /\ slipped = [t \in Threads |-> FALSE]
  /\ count = 0 /\ sinkExc = FALSE
  /\ file = <<>> /\ good = 0 /\ broken = FALSE /\ closed = FALSE
  /\ overlap = FALSE /\ steps = 0 /\ failures = 0 /\ interrupts = 0
  /\ lost = {} /\ outcome = "none"
-----------------------------------------------------------------------------
(* _start() and _stop().                                                   *)

threadVars == <<alive, stack, suspended, depth, mode, ev, exc, slipped, count, sinkExc,
                steps, lost>>

\* use_tool_id() takes the id, or raises when another tool has it.
Claim ==
  /\ pc = "idle"
  /\ IF tool = "free"
       THEN tool' = "grackle" /\ pc' = "claimed" /\ UNCHANGED outcome
       ELSE outcome' = "refused" /\ pc' = "done" /\ UNCHANGED tool
  /\ UNCHANGED <<armed, swallow, threadVars, writerVars, interrupts>>

\* A Ctrl-C that arrives inside use_tool_id() is raised by the call itself,
\* with the id taken and the try not entered.
ClaimInterrupted ==
  /\ pc = "idle" /\ tool = "free" /\ interrupts = 0
  /\ tool' = "grackle" /\ pc' = "done" /\ outcome' = "interrupted in claim"
  /\ interrupts' = 1
  /\ UNCHANGED <<armed, swallow, threadVars, writerVars>>

Arm ==
  /\ pc = "claimed"
  /\ armed' = TRUE /\ pc' = "script" /\ alive' = {Main}
  /\ UNCHANGED <<suspended, tool, swallow, outcome, stack, depth, mode, ev, exc, slipped,
                 count, sinkExc, steps, lost, writerVars, interrupts>>

\* A Ctrl-C between set_events and the last register_callback: _stop(), raise.
ArmInterrupted ==
  /\ pc = "claimed" /\ interrupts = 0
  /\ tool' = "free"
  /\ pc' = "done" /\ outcome' = "interrupted" /\ interrupts' = 1
  /\ UNCHANGED <<armed, swallow, threadVars, writerVars>>

\* run()'s finally: events first, so that no callback starts any more.
Disarm ==
  /\ pc = "script" /\ Main \notin alive
  /\ armed' = FALSE /\ pc' = "disarmed"
  /\ UNCHANGED <<tool, swallow, outcome, threadVars, writerVars, interrupts>>

\* The id is freed; the cap is raised again, then a latched sink failure.
Free ==
  /\ pc = "disarmed"
  /\ tool' = "free" /\ pc' = "ended"
  /\ outcome' = IF exc[Main] = "cap" THEN "cap"
                ELSE IF sinkExc THEN "sink" ELSE "ok"
  /\ UNCHANGED <<armed, swallow, threadVars, writerVars, interrupts>>

\* A Ctrl-C inside the teardown leaves it half done.
FreeInterrupted ==
  /\ pc = "disarmed" /\ interrupts = 0
  /\ pc' = "ended" /\ outcome' = "interrupted in stop" /\ interrupts' = 1
  /\ UNCHANGED <<tool, armed, swallow, threadVars, writerVars>>

\* Mutant: the cut is one line short.
FinalizeUntruncated ==
  /\ pc = "ended"
  /\ closed' = TRUE /\ pc' = "done"
  /\ UNCHANGED <<tool, armed, swallow, outcome, threadVars, file, good, broken,
                 overlap, failures, interrupts>>

\* The caller finalizes the file while other threads may still write.
Finalize ==
  /\ pc = "ended"
  /\ file' = IF broken /\ 2 * good < Len(file) THEN SubSeq(file, 1, 2 * good) ELSE file
  /\ closed' = TRUE /\ pc' = "done"
  /\ UNCHANGED <<tool, armed, swallow, outcome, threadVars, good, broken,
                 overlap, failures, interrupts>>
-----------------------------------------------------------------------------
(* The interpreter and the callbacks.                                      *)

\* External: the script starts a thread.
StartThread(t) ==
  /\ pc = "script" /\ t # Main /\ t \notin alive /\ stack[t] = <<>>
  /\ Main \in alive /\ steps < MaxSteps
  /\ alive' = alive \cup {t}
  /\ UNCHANGED <<suspended, runVars, stack, depth, mode, ev, exc, slipped, count, sinkExc,
                 writerVars, steps, interrupts, lost>>

Runs(t) == t \in alive /\ mode[t] = "run"
Top(t) == Last(stack[t])
Observed(t, frame) == armed /\ frame = "project"
Record(t, event, d) ==
  /\ ev' = [ev EXCEPT ![t] = [event |-> event, depth |-> d]]
  /\ mode' = [mode EXCEPT ![t] = "check"]
Step == steps < MaxSteps /\ steps' = steps + 1

\* _on_call: the event has the depth before the increment.
Call(t, frame) ==
  /\ Runs(t) /\ Step /\ Len(stack[t]) < MaxFrames
  /\ stack' = [stack EXCEPT ![t] = Append(@, frame)]
  /\ IF Observed(t, frame)
       THEN /\ depth' = [depth EXCEPT ![t] = @ + 1]
            /\ Record(t, "call", depth[t])
       ELSE UNCHANGED <<depth, ev, mode>>
  /\ UNCHANGED <<suspended, runVars, alive, exc, slipped, count, sinkExc, writerVars,
                 interrupts, lost>>

\* _on_return: the frame leaves the stack when the callback has returned.
Return(t) ==
  /\ Runs(t) /\ stack[t] # <<>>
  /\ IF Observed(t, Top(t))
       THEN /\ depth' = [depth EXCEPT ![t] = Sub1(@)]
            /\ Record(t, "return", Sub1(depth[t]))
            /\ UNCHANGED <<stack, alive>>
       ELSE /\ stack' = [stack EXCEPT ![t] = Front(@)]
            /\ alive' = IF Len(stack[t]) = 1 THEN alive \ {t} ELSE alive
            /\ UNCHANGED <<depth, ev, mode>>
  /\ UNCHANGED <<suspended, runVars, exc, slipped, count, sinkExc, writerVars, steps,
                 interrupts, lost>>

\* External: a generator yields and its frame leaves the stack, or it is resumed.
\* Neither PY_YIELD nor PY_RESUME is subscribed to.
Yield(t) ==
  /\ Runs(t) /\ Step /\ Len(stack[t]) > 1 /\ Top(t) = "project" /\ suspended[t] = 0
  /\ stack' = [stack EXCEPT ![t] = Front(@)]
  /\ suspended' = [suspended EXCEPT ![t] = 1]
  /\ UNCHANGED <<runVars, alive, depth, mode, ev, exc, slipped, count, sinkExc,
                 writerVars, interrupts, lost>>

Resume(t) ==
  /\ Runs(t) /\ Step /\ stack[t] # <<>> /\ Len(stack[t]) < MaxFrames /\ suspended[t] = 1
  /\ stack' = [stack EXCEPT ![t] = Append(@, "project")]
  /\ suspended' = [suspended EXCEPT ![t] = 0]
  /\ UNCHANGED <<runVars, alive, depth, mode, ev, exc, slipped, count, sinkExc,
                 writerVars, interrupts, lost>>

\* _on_line, with include_line_events.
Line(t) ==
  /\ Runs(t) /\ stack[t] # <<>> /\ Observed(t, Top(t)) /\ Step
  /\ Record(t, "line", depth[t])
  /\ UNCHANGED <<suspended, runVars, alive, stack, depth, exc, slipped, count, sinkExc,
                 writerVars, interrupts, lost>>

\* External: the script raises.
Raise(t) ==
  /\ Runs(t) /\ stack[t] # <<>> /\ Step
  /\ exc' = [exc EXCEPT ![t] = "user"]
  /\ mode' = [mode EXCEPT ![t] = "raised"]
  /\ UNCHANGED <<suspended, runVars, alive, stack, depth, ev, slipped, count, sinkExc,
                 writerVars, interrupts, lost>>

\* _on_raise, in every frame the exception reaches.
OnRaise(t) ==
  /\ t \in alive /\ mode[t] = "raised"
  /\ IF Observed(t, Top(t))
       THEN Record(t, "exception", depth[t])
       ELSE mode' = [mode EXCEPT ![t] = "search"] /\ UNCHANGED ev
  /\ UNCHANGED <<suspended, runVars, alive, stack, depth, exc, slipped, count, sinkExc,
                 writerVars, steps, interrupts, lost>>

\* External: a frame of the script handles the exception.
Handle(t) ==
  /\ t \in alive /\ mode[t] = "search"
  /\ exc' = [exc EXCEPT ![t] = "none"]
  /\ mode' = [mode EXCEPT ![t] = "run"]
  /\ UNCHANGED <<suspended, runVars, alive, stack, depth, ev, slipped, count, sinkExc,
                 writerVars, steps, interrupts, lost>>

\* Mutant: PY_UNWIND is not subscribed to.
UnwindUnseen(t) ==
  /\ t \in alive /\ mode[t] = "search"
  /\ stack' = [stack EXCEPT ![t] = Front(@)]
  /\ IF Len(stack[t]) = 1
       THEN alive' = alive \ {t} /\ mode' = [mode EXCEPT ![t] = "run"]
       ELSE mode' = [mode EXCEPT ![t] = "raised"] /\ UNCHANGED alive
  /\ UNCHANGED <<suspended, runVars, depth, ev, exc, slipped, count, sinkExc, writerVars,
                 steps, interrupts, lost>>

\* _on_unwind: the frame goes, and its depth with it.
Unwind(t) ==
  /\ t \in alive /\ mode[t] = "search"
  /\ stack' = [stack EXCEPT ![t] = Front(@)]
  /\ depth' = IF Observed(t, Top(t)) THEN [depth EXCEPT ![t] = Sub1(@)] ELSE depth
  /\ IF Len(stack[t]) = 1
       THEN alive' = alive \ {t} /\ mode' = [mode EXCEPT ![t] = "run"]
       ELSE mode' = [mode EXCEPT ![t] = "raised"] /\ UNCHANGED alive
  /\ UNCHANGED <<suspended, runVars, ev, exc, slipped, count, sinkExc, writerVars, steps,
                 interrupts, lost>>
-----------------------------------------------------------------------------
(* _emit() and the sink.                                                   *)

\* The callback returned: a frame that was returning leaves the stack.
Recorded(t) ==
  /\ mode' = [mode EXCEPT ![t] = IF ev[t].event = "exception" THEN "search" ELSE "run"]
  /\ IF ev[t].event = "return"
       THEN /\ stack' = [stack EXCEPT ![t] = Front(@)]
            /\ alive' = IF Len(stack[t]) = 1 THEN alive \ {t} ELSE alive
       ELSE UNCHANGED <<stack, alive>>
  /\ ev' = [ev EXCEPT ![t] = NoEvent]
  /\ UNCHANGED <<exc, slipped>>

\* The callback raised: the exception appears in the frame it was called for,
\* and takes the place of the one a raise callback was told of.
Throw(t, e) ==
  /\ exc' = [exc EXCEPT ![t] = e]
  /\ mode' = [mode EXCEPT ![t] = IF ev[t].event = "exception" THEN "search" ELSE "raised"]
  /\ slipped' = [slipped EXCEPT ![t] = @ \/ ev[t].event = "return"]
  /\ ev' = [ev EXCEPT ![t] = NoEvent]
  /\ UNCHANGED <<stack, alive>>

\* enforce_event_cap, with the count as it was read for the call.
Check(t) ==
  /\ mode[t] = "check"
  /\ IF count >= Cap
       THEN Throw(t, "cap")
       ELSE mode' = [mode EXCEPT ![t] = "test"]
            /\ UNCHANGED <<stack, alive, ev, exc, slipped>>
  /\ UNCHANGED <<suspended, runVars, depth, count, sinkExc, writerVars, steps, interrupts, lost>>

\* The event is counted and handed to the sink; a broken writer drops it.
Test(t) ==
  /\ mode[t] = "test"
  /\ count' = count + 1
  /\ IF broken
       THEN Recorded(t) /\ lost' = lost \cup {t}
       ELSE mode' = [mode EXCEPT ![t] = "write"]
            /\ UNCHANGED <<stack, alive, ev, exc, slipped, lost>>
  /\ UNCHANGED <<suspended, runVars, depth, sinkExc, writerVars, steps, interrupts>>

WriteLine(t) ==
  /\ mode[t] = "write" /\ ~closed
  /\ file' = file \o <<<<t, 1>>, <<t, 2>>>>
  /\ overlap' = (overlap \/ broken)
  /\ mode' = [mode EXCEPT ![t] = "count"]
  /\ UNCHANGED <<suspended, runVars, alive, stack, depth, ev, exc, slipped, count, sinkExc,
                 good, broken, closed, failures, steps, interrupts, lost>>

CountLine(t) ==
  /\ mode[t] = "count"
  /\ good' = good + 1
  /\ Recorded(t)
  /\ UNCHANGED <<suspended, runVars, depth, count, sinkExc, file, broken, closed, overlap,
                 failures, steps, interrupts, lost>>

\* Mutant: only the traced program is told.
FailWriteUnlatched(t) ==
  /\ mode[t] = "write"
  /\ \/ closed /\ UNCHANGED <<file, failures>>
     \/ /\ ~closed /\ failures < MaxFailures /\ failures' = failures + 1
        /\ \/ UNCHANGED file
           \/ file' = Append(file, <<t, 1>>)
  /\ broken' = TRUE /\ lost' = lost \cup {t}
  /\ IF swallow THEN Recorded(t) ELSE Throw(t, "sink")
  /\ UNCHANGED <<suspended, runVars, depth, count, sinkExc, good, closed, overlap, steps,
                 interrupts>>

\* The write fails, with or without bytes of the line in the file, or the file
\* is closed already.  The exception stops in a sink that swallows it; otherwise
\* it is latched for run() and raised into the traced program.
FailWrite(t) ==
  /\ mode[t] = "write"
  /\ \/ closed /\ UNCHANGED <<file, failures>>
     \/ /\ ~closed /\ failures < MaxFailures /\ failures' = failures + 1
        /\ \/ UNCHANGED file
           \/ file' = Append(file, <<t, 1>>)
  /\ broken' = TRUE /\ lost' = lost \cup {t}
  /\ IF swallow
       THEN Recorded(t) /\ UNCHANGED sinkExc
       ELSE Throw(t, "sink") /\ sinkExc' = TRUE
  /\ UNCHANGED <<suspended, runVars, depth, count, good, closed, overlap, steps, interrupts>>

\* A Ctrl-C while the main thread is in a callback, not latched.
Interrupt ==
  /\ Main \in alive /\ mode[Main] \in {"check", "test", "write"} /\ interrupts = 0
  /\ interrupts' = 1
  /\ Throw(Main, "interrupt")
  /\ UNCHANGED <<suspended, runVars, depth, count, sinkExc, writerVars, steps, lost>>

\* The same at the first instruction of _on_call, before the depth moves.
InterruptEntry ==
  /\ Runs(Main) /\ armed /\ Len(stack[Main]) < MaxFrames /\ interrupts = 0
  /\ interrupts' = 1 /\ Step
  /\ stack' = [stack EXCEPT ![Main] = Append(@, "project")]
  /\ exc' = [exc EXCEPT ![Main] = "interrupt"]
  /\ mode' = [mode EXCEPT ![Main] = "raised"]
  /\ slipped' = [slipped EXCEPT ![Main] = TRUE]
  /\ UNCHANGED <<suspended, runVars, alive, depth, ev, count, sinkExc, writerVars, lost>>

Thread(t) ==
  \/ StartThread(t) \/ Call(t, "project") \/ Call(t, "library") \/ Return(t)
  \/ Yield(t) \/ Resume(t)
  \/ Line(t) \/ Raise(t) \/ OnRaise(t) \/ Handle(t) \/ Unwind(t)
  \/ Check(t) \/ Test(t) \/ WriteLine(t) \/ CountLine(t) \/ FailWrite(t)

TracerNext ==
  \/ Claim \/ ClaimInterrupted \/ Arm \/ ArmInterrupted \/ Disarm \/ Free
  \/ FreeInterrupted \/ Finalize \/ Interrupt \/ InterruptEntry
  \/ \E t \in Threads : Thread(t)

TracerSpec == TracerInit /\ [][TracerNext]_tvars
-----------------------------------------------------------------------------
\* Whatever was raised, handled or unwound on the way, the frame_depth of an
\* event is the number of project frames under it (a call or a return) or
\* around it (a line, an exception), and one more for each generator of the
\* thread that is suspended (tracer.py:18, the documented drift), unless a
\* Ctrl-C or another exception left a callback of this thread half way.
DepthIsTrue ==
  \A t \in Threads :
    mode[t] \in Recording /\ ~slipped[t] =>
      ev[t].depth = Frames(t) + suspended[t]
                      - IF ev[t].event \in {"call", "return"} THEN 1 ELSE 0

\* run() returns normally only when no event of its own thread was dropped by a
\* sink that reports its failures, whichever thread met the failure and
\* whatever the script handled.
SinkFailureTold == outcome = "ok" /\ ~swallow => Main \notin lost

\* The finalized file has whole lines only, however its threads interleaved and
\* wherever a write failed, except when a write that began before the failure
\* succeeded after it.
LinesAreWhole ==
  closed /\ ~overlap =>
    /\ Len(file) % 2 = 0
    /\ \A i \in 1 .. Len(file) : file[i][2] = IF i % 2 = 1 THEN 1 ELSE 2
=============================================================================
