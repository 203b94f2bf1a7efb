----------------------------- MODULE TraceOutput -----------------------------
(***************************************************************************)
(* The files `grackle trace -o` leaves behind (cli.py, writer.py).  A run  *)
(* writes one JSON line per event into <output>.part through a userspace   *)
(* buffer and renames it to <output> when it ends; with --stream the same  *)
(* events are teed to the stream sender, written first and sent second.    *)
(* Runs share one output path, may be killed at any instant, interrupted   *)
(* with Ctrl-C, and may meet a disk that fails.                            *)
(*                                                                         *)
(* Event n of a run is a line of two bytes, <<n, 1>> and <<n, 2>>: enough  *)
(* for a torn line.  disk[r] is the file run r writes, under whatever name *)
(* it has; part and output say which file has the name <output>.part and   *)
(* which has the name <output>.                                            *)
(***************************************************************************)
EXTENDS Naturals, Sequences, FiniteSets

CONSTANTS
  Runs,       \* invocations of grackle trace with the same -o path
  MaxEvents,  \* bound: events per run
  BufLines,   \* lines the userspace buffer holds (8 KiB of them)
  NoFile

ASSUME OutputAssumption ==
  /\ MaxEvents \in Nat
  /\ BufLines \in Nat \ {0}
  /\ NoFile \notin Runs

VARIABLES
  pc,       \* where each run is
  tee,      \* tee[r]: run r has --stream
  part, output,             \* the directory
  aside,    \* files the user moved away
  disk,     \* what the kernel has of each file
  buf,      \* what only the process has
  count, broken,            \* JsonlPartWriter's
  emitted,  \* events the traced script produced
  handed,   \* events given to the stream sender
  sentOut,  \* events the sender put on the wire
  interrupted, report

writerVars == <<disk, buf, count, broken>>
streamVars == <<handed, sentOut>>
dirVars == <<part, output, aside>>
vars == <<pc, tee, part, output, aside, disk, buf, count, broken, emitted,
          handed, sentOut, interrupted, report>>

Line(n) == <<<<n, 1>>, <<n, 2>>>>
\* The first n lines of a run, whole.
Lines(n) == [i \in 1 .. 2 * n |-> <<(i + 1) \div 2, IF i % 2 = 1 THEN 1 ELSE 2>>]
Prefix(s, n) == SubSeq(s, 1, IF n < Len(s) THEN n ELSE Len(s))

Live == {"connecting", "tracing", "handing", "finishing", "closing", "renaming"}
\* Ended without settling its .part.
Stranded == {"killed", "kept", "aborted"}

Init ==
  /\ pc = [r \in Runs |-> "idle"]
  /\ tee \in [Runs -> BOOLEAN]
  /\ part = NoFile /\ output = NoFile /\ aside = {}
  /\ disk = [r \in Runs |-> <<>>]
  /\ buf = [r \in Runs |-> <<>>]
  /\ count = [r \in Runs |-> 0]
  /\ broken = [r \in Runs |-> FALSE]
  /\ emitted = [r \in Runs |-> 0]
  /\ handed = [r \in Runs |-> 0]
  /\ sentOut = [r \in Runs |-> 0]
  /\ interrupted = [r \in Runs |-> FALSE]
  /\ report = [r \in Runs |-> "none"]

Goto(r, from, to) == pc[r] = from /\ pc' = [pc EXCEPT ![r] = to]
-----------------------------------------------------------------------------
\* Mutant: a leftover .part is removed, as if its owner were dead.
OpenOverPart(r) ==
  /\ Goto(r, "idle", IF tee[r] THEN "connecting" ELSE "tracing")
  /\ part' = r
  /\ UNCHANGED <<tee, output, aside, writerVars, streamVars, emitted,
                 interrupted, report>>

\* Exclusive create of <output>.part.
Open(r) ==
  /\ part = NoFile
  /\ Goto(r, "idle", IF tee[r] THEN "connecting" ELSE "tracing")
  /\ part' = r
  /\ UNCHANGED <<tee, output, aside, writerVars, streamVars, emitted,
                 interrupted, report>>

\* An existing .part is refused, never removed.
Refuse(r) ==
  /\ part # NoFile
  /\ Goto(r, "idle", "refused")
  /\ UNCHANGED <<tee, dirVars, writerVars, streamVars, emitted, interrupted,
                 report>>

ConnectOk(r) ==
  /\ Goto(r, "connecting", "tracing")
  /\ UNCHANGED <<tee, dirVars, writerVars, streamVars, emitted, interrupted,
                 report>>

\* sender.start() raised ConnectionError: the .part is discarded.
ConnectFails(r) ==
  /\ Goto(r, "connecting", "failed")
  /\ part' = NoFile
  /\ UNCHANGED <<tee, output, aside, writerVars, streamVars, emitted,
                 interrupted, report>>

\* Ctrl-C while start() or finish() waits: nothing settles the .part, and the
\* buffer reaches the disk, or not, when the interpreter closes the file.
InterruptWait(r) ==
  /\ \/ Goto(r, "connecting", "aborted")
     \/ Goto(r, "finishing", "aborted")
  /\ \/ disk' = [disk EXCEPT ![r] = @ \o buf[r]]
     \/ UNCHANGED disk
  /\ buf' = [buf EXCEPT ![r] = <<>>]
  /\ UNCHANGED <<tee, dirVars, count, broken, streamVars, emitted,
                 interrupted, report>>

-----------------------------------------------------------------------------
(* One event: JsonlPartWriter.write, then the sender.                      *)

AfterWrite(r) ==
  /\ Goto(r, "tracing", IF tee[r] THEN "handing" ELSE "tracing")
  /\ emitted[r] < MaxEvents
  /\ emitted' = [emitted EXCEPT ![r] = @ + 1]
  /\ UNCHANGED <<tee, dirVars, streamVars, interrupted, report>>

\* The buffer is written out first when the line does not fit in it.
WriteOk(r) ==
  /\ ~broken[r]
  /\ AfterWrite(r)
  /\ LET line == Line(emitted[r] + 1) IN
     IF Len(buf[r]) < 2 * BufLines
       THEN /\ buf' = [buf EXCEPT ![r] = @ \o line]
            /\ UNCHANGED disk
       ELSE /\ disk' = [disk EXCEPT ![r] = @ \o buf[r]]
            /\ buf' = [buf EXCEPT ![r] = line]
  /\ count' = [count EXCEPT ![r] = @ + 1]
  /\ UNCHANGED broken

\* What a failed write leaves: a part of the buffer written out, or all of it
\* and the first byte of a line too long to be buffered.
TornWrite(r) ==
  \/ \E k \in 0 .. Len(buf[r]) :
       /\ disk' = [disk EXCEPT ![r] = @ \o Prefix(buf[r], k)]
       /\ buf' = [buf EXCEPT ![r] = SubSeq(@, k + 1, Len(@))]
  \/ /\ disk' = [disk EXCEPT ![r] = @ \o buf[r] \o <<<<emitted[r] + 1, 1>>>>]
     /\ buf' = [buf EXCEPT ![r] = <<>>]

\* The first failure breaks the writer; both sinks swallow the exception.
WriteFails(r) ==
  /\ ~broken[r]
  /\ AfterWrite(r)
  /\ TornWrite(r)
  /\ broken' = [broken EXCEPT ![r] = TRUE]
  /\ UNCHANGED count

WriteSkipped(r) ==
  /\ broken[r]
  /\ AfterWrite(r)
  /\ UNCHANGED writerVars

Hand(r) ==
  /\ Goto(r, "handing", "tracing")
  /\ handed' = [handed EXCEPT ![r] = @ + 1]
  /\ UNCHANGED <<tee, dirVars, writerVars, emitted, sentOut, interrupted, report>>

\* External: the sender thread sends, in its own time.
Send(r) ==
  /\ pc[r] \in Live
  /\ sentOut[r] < handed[r]
  /\ sentOut' = [sentOut EXCEPT ![r] = @ + 1]
  /\ UNCHANGED <<pc, tee, dirVars, writerVars, emitted, handed, interrupted,
                 report>>

-----------------------------------------------------------------------------
\* The script ended, or the adapter raised an error that is held for later.
TraceEnds(r) ==
  /\ Goto(r, "tracing", IF tee[r] THEN "finishing" ELSE "closing")
  /\ UNCHANGED <<tee, dirVars, writerVars, streamVars, emitted, interrupted,
                 report>>

FinishReturns(r) ==
  /\ Goto(r, "finishing", "closing")
  /\ UNCHANGED <<tee, dirVars, writerVars, streamVars, emitted, interrupted,
                 report>>

\* Mutant: a run that captured nothing gives up without discarding its .part.
InterruptLeavesPart(r) ==
  /\ Goto(r, "tracing", IF count[r] = 0 THEN "failed" ELSE "closing")
  /\ interrupted' = [interrupted EXCEPT ![r] = TRUE]
  /\ UNCHANGED <<tee, dirVars, writerVars, streamVars, emitted, report>>

\* Ctrl-C in grackle's own code while the adapter runs: _settle_interrupted.
Interrupt(r) ==
  /\ Goto(r, "tracing", IF count[r] = 0 THEN "failed" ELSE "closing")
  /\ interrupted' = [interrupted EXCEPT ![r] = TRUE]
  /\ part' = IF count[r] = 0 THEN NoFile ELSE part
  /\ UNCHANGED <<tee, output, aside, writerVars, streamVars, emitted, report>>

\* Mutant: a broken writer is closed like any other.
CloseWithoutTruncate(r) ==
  /\ Goto(r, "closing", "renaming")
  /\ disk' = [disk EXCEPT ![r] = @ \o buf[r]]
  /\ buf' = [buf EXCEPT ![r] = <<>>]
  /\ UNCHANGED <<tee, dirVars, count, broken, streamVars, emitted,
                 interrupted, report>>

\* finalize(): flush, cut what follows the last good line, close.
Close(r) ==
  /\ Goto(r, "closing", "renaming")
  /\ disk' = [disk EXCEPT ![r] = IF broken[r] THEN Prefix(@ \o buf[r], 2 * count[r])
                                              ELSE @ \o buf[r]]
  /\ buf' = [buf EXCEPT ![r] = <<>>]
  /\ UNCHANGED <<tee, dirVars, count, broken, streamVars, emitted,
                 interrupted, report>>

\* finalize() raised: the .part is kept and named in the error.
CloseFails(r) ==
  /\ Goto(r, "closing", "kept")
  /\ \E k \in 0 .. Len(buf[r]) :
       disk' = [disk EXCEPT ![r] = @ \o Prefix(buf[r], k)]
  /\ buf' = [buf EXCEPT ![r] = <<>>]
  /\ UNCHANGED <<tee, dirVars, count, broken, streamVars, emitted,
                 interrupted, report>>

\* Whatever file has the name <output>.part becomes <output>.
Rename(r) ==
  /\ Goto(r, "renaming", "done")
  /\ part # NoFile
  /\ output' = part
  /\ part' = NoFile
  /\ report' = [report EXCEPT ![r] = IF broken[r] THEN "short" ELSE "ok"]
  /\ UNCHANGED <<tee, aside, writerVars, streamVars, emitted, interrupted>>

RenameFails(r) ==
  /\ Goto(r, "renaming", "kept")
  /\ UNCHANGED <<tee, dirVars, writerVars, streamVars, emitted, interrupted,
                 report>>

\* SIGKILL: what only the process had is gone.
Kill(r) ==
  /\ pc[r] \in Live
  /\ pc' = [pc EXCEPT ![r] = "killed"]
  /\ buf' = [buf EXCEPT ![r] = <<>>]
  /\ UNCHANGED <<tee, dirVars, disk, count, broken, streamVars, emitted,
                 interrupted, report>>

\* The user moves a stranded .part away, as the refusal asks.
MoveAside ==
  /\ part # NoFile /\ pc[part] \in Stranded
  /\ aside' = aside \cup {part}
  /\ part' = NoFile
  /\ UNCHANGED <<pc, tee, output, writerVars, streamVars, emitted,
                 interrupted, report>>

Run(r) ==
  \/ Open(r) \/ Refuse(r) \/ ConnectOk(r) \/ ConnectFails(r)
  \/ InterruptWait(r) \/ WriteOk(r) \/ WriteFails(r) \/ WriteSkipped(r)
  \/ Hand(r) \/ Send(r) \/ TraceEnds(r) \/ FinishReturns(r) \/ Interrupt(r)
  \/ Close(r) \/ CloseFails(r) \/ Rename(r) \/ RenameFails(r) \/ Kill(r)

Next == MoveAside \/ \E r \in Runs : Run(r)

Spec == Init /\ [][Next]_vars
-----------------------------------------------------------------------------
\* Every variable stays in its range, and no run counts lines it never made.
TypeOK ==
  /\ pc \in [Runs -> Live \cup Stranded \cup {"idle", "refused", "failed", "done"}]
  /\ tee \in [Runs -> BOOLEAN]
  /\ part \in Runs \cup {NoFile} /\ output \in Runs \cup {NoFile}
  /\ aside \subseteq Runs
  /\ disk \in [Runs -> Seq((1 .. MaxEvents) \X {1, 2})]
  /\ buf \in [Runs -> Seq((1 .. MaxEvents) \X {1, 2})]
  /\ \A r \in Runs : count[r] \in 0 .. emitted[r]
  /\ broken \in [Runs -> BOOLEAN] /\ interrupted \in [Runs -> BOOLEAN]
  /\ emitted \in [Runs -> 0 .. MaxEvents]
  /\ \A r \in Runs : handed[r] \in 0 .. emitted[r] /\ sentOut[r] \in 0 .. handed[r]
  /\ report \in [Runs -> {"none", "ok", "short"}]

\* <output> is never torn: it holds exactly the lines its writer counted,
\* whole and in order, whichever writes failed on the way; and a run that
\* reports no problem wrote every event it saw.
OutputIsExact ==
  /\ output # NoFile => disk[output] = Lines(count[output])
  /\ \A r \in Runs : report[r] = "ok" => disk[r] = Lines(emitted[r])

\* What a killed or failed run salvaged stays on disk until the user takes it.
SalvageKept ==
  \A r \in Runs : pc[r] \in Stranded => part = r \/ r \in aside

\* An interrupted trace leaves no .part to make the next run refuse to start,
\* unless settling it failed or was itself killed.
InterruptFreesPath ==
  \A r \in Runs :
    interrupted[r] /\ part = r => pc[r] \in Live \cup {"kept", "killed"}
=============================================================================
