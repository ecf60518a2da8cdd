---------------------------- MODULE AsyncLogging ----------------------------
(***************************************************************************)
(* AsyncLogging (src/server/muduo/AsyncLogging.cc): threads append lines to *)
(* a buffer under a lock; a writing thread exchanges the buffers for empty  *)
(* ones every few seconds, or when one is full, and writes them with the    *)
(* lock released. running_ is read and set without the lock.               *)
(*                                                                         *)
(* A line is a number, given in the order of the lock, and a buffer the    *)
(* sequence of the lines in it. `out` is stdout; the log file gets the     *)
(* same lines whenever it can be opened.                                   *)
(***************************************************************************)
EXTENDS Naturals, SequencesExt

CONSTANTS
  MaxLines,     \* bound: lines appended
  Null          \* a unique_ptr that has been moved from

ASSUME NullAssumption == MaxLines \in Nat /\ Null \notin Seq(1..MaxLines)

VARIABLES
  current,      \* currentBuffer_
  next,         \* nextBuffer_
  buffers,      \* buffers_
  newBuffer1,   \* the writing thread's
  newBuffer2,   \* two spare buffers
  toWrite,      \* its buffersToWrite
  running,      \* running_
  writerAt,     \* where the writing thread is
  notified,     \* it has been notified since it blocked
  stopperAt,    \* where the caller of stop() is
  appended,     \* lines appended
  out           \* lines written

sharedVars == <<current, next, buffers, appended>>
ownVars == <<newBuffer1, newBuffer2, toWrite, out>>
logVars == <<sharedVars, ownVars, running, writerAt, notified, stopperAt>>

Empty == <<>>

LogInit ==
  /\ current = Empty /\ next = Empty /\ buffers = <<>>
  /\ newBuffer1 = Empty /\ newBuffer2 = Empty /\ toWrite = <<>>
  /\ running = FALSE /\ writerAt = "none" /\ notified = FALSE /\ stopperAt = "none"
  /\ appended = 0 /\ out = <<>>

-----------------------------------------------------------------------------
\* A notification is lost on a thread that has not blocked.
Notify == notified' = (notified \/ writerAt = "blocked")

\* wait_for holds the lock until it blocks.
LockIsFree == writerAt # "checked"

\* log() starts the logging before it appends its first line.
MayAppend == stopperAt # "none" /\ LockIsFree /\ appended < MaxLines

Start ==
  /\ stopperAt = "none"
  /\ running' = TRUE /\ writerAt' = "top" /\ stopperAt' = "started"
  /\ UNCHANGED <<sharedVars, ownVars, notified>>

\* The line fits into the current buffer.
AppendInPlace ==
  /\ MayAppend
  /\ current' = Append(current, appended + 1)
  /\ appended' = appended + 1
  /\ UNCHANGED <<next, buffers, ownVars, running, writerAt, notified, stopperAt>>

\* It does not: an empty buffer would have had room for any line.
AppendToNext ==
  /\ MayAppend
  /\ current # Empty
  /\ buffers' = Append(buffers, current)
  /\ current' = Append(IF next = Null THEN Empty ELSE next, appended + 1)
  /\ next' = Null
  /\ appended' = appended + 1
  /\ Notify
  /\ UNCHANGED <<ownVars, running, writerAt, stopperAt>>

\* stop() sets the flag, notifies, and joins.
SetStop ==
  /\ stopperAt = "started" /\ stopperAt' = "flagged"
  /\ running' = FALSE
  /\ UNCHANGED <<sharedVars, ownVars, writerAt, notified>>

NotifyStop ==
  /\ stopperAt = "flagged" /\ stopperAt' = "joining"
  /\ Notify
  /\ UNCHANGED <<sharedVars, ownVars, running, writerAt>>

Join ==
  /\ stopperAt = "joining" /\ writerAt = "ended"
  /\ stopperAt' = "joined"
  /\ UNCHANGED <<sharedVars, ownVars, running, writerAt, notified>>

-----------------------------------------------------------------------------
(* threadFunc. *)

WriterStep(from, to) ==
  writerAt = from /\ writerAt' = to /\ UNCHANGED <<running, stopperAt>>

\* while(running_), and the test that follows the writing.
Test ==
  /\ WriterStep("top", IF running THEN "waiting" ELSE "ended")
  /\ UNCHANGED <<sharedVars, ownVars, notified>>

TestAgain ==
  /\ WriterStep("written", IF running THEN "top" ELSE "ended")
  /\ UNCHANGED <<sharedVars, ownVars, notified>>

\* The predicate of wait_for.
ThingsToDo == ~running \/ buffers # <<>>

\* The rest of the critical section, up to the swap.
Take ==
  /\ toWrite' = Append(buffers, current)
  /\ buffers' = <<>>
  /\ current' = newBuffer1 /\ newBuffer1' = Null
  /\ IF next = Null THEN next' = newBuffer2 /\ newBuffer2' = Null
                    ELSE UNCHANGED <<next, newBuffer2>>
  /\ UNCHANGED <<appended, out>>

\* The predicate holds.
TakeNow ==
  /\ WriterStep("waiting", "writing")
  /\ ThingsToDo
  /\ Take
  /\ UNCHANGED notified

\* It does not; running_ may change before the thread has blocked.
Wait ==
  /\ WriterStep("waiting", "checked")
  /\ ~ThingsToDo
  /\ UNCHANGED <<sharedVars, ownVars, notified>>

Block ==
  /\ WriterStep("checked", "blocked")
  /\ notified' = FALSE
  /\ UNCHANGED <<sharedVars, ownVars>>

\* Notified: the predicate is tried again.
Wake ==
  /\ WriterStep("blocked", "waiting")
  /\ notified
  /\ UNCHANGED <<sharedVars, ownVars, notified>>

\* Faulty variants, to confirm that LinesAreWritten and StopReturns can fail:
\* after the timeout the thread waits again, or there is no timeout.
TimeoutAndWait ==
  /\ WriterStep("blocked", "waiting")
  /\ UNCHANGED <<sharedVars, ownVars, notified>>
NoTimeout == FALSE /\ UNCHANGED logVars

\* flushInterval_ is over: the buffers are taken, whatever there is in them.
Timeout ==
  /\ WriterStep("blocked", "writing")
  /\ Take
  /\ UNCHANGED notified

\* Faulty variant, to confirm that LinesInOrder can fail.
NotReset(buffer) == buffer

Reset(buffer) == Empty

HasSecond == Len(toWrite) > 1

\* The buffers are written, and the first two kept where one is missing;
\* newBuffer1 has always been given away.
Write ==
  /\ WriterStep("writing", "written")
  /\ out' = out \o FlattenSeq(toWrite)
  /\ newBuffer1' = Reset(toWrite[1])
  /\ newBuffer2' = IF newBuffer2 = Null /\ HasSecond THEN Reset(toWrite[2]) ELSE newBuffer2
  /\ toWrite' = <<>>
  /\ UNCHANGED <<sharedVars, notified>>

Writer == Test \/ TestAgain \/ TakeNow \/ Wait \/ Block \/ Wake \/ Timeout \/ Write

LogNext ==
  \/ Start \/ AppendInPlace \/ AppendToNext
  \/ SetStop \/ NotifyStop \/ Join
  \/ Writer

LogSpec == LogInit /\ [][LogNext]_logVars

\* The writing thread runs, its waits time out, and stop() goes on once begun.
LogFairness == WF_logVars(Writer) /\ WF_logVars(NotifyStop \/ Join)

FairLogSpec == LogSpec /\ LogFairness

-----------------------------------------------------------------------------
Buffer == Seq(1..MaxLines)

\* append() and the swap never meet a buffer that has been moved away, and the
\* writing thread has both its spare ones whenever it is not writing: however
\* many buffers are filled meanwhile, it never has to make one.
LogTypeOK ==
  /\ current \in Buffer /\ next \in {Empty, Null}
  /\ buffers \in Seq(Buffer) /\ toWrite \in Seq(Buffer)
  /\ newBuffer1 \in {Empty, Null} /\ newBuffer2 \in {Empty, Null}
  /\ writerAt # "writing" => newBuffer1 = Empty /\ newBuffer2 = Empty
  /\ running \in BOOLEAN /\ notified \in BOOLEAN
  /\ writerAt \in {"none", "top", "waiting", "checked", "blocked", "writing", "written", "ended"}
  /\ stopperAt \in {"none", "started", "flagged", "joining", "joined"}
  /\ appended \in 0..MaxLines
  /\ out \in Buffer

\* At any moment the lines written, those being written, those in full buffers
\* and those in the current one are the lines appended, in order: buffers that
\* go round between the threads neither lose, repeat nor mix up a line.
LinesInOrder ==
  out \o FlattenSeq(toWrite) \o FlattenSeq(buffers) \o current = [i \in 1..appended |-> i]

\* Every line is written, also the last one in a buffer that never fills, unless
\* stop() is called. (What is appended after the last swap before stop() is not.)
LinesAreWritten ==
  \A line \in 1..MaxLines :
    appended >= line ~> (line \in ToSet(out) \/ stopperAt # "started")

\* stop() returns, though it notifies without the lock and may do so before the
\* thread that has seen running_ set has blocked.
StopReturns == stopperAt = "flagged" ~> stopperAt = "joined"

=============================================================================
