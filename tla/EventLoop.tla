------------------------------ MODULE EventLoop ------------------------------
(***************************************************************************)
(* One EventLoop (src/server/muduo/EventLoop.cc) on a thread of its own,   *)
(* made and ended by an EventLoopThread (EventLoopThread.cc), and other    *)
(* threads that give it functors to run. The lock of pendingFunctors_ is   *)
(* released before the wake-up is written, and the flags are read without  *)
(* it: each such access is a step.                                         *)
(*                                                                         *)
(* Functors are numbered in the order in which they are queued. The loop   *)
(* is left only because its owner quits it, and the owner does that when   *)
(* its other threads have returned from queueInLoop.                       *)
(***************************************************************************)
EXTENDS Naturals, SequencesExt

CONSTANTS
  Threads,       \* threads other than the loop's that queue functors
  MaxFunctors    \* bound: functors queued

ASSUME BoundAssumption == MaxFunctors \in Nat

VARIABLES
  loopAt,     \* where the loop thread is
  looping,    \* looping_
  quit,       \* quit_
  calling,    \* callingPendingFunctors_
  pending,    \* pendingFunctors_
  functors,   \* doPendingFunctors's `functors`, those still to be run
  wakeups,    \* the eventfd is readable
  published,  \* EventLoopThread::loop_ is not null
  ownerAt,    \* where the owner of the EventLoopThread is
  waking,     \* threads between the unlock and the test in queueInLoop
  queued,     \* functors queued so far
  early,      \* of those, the ones queued before loop() was entered
  ran         \* the functors that have run, in order

loopVars == <<looping, quit, calling>>
historyVars == <<queued, early, ran>>
vars == <<loopAt, loopVars, pending, functors, wakeups, published, ownerAt, waking,
          historyVars>>

Init ==
  /\ loopAt = "none" /\ ownerAt = "created"
  /\ looping = FALSE /\ quit = FALSE /\ calling = FALSE
  /\ pending = <<>> /\ functors = <<>>
  /\ wakeups = FALSE /\ published = FALSE
  /\ waking = {}
  /\ queued = 0 /\ early = 0 /\ ran = <<>>

-----------------------------------------------------------------------------
(* queueInLoop. *)

\* Faulty variant, to confirm that FunctorsInOrder can fail.
PushFront(queue, functor) == <<functor>> \o queue

Push(queue, functor) == Append(queue, functor)

\* Faulty variants, to confirm that NoFunctorSleeps and FunctorsRun can fail:
\* functors do not wake the loop for others, and threads do not wake it at all.
NeedsWakeupFromOthers(inLoopThread) == ~inLoopThread
NeedsWakeupWhileCalling(inLoopThread) == calling

\* Functors queued while the pending ones run are not seen by this iteration.
NeedsWakeup(inLoopThread) == ~inLoopThread \/ calling

\* The critical section of queueInLoop.
Enqueue ==
  /\ queued < MaxFunctors
  /\ queued' = queued + 1
  /\ pending' = Push(pending, queued + 1)
  /\ UNCHANGED <<loopAt, loopVars, functors, published, ownerAt, ran>>

\* The loop thread is in user code: the init callback, an event handler, or a
\* functor.
QueueFromLoop ==
  /\ loopAt \in {"constructed", "events", "running"}
  /\ Enqueue
  /\ wakeups' = (wakeups \/ NeedsWakeup(TRUE))
  /\ early' = IF loopAt = "constructed" THEN early + 1 ELSE early
  /\ UNCHANGED waking

QueueFromOther(thread) ==
  /\ ownerAt = "started"
  /\ thread \notin waking
  /\ Enqueue
  /\ waking' = waking \cup {thread}
  /\ UNCHANGED <<wakeups, early>>

\* `calling` is read here, without the lock.
WakeFromOther(thread) ==
  /\ thread \in waking
  /\ waking' = waking \ {thread}
  /\ wakeups' = (wakeups \/ NeedsWakeup(FALSE))
  /\ UNCHANGED <<loopAt, loopVars, pending, functors, published, ownerAt, historyVars>>

-----------------------------------------------------------------------------
(* The loop thread. *)

LoopStep(from, to) == loopAt = from /\ loopAt' = to

\* threadFunc: the EventLoop is on its stack; the init callback may use it.
Construct ==
  /\ LoopStep("starting", "constructed")
  /\ UNCHANGED <<loopVars, pending, functors, wakeups, published, ownerAt, waking,
                 historyVars>>

Publish ==
  /\ LoopStep("constructed", "published")
  /\ published' = TRUE
  /\ UNCHANGED <<loopVars, pending, functors, wakeups, ownerAt, waking, historyVars>>

\* The first lines of loop().
EnterLoop ==
  /\ LoopStep("published", "poll")
  /\ looping' = TRUE /\ quit' = FALSE
  /\ UNCHANGED <<calling, pending, functors, wakeups, published, ownerAt, waking,
                 historyVars>>

\* poll() returns with the eventfd readable, and handleRead reads it. Other
\* channels may be ready too.
PollWakeup ==
  /\ LoopStep("poll", "events")
  /\ wakeups
  /\ wakeups' = FALSE
  /\ UNCHANGED <<loopVars, pending, functors, published, ownerAt, waking, historyVars>>

\* poll() returns for another channel, or after kPollTimeMs.
PollOther ==
  /\ LoopStep("poll", "events")
  /\ ~wakeups
  /\ UNCHANGED <<loopVars, pending, functors, wakeups, published, ownerAt, waking,
                 historyVars>>

\* doPendingFunctors sets the flag before it takes the lock,
BeginPending ==
  /\ LoopStep("events", "swap")
  /\ calling' = TRUE
  /\ UNCHANGED <<looping, quit, pending, functors, wakeups, published, ownerAt, waking,
                 historyVars>>

SwapPending ==
  /\ LoopStep("swap", "functors")
  /\ functors' = pending
  /\ pending' = <<>>
  /\ UNCHANGED <<loopVars, wakeups, published, ownerAt, waking, historyVars>>

\* The next functor begins, the one before it having returned.
RunFunctor ==
  /\ LoopStep("functors", "running") \/ LoopStep("running", "running")
  /\ functors # <<>>
  /\ functors' = Tail(functors)
  /\ ran' = Append(ran, Head(functors))
  /\ UNCHANGED <<loopVars, pending, wakeups, published, ownerAt, waking, queued, early>>

AllRun == functors = <<>>

\* and resets it when all have run; then loop() tests quit_.
EndPending ==
  /\ loopAt \in {"functors", "running"}
  /\ AllRun
  /\ loopAt' = IF quit THEN "leaving" ELSE "poll"
  /\ calling' = FALSE
  /\ looping' = IF quit THEN FALSE ELSE looping
  /\ UNCHANGED <<quit, pending, functors, wakeups, published, ownerAt, waking, historyVars>>

\* The last lines of threadFunc; the EventLoop goes with its stack.
EndThread ==
  /\ LoopStep("leaving", "ended")
  /\ published' = FALSE
  /\ UNCHANGED <<loopVars, pending, functors, wakeups, ownerAt, waking, historyVars>>

LoopThread ==
  \/ Construct \/ Publish \/ EnterLoop \/ PollWakeup
  \/ BeginPending \/ SwapPending \/ RunFunctor \/ EndPending \/ EndThread

-----------------------------------------------------------------------------
(* The owner of the EventLoopThread. *)

OwnerStep(from, to) == ownerAt = from /\ ownerAt' = to

StartLoop ==
  /\ OwnerStep("created", "waiting")
  /\ loopAt' = "starting"
  /\ UNCHANGED <<loopVars, pending, functors, wakeups, published, waking, historyVars>>

\* The wait in startLoop ends, notified or not.
Started ==
  /\ OwnerStep("waiting", "started")
  /\ published
  /\ UNCHANGED <<loopAt, loopVars, pending, functors, wakeups, published, waking,
                 historyVars>>

\* ~EventLoopThread: quit() on another thread sets quit_, then wakes the loop.
Quit ==
  /\ OwnerStep("started", "quitting")
  /\ waking = {}
  /\ quit' = TRUE
  /\ UNCHANGED <<loopAt, looping, calling, pending, functors, wakeups, published, waking,
                 historyVars>>

\* Faulty variant, to confirm that QuitIsObeyed can fail.
QuitWithoutWakeup == UNCHANGED wakeups

QuitWakeup == wakeups' = TRUE

WakeToQuit ==
  /\ OwnerStep("quitting", "joining")
  /\ QuitWakeup
  /\ UNCHANGED <<loopAt, loopVars, pending, functors, published, waking, historyVars>>

Join ==
  /\ OwnerStep("joining", "joined")
  /\ loopAt = "ended"
  /\ UNCHANGED <<loopAt, loopVars, pending, functors, wakeups, published, waking,
                 historyVars>>

Owner == StartLoop \/ Started \/ Quit \/ WakeToQuit \/ Join

Next ==
  \/ LoopThread \/ PollOther \/ Owner
  \/ QueueFromLoop
  \/ \E thread \in Threads : QueueFromOther(thread) \/ WakeFromOther(thread)

Spec == Init /\ [][Next]_vars

\* The threads run. Nothing is assumed of PollOther: neither the 10 s timeout
\* nor another channel is there to make good a wake-up that is missing. The
\* owner need not quit.
Fairness ==
  /\ WF_vars(LoopThread)
  /\ WF_vars(StartLoop \/ Started \/ WakeToQuit \/ Join)
  /\ \A thread \in Threads : WF_vars(WakeFromOther(thread))

FairSpec == Spec /\ Fairness

-----------------------------------------------------------------------------
TypeOK ==
  /\ loopAt \in {"none", "starting", "constructed", "published", "poll", "events", "swap",
                 "functors", "running", "leaving", "ended"}
  /\ ownerAt \in {"created", "waiting", "started", "quitting", "joining", "joined"}
  /\ looping \in BOOLEAN /\ quit \in BOOLEAN /\ calling \in BOOLEAN
  /\ wakeups \in BOOLEAN /\ published \in BOOLEAN
  /\ waking \subseteq Threads
  /\ queued \in 0..MaxFunctors /\ early \in 0..queued
  /\ \A seq \in {pending, functors, ran} : seq \in Seq(1..MaxFunctors)
  /\ functors # <<>> => loopAt \in {"functors", "running"}
  /\ looping => loopAt \in {"poll", "events", "swap", "functors", "running"}

\* Every functor runs in its turn: those that have run, those taken and those
\* pending are the queued ones, once each and in the order of the lock.
FunctorsInOrder == ran \o functors \o pending = [i \in 1..queued |-> i]

\* When the loop is about to wait, and nothing is on its way to wake it, there
\* is nothing for it to do. The exception is what the init callback queues from
\* the loop's own thread: loop() begins with a poll, and nothing ends it.
NoFunctorSleeps ==
  (loopAt = "poll" /\ ~wakeups /\ waking = {}) =>
     \A i \in DOMAIN pending : pending[i] <= early

\* Without any help of a timeout, a functor queued from another thread, an event
\* or a functor runs, unless the loop is quit.
FunctorsRun ==
  \A functor \in 1..MaxFunctors :
    (queued >= functor /\ early < functor) ~>
      (functor \in ToSet(ran) \/ ownerAt \notin {"waiting", "started"})

\* quit() ends a loop that has been entered, and so the join in the destructor
\* returns. (Before loop() resets quit_ it is lost, and the join does not.)
QuitIsObeyed == (quit /\ looping) ~> ownerAt = "joined"

=============================================================================
