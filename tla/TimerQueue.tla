----------------------------- MODULE TimerQueue -----------------------------
(***************************************************************************)
(* TimerQueue (src/server/muduo/TimerQueue.cc): the timers of one loop     *)
(* behind one timerfd. GameServer's matchmaking tick is the repeating      *)
(* timer of this queue that nobody cancels; the interface lets any handler *)
(* and any callback add and cancel timers, and so does this module.        *)
(*                                                                         *)
(* Times are relative: an `expiration` is the time left until it by the    *)
(* wall clock, negative once it has passed, in units of 100 us, the least  *)
(* howMuchTimeFromNow returns. Expirations are wall-clock times while the  *)
(* timerfd counts CLOCK_MONOTONIC; AdjustClock moves one against the other.*)
(***************************************************************************)
EXTENDS Integers, UnorderedMap

CONSTANTS
  Addresses,     \* where operator new may put a Timer
  Delays,        \* times from now at which a new timer may be due
  Intervals,     \* intervals of new timers, 0 for one that does not repeat
  Adjustments,   \* amounts by which the wall clock may be set forward
  MaxSequence,   \* bound: timers created
  MaxLate,       \* bound: how long the loop, when it has something to do, is late
  MaxAdjusted    \* bound: adjustments of the wall clock

ASSUME TimesAssumption ==
  /\ Delays \subseteq Int
  /\ Intervals \subseteq Nat
  /\ Adjustments \subseteq Int
  /\ MaxSequence \in Nat /\ MaxLate \in Nat /\ MaxAdjusted \in Nat

VARIABLES
  heap,          \* the Timer objects alive: address -> Timer
  numCreated,    \* Timer::s_numCreated_
  timers,        \* timers_, whose order is that of the expirations
  activeTimers,  \* activeTimers_
  callingExpired, \* callingExpiredTimers_: the loop is in handleRead
  canceling,     \* cancelingTimers_
  expired,       \* handleRead's `expired`
  toRun,         \* those of them it has yet to run
  running,       \* the one whose callback has the loop, or NoTimer
  start,         \* handleRead's `now`
  armed,         \* time until the timerfd is readable, or Disarmed
  polled,        \* the last poll found it readable
  ahead,         \* how far the wall clock was set forward since it was armed
  adjusted,      \* how often the wall clock was set
  issued,        \* the TimerIds addTimer has returned
  cancelled      \* those that have been cancelled

queueVars == <<heap, numCreated, timers, activeTimers, canceling, issued, cancelled>>
batchVars == <<callingExpired, expired, toRun, running, start>>
clockVars == <<armed, polled, ahead, adjusted>>
timerVars == <<queueVars, batchVars, clockVars>>

\* A TimerId, an Entry and an ActiveTimer are all an address with a sequence.
TimerIds == Addresses \X (1..MaxSequence)
NoTimer == <<>>
Disarmed == -1

ExpirationOf(id) == heap[id[1]].expiration
Repeats(id) == heap[id[1]].interval > 0

TimerInit ==
  /\ heap = <<>> /\ numCreated = 0
  /\ timers = {} /\ activeTimers = {} /\ canceling = {}
  /\ issued = {} /\ cancelled = {}
  /\ callingExpired = FALSE /\ expired = {} /\ toRun = {} /\ running = NoTimer /\ start = 0
  /\ armed = Disarmed /\ polled = FALSE /\ ahead = 0 /\ adjusted = 0

-----------------------------------------------------------------------------
\* Faulty variant, to confirm that RepeatingTimersFire can fail: what is due
\* already is not put off by the least amount.
TimeFromNowUnchecked(left) == left

\* howMuchTimeFromNow, for something due in `left`.
TimeFromNow(left) == IF left < 1 THEN 1 ELSE left

\* timerfd_settime: zero disarms, and a negative value is refused.
SetTime(value) == CASE value > 0 -> value [] value = 0 -> Disarmed [] OTHER -> armed

ResetTimerfd(left) == armed' = SetTime(TimeFromNow(left)) /\ ahead' = 0

\* Timers are added and cancelled by functors and handlers between two
\* handleReads, or by the callback of a timer.
CallerHasTheLoop == ~callingExpired \/ running # NoTimer

\* Faulty variant, to confirm that ArmedInTime can fail: only an empty queue is
\* thought to have a new first.
EarliestIsOnly(when) == timers = {}

\* insert: the new timer is due before every other.
EarliestChanged(when) == \A id \in timers : when < ExpirationOf(id)

\* ++s_numCreated_. (The sentry of getExpired is a Timer too and takes a number of
\* its own; only the order of the numbers matters, so it is not counted.)
NextSequence == numCreated + 1

\* A Timer is made and added. The id is returned whether or not the timer
\* has fired by the time it is used.
AddTimer(address, delay, interval) ==
  LET id == <<address, NextSequence>> IN
  /\ CallerHasTheLoop
  /\ address \notin DOMAIN heap
  /\ numCreated < MaxSequence
  /\ numCreated' = numCreated + 1
  /\ heap' = Put(heap, address,
               [sequence |-> NextSequence, expiration |-> delay, interval |-> interval])
  /\ timers' = timers \cup {id}
  /\ activeTimers' = activeTimers \cup {id}
  /\ issued' = issued \cup {id}
  /\ IF EarliestChanged(delay) THEN ResetTimerfd(delay) ELSE UNCHANGED <<armed, ahead>>
  /\ UNCHANGED <<batchVars, canceling, cancelled, polled, adjusted>>

\* Faulty variant, to confirm that MemorySafe can fail: a timer of the batch is
\* deleted at once.
CancelAndDelete(id) ==
  /\ CallerHasTheLoop
  /\ id \in issued
  /\ cancelled' = cancelled \cup {id}
  /\ timers' = timers \ {id}
  /\ activeTimers' = activeTimers \ {id}
  /\ heap' = IF id \in activeTimers \cup expired THEN Erase(heap, id[1]) ELSE heap
  /\ UNCHANGED <<numCreated, canceling, issued, batchVars, clockVars>>

\* cancelInLoop, with an id returned at any time before.
Cancel(id) ==
  /\ CallerHasTheLoop
  /\ id \in issued
  /\ cancelled' = cancelled \cup {id}
  /\ IF id \in activeTimers
       THEN /\ timers' = timers \ {id}
            /\ activeTimers' = activeTimers \ {id}
            /\ heap' = Erase(heap, id[1])
            /\ UNCHANGED canceling
       ELSE /\ canceling' = IF callingExpired THEN canceling \cup {id} ELSE canceling
            /\ UNCHANGED <<heap, timers, activeTimers>>
  /\ UNCHANGED <<numCreated, issued, batchVars, clockVars>>

-----------------------------------------------------------------------------
\* poll() returns with the timerfd readable. Other channels of the same batch
\* may be handled before handleRead is.
Poll ==
  /\ ~callingExpired /\ ~polled
  /\ armed = 0
  /\ polled' = TRUE
  /\ UNCHANGED <<queueVars, batchVars, armed, ahead, adjusted>>

\* handleRead up to its loop: readTimerfd, which finds nothing if the timerfd
\* was set again since the poll, and getExpired.
HandleRead ==
  /\ ~callingExpired /\ polled
  /\ polled' = FALSE
  /\ armed' = IF armed = 0 THEN Disarmed ELSE armed
  /\ expired' = {id \in timers : ExpirationOf(id) <= 0}
  /\ timers' = timers \ expired'
  /\ activeTimers' = activeTimers \ expired'
  /\ toRun' = expired'
  /\ start' = 0
  /\ callingExpired' = TRUE
  /\ canceling' = {}
  /\ UNCHANGED <<heap, numCreated, running, ahead, adjusted, issued, cancelled>>

IsBefore(id, other) ==
  \/ ExpirationOf(id) < ExpirationOf(other)
  \/ ExpirationOf(id) = ExpirationOf(other) /\ id[2] <= other[2]

\* The next callback begins, the one before it having returned.
Run(id) ==
  /\ callingExpired
  /\ id \in toRun
  /\ \A other \in toRun : IsBefore(id, other)
  /\ toRun' = toRun \ {id}
  /\ running' = id
  /\ UNCHANGED <<queueVars, callingExpired, expired, start, clockVars>>

\* Faulty variant, to confirm that CancelIsFinal can fail: cancelingTimers_ is
\* not looked at.
RestartedAnyway == {id \in expired : Repeats(id)}

\* Of the expired timers, those reset restarts.
Restarted == {id \in expired : Repeats(id) /\ id \notin canceling}

\* reset's first loop: restart and insert, or delete.
HeapAfterReset ==
  [address \in DOMAIN heap \ {id[1] : id \in expired \ Restarted} |->
     IF address \in {id[1] : id \in Restarted}
       THEN [heap[address] EXCEPT !.expiration = start + heap[address].interval]
       ELSE heap[address]]

\* The last callback has returned: reset, and handleRead returns.
Reset ==
  /\ callingExpired
  /\ toRun = {}
  /\ heap' = HeapAfterReset
  /\ timers' = timers \cup Restarted
  /\ activeTimers' = activeTimers \cup Restarted
  /\ IF timers' = {} THEN UNCHANGED <<armed, ahead>>
     ELSE \E first \in timers' :
            /\ \A id \in timers' : ExpirationOf(first)' <= ExpirationOf(id)'
            /\ ResetTimerfd(heap'[first[1]].expiration)
  /\ callingExpired' = FALSE /\ expired' = {} /\ running' = NoTimer /\ start' = 0
  /\ UNCHANGED <<numCreated, canceling, issued, cancelled, toRun, polled, adjusted>>

-----------------------------------------------------------------------------
\* All that is `left` of every time, after the wall clock has gone `by`.
Sooner(by) ==
  /\ heap' = [address \in DOMAIN heap |-> [heap[address] EXCEPT !.expiration = @ - by]]
  /\ start' = IF callingExpired THEN start - by ELSE start
  /\ callingExpired \/ armed <= 0 =>
       /\ \A address \in DOMAIN heap : heap[address].expiration - by >= -MaxLate
       /\ start' >= -MaxLate
  /\ UNCHANGED <<numCreated, timers, activeTimers, canceling, issued, cancelled,
                 callingExpired, expired, toRun, running, polled>>

\* Time passes, between callbacks and within them.
Pass ==
  /\ Sooner(1)
  /\ armed' = IF armed > 0 THEN armed - 1 ELSE armed
  /\ UNCHANGED <<ahead, adjusted>>

\* Somebody sets the wall clock; the timerfd takes no notice.
AdjustClock(by) ==
  /\ adjusted < MaxAdjusted
  /\ Sooner(by)
  /\ adjusted' = adjusted + 1
  /\ ahead' = IF by > 0 THEN ahead + by ELSE ahead
  /\ UNCHANGED armed

TimerNext ==
  \/ \E address \in Addresses, delay \in Delays, interval \in Intervals :
       AddTimer(address, delay, interval)
  \/ \E id \in TimerIds : Cancel(id) \/ Run(id)
  \/ Poll \/ HandleRead \/ Reset
  \/ Pass
  \/ \E by \in Adjustments : AdjustClock(by)

TimerSpec == TimerInit /\ [][TimerNext]_timerVars

\* The loop polls, handles what it polled, and its callbacks return; time goes
\* on. Nobody has to add or cancel a timer, or leave the clock alone for good.
TimerFairness ==
  /\ WF_timerVars(Poll) /\ WF_timerVars(HandleRead) /\ WF_timerVars(Reset)
  /\ WF_timerVars(Pass)
  /\ WF_timerVars(\E id \in TimerIds : Run(id))

FairTimerSpec == TimerSpec /\ TimerFairness

-----------------------------------------------------------------------------
TimerTypeOK ==
  /\ IsTable(heap, Addresses, [sequence : 1..MaxSequence, expiration : Int,
                               interval : Intervals])
  /\ numCreated \in 0..MaxSequence
  /\ timers \subseteq TimerIds /\ activeTimers \subseteq TimerIds
  /\ canceling \subseteq TimerIds /\ issued \subseteq TimerIds /\ cancelled \subseteq issued
  /\ callingExpired \in BOOLEAN /\ polled \in BOOLEAN
  /\ expired \subseteq TimerIds /\ toRun \subseteq expired
  /\ running \in expired \cup {NoTimer}
  /\ start \in Int
  /\ armed \in Nat \cup {Disarmed}
  /\ ahead \in Nat /\ adjusted \in Nat

\* The pointers of TimerQueue are those of live timers, and every live timer
\* is owned once: the two sets hold the same timers, a batch holds others, and
\* what is in neither has been deleted. A callback that cancels itself, a later
\* one of its batch, or a timer long gone whose address has been given to
\* another, must neither free a timer twice nor leave a pointer to it.
MemorySafe ==
  /\ timers = activeTimers
  /\ timers \cap expired = {}
  /\ \A id \in timers \cup expired :
       id[1] \in DOMAIN heap /\ heap[id[1]].sequence = id[2]
  /\ \A address \in DOMAIN heap : \E id \in timers \cup expired : id[1] = address

\* A timer that has been cancelled may run once more, if it is in the batch that
\* is being run, but it never comes back to the queue.
CancelIsFinal == cancelled \cap activeTimers = {}

\* Whenever the loop waits, the timerfd is going to wake it for the earliest
\* timer, late by no more than the wall clock was set forward meanwhile.
\* Adding and cancelling re-arm it only now and then, a callback may do both,
\* and cancelling the earliest timer leaves it armed for nobody.
ArmedInTime ==
  ~callingExpired /\ ~polled =>
    \A id \in timers :
      armed # Disarmed /\ armed <= TimeFromNow(ExpirationOf(id) + ahead)

\* A repeating timer fires again and again until it is cancelled, whatever other
\* timers and callbacks do, how ever late the loop is, and even if the wall
\* clock is set back: the matchmaking tick never stops.
RepeatingTimersFire ==
  \A id \in TimerIds :
    (id \in activeTimers /\ Repeats(id)) ~> (running = id \/ id \in cancelled)

=============================================================================
