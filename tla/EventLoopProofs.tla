--------------------------- MODULE EventLoopProofs ---------------------------
(***************************************************************************)
(* An EventLoop and the TimerQueue it has, each by itself. No functor is   *)
(* left to the timeout of poll, and none runs before its turn, for any     *)
(* number of threads and functors. TimerQueue keeps its memory and its     *)
(* timerfd in order, for any timers, delays and intervals, any lateness of *)
(* the loop, and any adjustments of the wall clock.                        *)
(***************************************************************************)
EXTENDS EventLoop, TimerQueue, TLAPS

-----------------------------------------------------------------------------
(* The functors. *)

\* Until the loop is published nobody but its own thread has queued anything.
Private ==
  /\ loopAt = "none" <=> ownerAt = "created"
  /\ published => loopAt \notin {"none", "starting", "constructed"}
  /\ ~published => ownerAt \in {"created", "waiting"} \/ loopAt = "ended"
  /\ ownerAt \in {"created", "waiting"} /\ loopAt \in {"none", "starting", "constructed"}
       => waking = {} /\ early = queued

\* Except while the loop is sure to look at them before it polls, functors that
\* nothing is going to wake it for are those of the init callback. While it
\* runs functors, `calling` says so to whoever queues another.
Covered ==
  /\ queued \in Nat /\ early \in Nat
  /\ pending \in Seq(Nat)
  /\ loopAt \in {"swap", "functors", "running"} => calling
  /\ wakeups \in BOOLEAN
  /\ ~wakeups /\ waking = {} /\ loopAt \notin {"events", "swap"} =>
       \A i \in DOMAIN pending : pending[i] <= early

SleepInv == Private /\ Covered

LEMMA SleepInvInit == Init => SleepInv
<1> SUFFICES ASSUME Init PROVE SleepInv
  OBVIOUS
<1>1. Private
  BY DEF Init, Private
<1>2. pending \in Seq(Nat) /\ DOMAIN pending = {}
  BY DEF Init
<1>3. wakeups \in BOOLEAN
  BY Zenon DEF Init
<1>4. Covered
  BY <1>2, <1>3 DEF Init, Covered
<1> QED BY <1>1, <1>4 DEF SleepInv

\* A functor at the end of the queue is seen, announced, or of the init callback.
LEMMA QueueFromLoopInv == ASSUME SleepInv, QueueFromLoop PROVE SleepInv'
<1> USE DEF SleepInv
<1>1. /\ pending' = Append(pending, queued + 1) /\ queued' = queued + 1
      /\ UNCHANGED <<loopAt, calling, published, ownerAt, waking>>
      /\ loopAt \in {"constructed", "events", "running"}
      /\ wakeups' = (wakeups \/ NeedsWakeup(TRUE))
      /\ early' = IF loopAt = "constructed" THEN early + 1 ELSE early
  BY DEF QueueFromLoop, Enqueue, Push, loopVars
<1>2. pending' \in Seq(Nat) /\ queued' \in Nat /\ early' \in Nat /\ wakeups' \in BOOLEAN
  BY <1>1 DEF Covered
<1>3. \A i \in DOMAIN pending' :
        (i \in DOMAIN pending /\ pending'[i] = pending[i]) \/ pending'[i] = queued + 1
  BY <1>1 DEF Covered
<1>4. Private'
  BY <1>1 DEF Private
<1>5. CASE loopAt = "constructed"
  <2>1. early = queued /\ ~published
    BY <1>5 DEF Private
  <2>2. ~wakeups' => ~wakeups
    BY <1>1, Zenon
  <2>3. ~wakeups' /\ waking' = {} => \A i \in DOMAIN pending : pending[i] <= early
    BY <1>1, <1>5, <2>2 DEF Covered
  <2>4. ~wakeups' /\ waking' = {} => \A i \in DOMAIN pending' : pending'[i] <= early'
    BY <1>1, <1>3, <1>5, <2>1, <2>3 DEF Covered
  <2> QED BY <1>1, <1>2, <1>4, <1>5, <2>4 DEF Covered
<1>6. CASE loopAt = "events"
  BY <1>1, <1>2, <1>4, <1>6 DEF Covered
<1>7. CASE loopAt = "running"
  BY <1>1, <1>2, <1>4, <1>7 DEF Covered, NeedsWakeup
<1> QED BY <1>1, <1>5, <1>6, <1>7

LEMMA QueueFromOtherInv ==
  ASSUME SleepInv, NEW thread \in Threads, QueueFromOther(thread)
  PROVE  SleepInv'
<1>1. /\ pending' = Append(pending, queued + 1) /\ queued' = queued + 1
      /\ UNCHANGED <<loopAt, calling, published, ownerAt, wakeups, early>>
      /\ ownerAt = "started"
      /\ waking' = waking \cup {thread}
  BY DEF QueueFromOther, Enqueue, Push, loopVars
<1> QED BY <1>1 DEF SleepInv, Private, Covered

LEMMA WakeFromOtherInv ==
  ASSUME SleepInv, NEW thread \in Threads, WakeFromOther(thread)
  PROVE  SleepInv'
<1>1. /\ wakeups' = TRUE
      /\ UNCHANGED <<loopAt, calling, published, ownerAt, pending, queued, early>>
      /\ waking' = waking \ {thread} /\ waking # {}
  BY DEF WakeFromOther, NeedsWakeup, loopVars, historyVars
<1> QED BY <1>1 DEF SleepInv, Private, Covered

LEMMA SleepInvNext == SleepInv /\ [Next]_vars => SleepInv'
<1> SUFFICES ASSUME SleepInv, [Next]_vars PROVE SleepInv'
  OBVIOUS
<1> USE DEF SleepInv, Private, Covered, loopVars, historyVars, LoopStep, OwnerStep
<1>1. CASE LoopThread
  <2>1. CASE Construct
    BY <2>1 DEF Construct
  <2>4. CASE Publish
    BY <2>4 DEF Publish
  <2>5. CASE EnterLoop
    BY <2>5 DEF EnterLoop
  <2>2. CASE PollWakeup \/ BeginPending
    BY <2>2 DEF PollWakeup, BeginPending
  <2>6. CASE SwapPending
    <3>1. pending' \in Seq(Nat) /\ DOMAIN pending' = {}
      BY <2>6 DEF SwapPending
    <3> QED BY <2>6, <3>1 DEF SwapPending
  <2>3. CASE RunFunctor \/ EndPending \/ EndThread
    BY <2>3 DEF RunFunctor, EndPending, EndThread
  <2> QED BY <1>1, <2>1, <2>2, <2>3, <2>4, <2>5, <2>6 DEF LoopThread
<1>2. CASE Owner
  <2>1. CASE StartLoop
    BY <2>1 DEF StartLoop
  <2>2. CASE Started
    BY <2>2 DEF Started
  <2>3. CASE Quit
    BY <2>3 DEF Quit
  <2>4. CASE WakeToQuit
    BY <2>4 DEF WakeToQuit, QuitWakeup
  <2>5. CASE Join
    BY <2>5 DEF Join
  <2> QED BY <1>2, <2>1, <2>2, <2>3, <2>4, <2>5 DEF Owner
<1>3. CASE PollOther \/ UNCHANGED vars
  BY <1>3 DEF PollOther, vars
<1> QED BY <1>1, <1>2, <1>3, QueueFromLoopInv, QueueFromOtherInv, WakeFromOtherInv DEF Next

-----------------------------------------------------------------------------
\* A loop that waits with nothing to wake it has nothing to do, but what its
\* own thread queued before it entered the loop.
THEOREM NoFunctorEverSleeps == Spec => []NoFunctorSleeps
<1>1. SleepInv => NoFunctorSleeps
  BY DEF SleepInv, Covered, NoFunctorSleeps
<1> QED BY <1>1, SleepInvInit, SleepInvNext, PTL DEF Spec

-----------------------------------------------------------------------------
\* A batch is taken only when none is left of the one before.
BatchTaken ==
  /\ pending \in Seq(Nat) /\ functors \in Seq(Nat) /\ ran \in Seq(Nat)
  /\ functors # <<>> => loopAt \in {"functors", "running"}

OrderInv == SleepInv /\ BatchTaken /\ FunctorsInOrder

\* No functor is pending, taken or run at the start.
LEMMA OrderInvInit == Init => OrderInv
<1> SUFFICES ASSUME Init PROVE OrderInv
  OBVIOUS
<1>1. SleepInv
  BY SleepInvInit
<1>2. BatchTaken
  BY DEF Init, BatchTaken
<1>3. FunctorsInOrder
  <2>1. <<>> \o <<>> \o <<>> = <<>> /\ [i \in 1..0 |-> i] = <<>>
    OBVIOUS
  <2> QED  BY <2>1 DEF Init, FunctorsInOrder
<1> QED
  BY <1>1, <1>2, <1>3 DEF OrderInv

\* The critical section puts the next functor last.
LEMMA EnqueueInOrder ==
  ASSUME OrderInv, Enqueue
  PROVE  BatchTaken' /\ FunctorsInOrder'
<1>1. /\ pending' = Append(pending, queued + 1) /\ queued' = queued + 1
      /\ UNCHANGED <<loopAt, functors, ran>>
  BY DEF Enqueue, Push
<1>2. queued \in Nat /\ pending \in Seq(Nat) /\ functors \in Seq(Nat) /\ ran \in Seq(Nat)
  BY DEF OrderInv, SleepInv, Covered, BatchTaken
<1>3. BatchTaken'
  BY <1>1, <1>2 DEF OrderInv, BatchTaken
<1> DEFINE before == ran \o functors
<1>4. before \in Seq(Nat)
  BY <1>2
<1>5. FunctorsInOrder'
  <2> HIDE DEF before
  <2>1. before \o pending = [i \in 1..queued |-> i]
    BY DEF OrderInv, FunctorsInOrder, before
  <2>2. before \o Append(pending, queued + 1) = Append(before \o pending, queued + 1)
    BY <1>2, <1>4
  <2>3. Append([i \in 1..queued |-> i], queued + 1) = [i \in 1..(queued + 1) |-> i]
    BY <1>2
  <2>4. before \o pending' = [i \in 1..queued' |-> i]
    BY <1>1, <2>1, <2>2, <2>3
  <2> QED  BY <1>1, <2>4 DEF FunctorsInOrder, before
<1> QED
  BY <1>3, <1>5

\* The lock hands the whole batch over.
LEMMA SwapInOrder ==
  ASSUME OrderInv, SwapPending
  PROVE  BatchTaken' /\ FunctorsInOrder'
<1>1. /\ functors' = pending /\ pending' = <<>> /\ UNCHANGED <<ran, queued>>
      /\ loopAt' = "functors" /\ functors = <<>>
  BY DEF SwapPending, LoopStep, historyVars, OrderInv, BatchTaken
<1>2. pending \in Seq(Nat) /\ ran \in Seq(Nat)
  BY DEF OrderInv, BatchTaken
<1>3. ran \o <<>> \o pending = ran \o pending \o <<>>
  BY <1>2
<1> QED
  BY <1>1, <1>2, <1>3 DEF OrderInv, BatchTaken, FunctorsInOrder

\* The first of the batch runs next.
LEMMA RunInOrder ==
  ASSUME OrderInv, RunFunctor
  PROVE  BatchTaken' /\ FunctorsInOrder'
<1>1. /\ functors # <<>> /\ functors' = Tail(functors) /\ ran' = Append(ran, Head(functors))
      /\ UNCHANGED <<pending, queued>> /\ loopAt' = "running"
  BY DEF RunFunctor, LoopStep
<1>2. pending \in Seq(Nat) /\ functors \in Seq(Nat) /\ ran \in Seq(Nat)
  BY DEF OrderInv, BatchTaken
<1>3. Head(functors) \in Nat /\ Tail(functors) \in Seq(Nat)
  BY <1>1, <1>2
<1>4. Append(ran, Head(functors)) \o Tail(functors) = ran \o functors
  BY <1>1, <1>2
<1>5. BatchTaken'
  BY <1>1, <1>2, <1>3 DEF BatchTaken
<1>6. FunctorsInOrder'
  <2>1. ran' \o functors' = ran \o functors
    BY <1>1, <1>4
  <2> QED  BY <1>1, <2>1 DEF OrderInv, FunctorsInOrder
<1> QED
  BY <1>5, <1>6

\* OrderInv is inductive.
LEMMA OrderInvNext == OrderInv /\ [Next]_vars => OrderInv'
<1> SUFFICES ASSUME OrderInv, [Next]_vars PROVE OrderInv'
  OBVIOUS
\* Whoever touches none of the queues keeps the order.
<1>1. ASSUME UNCHANGED <<pending, functors, ran, queued>>,
             functors # <<>> => loopAt' \in {"functors", "running"}
      PROVE  BatchTaken' /\ FunctorsInOrder'
  BY <1>1 DEF OrderInv, BatchTaken, FunctorsInOrder
<1> USE DEF loopVars, historyVars, LoopStep, OwnerStep
<1>2. BatchTaken' /\ FunctorsInOrder'
  <2>1. CASE LoopThread \/ PollOther
    <3>1. CASE Construct \/ Publish \/ EnterLoop \/ PollWakeup \/ PollOther \/ BeginPending
               \/ EndPending \/ EndThread
      BY <1>1, <3>1 DEF Construct, Publish, EnterLoop, PollWakeup, PollOther, BeginPending,
                        EndPending, AllRun, EndThread, OrderInv, BatchTaken
    <3> QED  BY <2>1, <3>1, SwapInOrder, RunInOrder DEF LoopThread
  <2>2. CASE Owner
    BY <1>1, <2>2 DEF Owner, StartLoop, Started, Quit, WakeToQuit, Join, OrderInv, BatchTaken,
                      SleepInv, Private
  <2>3. CASE QueueFromLoop \/ \E thread \in Threads : QueueFromOther(thread)
    BY <2>3, EnqueueInOrder DEF QueueFromLoop, QueueFromOther
  <2>4. CASE \E thread \in Threads : WakeFromOther(thread)
    BY <1>1, <2>4 DEF WakeFromOther, OrderInv, BatchTaken
  <2>5. CASE UNCHANGED vars
    BY <1>1, <2>5 DEF vars, OrderInv, BatchTaken
  <2> QED  BY <2>1, <2>2, <2>3, <2>4, <2>5 DEF Next
<1>3. SleepInv'
  BY SleepInvNext DEF OrderInv
<1> QED
  BY <1>2, <1>3 DEF OrderInv

\* Functors run once each and in the order in which the lock took them, for any number of
\* threads and functors, also those queued by functors and during the init callback.
THEOREM FunctorsAlwaysInOrder == Spec => []FunctorsInOrder
<1>1. OrderInv => FunctorsInOrder
  BY DEF OrderInv
<1> QED
  BY <1>1, OrderInvInit, OrderInvNext, PTL DEF Spec


-----------------------------------------------------------------------------
(* The timers. *)

\* What the batch and the history add to the properties to make them
\* inductive: a batch exists only while it is run; a timer of it that has been
\* cancelled is known to `canceling`; and sequences only grow.
BatchOK ==
  /\ ~callingExpired => expired = {}
  /\ cancelled \cap expired \subseteq canceling
  /\ \A id \in issued : id[2] <= numCreated

TimerInv == TimerTypeOK /\ MemorySafe /\ CancelIsFinal /\ ArmedInTime /\ BatchOK

\* Ids of one address are the same id, since the Timer there has one sequence.
LEMMA OneIdPerAddress ==
  ASSUME TimerTypeOK, MemorySafe,
         NEW id \in timers \cup expired, NEW other \in timers \cup expired,
         id[1] = other[1]
  PROVE  id = other
  BY DEF TimerTypeOK, MemorySafe, TimerIds

LEMMA TimerInvInit == TimerInit => TimerInv
<1> SUFFICES ASSUME TimerInit PROVE TimerInv
  OBVIOUS
<1>1. DOMAIN heap = {} /\ IsTable(heap, Addresses, [sequence : 1..MaxSequence,
                                      expiration : Int, interval : Intervals])
  BY DEF TimerInit, IsTable
<1>2. TimerTypeOK
  <2>1. callingExpired \in BOOLEAN /\ polled \in BOOLEAN
    BY Zenon DEF TimerInit
  <2>2. numCreated \in 0..MaxSequence /\ start \in Int /\ ahead \in Nat /\ adjusted \in Nat
    BY TimesAssumption DEF TimerInit
  <2>3. /\ timers \subseteq TimerIds /\ activeTimers \subseteq TimerIds
        /\ canceling \subseteq TimerIds /\ issued \subseteq TimerIds /\ cancelled \subseteq issued
        /\ expired \subseteq TimerIds /\ toRun \subseteq expired
        /\ running \in expired \cup {NoTimer} /\ armed \in Nat \cup {Disarmed}
    BY DEF TimerInit
  <2> QED BY <1>1, <2>1, <2>2, <2>3, Zenon DEF TimerTypeOK
<1>3. MemorySafe /\ CancelIsFinal /\ ArmedInTime /\ BatchOK
  BY <1>1 DEF TimerInit, MemorySafe, CancelIsFinal, ArmedInTime, BatchOK
<1> QED BY <1>2, <1>3 DEF TimerInv

-----------------------------------------------------------------------------
\* AddTimer puts one new timer, under a sequence never used, at a free address.
LEMMA AddTimerInv ==
  ASSUME TimerInv, NEW address \in Addresses, NEW delay \in Delays, NEW interval \in Intervals,
         AddTimer(address, delay, interval)
  PROVE  TimerInv'
<1> DEFINE id == <<address, numCreated + 1>>
           timer == [sequence |-> numCreated + 1, expiration |-> delay,
                     interval |-> interval]
<1>1. /\ id \in TimerIds
      /\ numCreated + 1 \in 1..MaxSequence
      /\ timer \in [sequence : 1..MaxSequence, expiration : Int, interval : Intervals]
  BY TimesAssumption DEF TimerInv, TimerTypeOK, AddTimer, TimerIds
<1>2. /\ heap' = [k \in DOMAIN heap \cup {address} |->
                    IF k = address THEN timer ELSE heap[k]]
      /\ timers' = timers \cup {id}
      /\ activeTimers' = activeTimers \cup {id}
      /\ issued' = issued \cup {id}
      /\ numCreated' = numCreated + 1
      /\ address \notin DOMAIN heap
  BY DEF AddTimer, Put, NextSequence
<1>3. TimerTypeOK'
  <2>1. armed' \in Nat \cup {Disarmed} /\ ahead' \in Nat
    BY TimesAssumption
       DEF TimerInv, TimerTypeOK, AddTimer, ResetTimerfd, SetTime, TimeFromNow, clockVars, Disarmed
  <2>2. IsTable(heap', Addresses, [sequence : 1..MaxSequence, expiration : Int,
                                   interval : Intervals])
    BY <1>1, <1>2 DEF TimerInv, TimerTypeOK, IsTable
  <2> QED BY <1>1, <1>2, <2>1, <2>2 DEF TimerInv, TimerTypeOK, AddTimer, batchVars, clockVars
<1>4. MemorySafe'
  <2>1. /\ DOMAIN heap' = DOMAIN heap \cup {address}
        /\ heap'[address].sequence = id[2] /\ id[1] = address
        /\ \A a \in DOMAIN heap : heap'[a] = heap[a]
        /\ expired' = expired
    BY <1>2 DEF AddTimer, batchVars
  <2>2. \A other \in timers \cup expired : other[1] \in DOMAIN heap
    BY DEF TimerInv, MemorySafe
  <2>3. id \notin expired
    BY <1>2, <2>1, <2>2
  <2>4. \A other \in timers' \cup expired' :
          other[1] \in DOMAIN heap' /\ heap'[other[1]].sequence = other[2]
    BY <1>2, <2>1, <2>2 DEF TimerInv, MemorySafe
  <2>5. \A a \in DOMAIN heap' : \E other \in timers' \cup expired' : other[1] = a
    BY <1>2, <2>1 DEF TimerInv, MemorySafe
  <2> QED BY <1>2, <2>1, <2>3, <2>4, <2>5 DEF TimerInv, MemorySafe
<1>5. CancelIsFinal'
  BY <1>1, <1>2 DEF TimerInv, CancelIsFinal, BatchOK, TimerTypeOK, AddTimer
<1>6. BatchOK'
  <2>1. \A old \in issued : old[2] \in Int /\ old[2] <= numCreated
    BY DEF TimerInv, TimerTypeOK, BatchOK, TimerIds
  <2>2. \A new \in issued' : new[2] <= numCreated'
    BY <1>2, <2>1 DEF TimerInv, TimerTypeOK
  <2> QED BY <1>2, <2>2 DEF TimerInv, BatchOK, AddTimer, batchVars
<1>7. ArmedInTime'
  <2> SUFFICES ASSUME ~callingExpired, ~polled, NEW other \in timers'
               PROVE  armed' # Disarmed /\ armed' <= TimeFromNow(ExpirationOf(other)' + ahead')
    BY DEF ArmedInTime, AddTimer, batchVars
  <2>1. /\ ExpirationOf(id)' = delay
        /\ \A old \in timers : ExpirationOf(old)' = ExpirationOf(old) /\ ExpirationOf(old) \in Int
    BY <1>2 DEF ExpirationOf, TimerInv, MemorySafe, TimerTypeOK, IsTable
  <2>2. CASE EarliestChanged(delay)
    <3>1. armed' = TimeFromNow(delay) /\ ahead' = 0
      BY <2>2, TimesAssumption
         DEF AddTimer, ResetTimerfd, SetTime, TimeFromNow
    <3>2. ExpirationOf(other)' \in Int /\ delay <= ExpirationOf(other)'
      <4>1. CASE other = id
        BY <2>1, <4>1, TimesAssumption DEF ExpirationOf
      <4>2. CASE other \in timers
        BY <2>1, <2>2, <4>2, TimesAssumption DEF EarliestChanged
      <4> QED BY <1>2, <4>1, <4>2
    <3>3. delay \in Int
      BY TimesAssumption
    <3> HIDE DEF id, timer
    <3> QED BY <3>1, <3>2, <3>3 DEF TimeFromNow, Disarmed
  <2>3. CASE ~EarliestChanged(delay)
    <3>1. PICK first \in timers : ExpirationOf(first) <= delay
      BY <2>1, <2>3, TimesAssumption DEF EarliestChanged
    <3>2. armed' = armed /\ ahead' = ahead
      BY <2>3 DEF AddTimer
    <3>3. armed # Disarmed /\ armed <= TimeFromNow(ExpirationOf(first) + ahead)
      BY DEF TimerInv, ArmedInTime
    <3>4. CASE other \in timers
      BY <2>1, <3>2, <3>4 DEF TimerInv, ArmedInTime
    <3>5. CASE other = id
      <4>1. ExpirationOf(other)' = delay
        BY <2>1, <3>5 DEF ExpirationOf
      <4>2. delay \in Int /\ ExpirationOf(first) \in Int /\ ahead \in Int /\ armed \in Int
        BY <2>1, TimesAssumption DEF TimerInv, TimerTypeOK, Disarmed
      <4> HIDE DEF id, timer
      <4> QED BY <3>1, <3>2, <3>3, <4>1, <4>2 DEF TimeFromNow
    <3> QED BY <1>2, <3>4, <3>5
  <2> QED BY <2>2, <2>3
<1> QED BY <1>3, <1>4, <1>5, <1>6, <1>7 DEF TimerInv

\* Cancel deletes a timer of the queue, which is of no batch, or notes its id.
LEMMA CancelInv ==
  ASSUME TimerInv, NEW id \in TimerIds, Cancel(id)
  PROVE  TimerInv'
<1> USE DEF TimerInv
<1>1. CASE id \in activeTimers
  <2>1. /\ timers' = timers \ {id} /\ activeTimers' = activeTimers \ {id}
        /\ heap' = [a \in DOMAIN heap \ {id[1]} |-> heap[a]]
        /\ cancelled' = cancelled \cup {id} /\ canceling' = canceling
    BY <1>1 DEF Cancel, Erase, Restrict
  <2>2. \A other \in (timers \cup expired) \ {id} : other[1] # id[1]
    BY <1>1, OneIdPerAddress DEF MemorySafe
  <2>3. id \notin expired
    BY <1>1 DEF MemorySafe
  <2>4. TimerTypeOK'
    BY <2>1 DEF TimerTypeOK, IsTable, Cancel, batchVars, clockVars
  <2>5. MemorySafe'
    BY <2>1, <2>2, <2>3 DEF MemorySafe, Cancel, batchVars
  <2>6. CancelIsFinal' /\ BatchOK'
    BY <2>1, <2>3 DEF CancelIsFinal, BatchOK, Cancel, batchVars
  <2>7. \A other \in timers' : ExpirationOf(other)' = ExpirationOf(other)
    BY <2>1, <2>2 DEF ExpirationOf, MemorySafe
  <2>8. ArmedInTime'
    BY <2>1, <2>7 DEF ArmedInTime, Cancel, batchVars, clockVars
  <2> QED BY <2>4, <2>5, <2>6, <2>8
<1>2. CASE id \notin activeTimers
  <2>1. /\ UNCHANGED <<heap, timers, activeTimers, numCreated, issued, batchVars, clockVars>>
        /\ cancelled' = cancelled \cup {id}
        /\ canceling' = IF callingExpired THEN canceling \cup {id} ELSE canceling
        /\ id \in issued
    BY <1>2 DEF Cancel
  <2>2. TimerTypeOK' /\ MemorySafe'
    BY <2>1 DEF TimerTypeOK, MemorySafe, batchVars, clockVars
  <2>3. CancelIsFinal' /\ BatchOK'
    BY <1>2, <2>1 DEF CancelIsFinal, BatchOK, batchVars
  <2>4. ArmedInTime'
    BY <2>1 DEF ArmedInTime, ExpirationOf, batchVars, clockVars
  <2> QED BY <2>2, <2>3, <2>4
<1> QED BY <1>1, <1>2

\* HandleRead moves the due timers from the queue to the batch.
LEMMA HandleReadInv == ASSUME TimerInv, HandleRead PROVE TimerInv'
<1> USE DEF TimerInv
<1>1. TimerTypeOK'
  <2>1. running' \in expired' \cup {NoTimer}
    BY DEF TimerTypeOK, HandleRead, BatchOK
  <2>2. armed' \in Nat \cup {Disarmed} /\ start' \in Int
    BY DEF TimerTypeOK, HandleRead
  <2> QED BY <2>1, <2>2 DEF TimerTypeOK, HandleRead
<1>2. MemorySafe'
  BY DEF MemorySafe, HandleRead, BatchOK
<1>3. CancelIsFinal' /\ BatchOK'
  BY DEF CancelIsFinal, BatchOK, HandleRead, MemorySafe
<1>4. ArmedInTime'
  BY DEF ArmedInTime, HandleRead
<1> QED BY <1>1, <1>2, <1>3, <1>4

\* Reset gives the batch back to the queue or to the heap, and arms the timerfd
\* for the earliest.
LEMMA ResetInv == ASSUME TimerInv, Reset PROVE TimerInv'
<1> USE DEF TimerInv
<1> DEFINE Deleted == {id[1] : id \in expired \ Restarted}
<1>1. /\ Restarted \subseteq expired
      /\ \A id \in expired : id[1] \in Deleted <=> id \notin Restarted
      /\ \A id \in timers : id[1] \notin Deleted
  BY OneIdPerAddress DEF Restarted, MemorySafe
<1>2. /\ heap' = HeapAfterReset
      /\ DOMAIN heap' = DOMAIN heap \ Deleted
      /\ timers' = timers \cup Restarted /\ activeTimers' = activeTimers \cup Restarted
      /\ expired' = {}
  BY DEF Reset, HeapAfterReset
<1>3. \A address \in DOMAIN heap' :
        /\ heap'[address] \in [sequence : 1..MaxSequence, expiration : Int,
                               interval : Intervals]
        /\ heap'[address].sequence = heap[address].sequence
  BY <1>2, TimesAssumption DEF HeapAfterReset, TimerTypeOK, IsTable
<1>4. \A id \in timers' : ExpirationOf(id)' \in Int
  BY <1>1, <1>2, <1>3 DEF ExpirationOf, MemorySafe
<1>5. armed' \in Nat \cup {Disarmed} /\ ahead' \in Nat
  BY <1>4 DEF TimerTypeOK, Reset, ResetTimerfd, SetTime, TimeFromNow, Disarmed, ExpirationOf
<1>6. TimerTypeOK'
  <2>1. IsTable(heap', Addresses, [sequence : 1..MaxSequence, expiration : Int,
                                   interval : Intervals])
    BY <1>2, <1>3 DEF TimerTypeOK, IsTable, HeapAfterReset
  <2>2. /\ expired' = {} /\ running' = NoTimer /\ start' = 0 /\ callingExpired' = FALSE
        /\ UNCHANGED <<numCreated, canceling, issued, cancelled, toRun, polled, adjusted>>
        /\ toRun = {}
    BY DEF Reset
  <2>3. callingExpired' \in BOOLEAN /\ polled' \in BOOLEAN
    BY <2>2, Zenon DEF TimerTypeOK
  <2>4. /\ timers' \subseteq TimerIds /\ activeTimers' \subseteq TimerIds
        /\ start' \in Int /\ toRun' \subseteq expired' /\ running' \in expired' \cup {NoTimer}
        /\ expired' \subseteq TimerIds
    BY <1>1, <1>2, <2>2 DEF TimerTypeOK
  <2> QED BY <1>5, <2>1, <2>2, <2>3, <2>4 DEF TimerTypeOK
<1>7. MemorySafe'
  BY <1>1, <1>2, <1>3 DEF MemorySafe
<1>8. CancelIsFinal' /\ BatchOK'
  BY <1>1, <1>2 DEF CancelIsFinal, BatchOK, Restarted, Reset
<1>9. ArmedInTime'
  <2> SUFFICES ASSUME NEW id \in timers'
               PROVE  armed' # Disarmed /\ armed' <= TimeFromNow(ExpirationOf(id)' + ahead')
    BY DEF ArmedInTime
  <2>1. PICK first \in timers' :
          /\ ExpirationOf(first)' <= ExpirationOf(id)'
          /\ armed' = SetTime(TimeFromNow(ExpirationOf(first)')) /\ ahead' = 0
    BY DEF Reset, ResetTimerfd, ExpirationOf
  <2> QED BY <1>4, <2>1 DEF SetTime, TimeFromNow, Disarmed
<1> QED BY <1>6, <1>7, <1>8, <1>9

\* Whatever moves the clocks moves every expiration by as much.
LEMMA SoonerInv ==
  ASSUME TimerInv, NEW by \in Int, Sooner(by)
  PROVE  /\ IsTable(heap', Addresses, [sequence : 1..MaxSequence, expiration : Int,
                                       interval : Intervals])
         /\ start' \in Int
         /\ MemorySafe' /\ CancelIsFinal' /\ BatchOK'
         /\ \A id \in timers :
              ExpirationOf(id)' = ExpirationOf(id) - by /\ ExpirationOf(id) \in Int
<1> USE DEF TimerInv, Sooner
<1>1. /\ IsTable(heap', Addresses, [sequence : 1..MaxSequence, expiration : Int,
                                    interval : Intervals])
      /\ start' \in Int
      /\ DOMAIN heap' = DOMAIN heap
      /\ \A address \in DOMAIN heap :
           /\ heap'[address].sequence = heap[address].sequence
           /\ heap'[address].expiration = heap[address].expiration - by
           /\ heap[address].expiration \in Int
  BY DEF TimerTypeOK, IsTable
<1>2. MemorySafe' /\ CancelIsFinal' /\ BatchOK'
  BY <1>1 DEF MemorySafe, CancelIsFinal, BatchOK
<1>3. \A id \in timers : ExpirationOf(id)' = ExpirationOf(id) - by /\ ExpirationOf(id) \in Int
  BY <1>1 DEF MemorySafe, ExpirationOf
<1> QED BY <1>1, <1>2, <1>3

LEMMA PassInv == ASSUME TimerInv, Pass PROVE TimerInv'
<1>1. /\ IsTable(heap', Addresses, [sequence : 1..MaxSequence, expiration : Int,
                                    interval : Intervals])
      /\ start' \in Int
      /\ MemorySafe' /\ CancelIsFinal' /\ BatchOK'
      /\ \A id \in timers : ExpirationOf(id)' = ExpirationOf(id) - 1 /\ ExpirationOf(id) \in Int
  <2>1. Sooner(1) /\ 1 \in Int
    BY DEF Pass
  <2> QED BY <2>1, SoonerInv
<1>2. /\ armed' = IF armed > 0 THEN armed - 1 ELSE armed
      /\ ahead' = ahead /\ adjusted' = adjusted
      /\ UNCHANGED <<numCreated, timers, activeTimers, canceling, issued, cancelled,
                     callingExpired, expired, toRun, running, polled>>
  BY DEF Pass, Sooner
<1>3. TimerTypeOK'
  BY <1>1, <1>2 DEF TimerInv, TimerTypeOK, Disarmed
<1>4. ArmedInTime'
  BY <1>1, <1>2 DEF TimerInv, TimerTypeOK, ArmedInTime, TimeFromNow, Disarmed
<1> QED BY <1>1, <1>3, <1>4 DEF TimerInv

LEMMA AdjustClockInv == ASSUME TimerInv, NEW by \in Adjustments, AdjustClock(by) PROVE TimerInv'
<1>0. by \in Int
  BY TimesAssumption
<1>1. /\ IsTable(heap', Addresses, [sequence : 1..MaxSequence, expiration : Int,
                                    interval : Intervals])
      /\ start' \in Int
      /\ MemorySafe' /\ CancelIsFinal' /\ BatchOK'
      /\ \A id \in timers : ExpirationOf(id)' = ExpirationOf(id) - by /\ ExpirationOf(id) \in Int
  BY <1>0, SoonerInv DEF AdjustClock
<1>2. /\ ahead' = IF by > 0 THEN ahead + by ELSE ahead
      /\ armed' = armed /\ adjusted' = adjusted + 1
      /\ UNCHANGED <<numCreated, timers, activeTimers, canceling, issued, cancelled,
                     callingExpired, expired, toRun, running, polled>>
  BY DEF AdjustClock, Sooner
<1>3. TimerTypeOK'
  BY <1>0, <1>1, <1>2 DEF TimerInv, TimerTypeOK
<1>4. ArmedInTime'
  BY <1>0, <1>1, <1>2 DEF TimerInv, TimerTypeOK, ArmedInTime, TimeFromNow, Disarmed
<1> QED BY <1>1, <1>3, <1>4 DEF TimerInv

LEMMA TimerInvNext == TimerInv /\ [TimerNext]_timerVars => TimerInv'
<1> SUFFICES ASSUME TimerInv, [TimerNext]_timerVars PROVE TimerInv'
  OBVIOUS
<1>1. ASSUME NEW id \in TimerIds, Run(id) PROVE TimerInv'
  BY <1>1 DEF TimerInv, TimerTypeOK, MemorySafe, CancelIsFinal, ArmedInTime, BatchOK, Run,
              queueVars, clockVars, ExpirationOf, NoTimer
<1>2. CASE Poll
  BY <1>2 DEF TimerInv, TimerTypeOK, MemorySafe, CancelIsFinal, ArmedInTime, BatchOK, Poll,
              queueVars, batchVars, ExpirationOf
<1>3. CASE UNCHANGED timerVars
  BY <1>3 DEF TimerInv, TimerTypeOK, MemorySafe, CancelIsFinal, ArmedInTime, BatchOK, timerVars,
              queueVars, batchVars, clockVars, ExpirationOf
<1> QED BY <1>1, <1>2, <1>3, AddTimerInv, CancelInv, HandleReadInv, ResetInv, PassInv,
           AdjustClockInv DEF TimerNext

-----------------------------------------------------------------------------
\* No pointer of the queue outlives its timer and no timer is leaked or freed
\* twice, whatever is cancelled, from wherever, however late.
THEOREM TimersAreMemorySafe == TimerSpec => []MemorySafe
  BY TimerInvInit, TimerInvNext, PTL DEF TimerSpec, TimerInv

\* A cancelled timer never comes back.
THEOREM CancelledForGood == TimerSpec => []CancelIsFinal
  BY TimerInvInit, TimerInvNext, PTL DEF TimerSpec, TimerInv

\* The loop is always going to be woken for the earliest timer.
THEOREM AlwaysArmedInTime == TimerSpec => []ArmedInTime
  BY TimerInvInit, TimerInvNext, PTL DEF TimerSpec, TimerInv


=============================================================================
