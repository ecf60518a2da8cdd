-------------------------- MODULE MatchmakingProofs --------------------------
(***************************************************************************)
(* Theorems about Matchmaking: for every set of players and of ELOs, any   *)
(* number of them and any clock.                                           *)
(***************************************************************************)
EXTENDS Matchmaking, MatchQueueLemmas

\* The inductive invariant: the agreement of the containers is what a removal
\* needs to find the keys it must erase.
QueueInv == TypeOK /\ IndicesAgree

LEMMA QueueInvInit == Init => QueueInv
<1> SUFFICES ASSUME Init PROVE QueueInv
  OBVIOUS
<1> USE DEF Init
<1>1. /\ DOMAIN queue.ticketsByUserId = {}
      /\ queue.ticketsByElo = {}
      /\ queue.ticketsByWaitTime = {}
  BY DEF EmptyQueue
<1>2. IsMatchQueue(queue, Users, Elos)
  BY <1>1 DEF IsMatchQueue, EmptyQueue, IsTable
<1>3. ContainersAgree(queue)
  BY <1>1 DEF ContainersAgree
<1> QED
  BY <1>2, <1>3 DEF QueueInv, TypeOK, IndicesAgree

LEMMA QueueInvNext == QueueInv /\ [Next]_vars => QueueInv'
<1> SUFFICES ASSUME QueueInv, [Next]_vars PROVE QueueInv'
  OBVIOUS
<1>1. IsMatchQueue(queue, Users, Elos) /\ ContainersAgree(queue)
  BY DEF QueueInv, TypeOK, IndicesAgree
<1>2. now \in Nat /\ ticking \in BOOLEAN /\ elo \in [Users -> Elos]
  BY DEF QueueInv, TypeOK
<1> SUFFICES /\ IsMatchQueue(queue', Users, Elos) /\ ContainersAgree(queue')
             /\ now' \in Nat /\ ticking' \in BOOLEAN /\ elo' \in [Users -> Elos]
  BY DEF QueueInv, TypeOK, IndicesAgree, IsMatchQueue, ContainersAgree
<1>3. CASE \E user \in Users : JoinQueue(user)
  <2> PICK user \in Users : JoinQueue(user)
    BY <1>3
  <2>1. Ticket(user, elo[user], now) \in Tickets(Users, Elos)
    BY <1>2 DEF Ticket, Tickets
  <2>2. ~IsQueued(queue, Ticket(user, elo[user], now).userId)
    BY DEF JoinQueue, Ticket
  <2>3. /\ IsMatchQueue(Join(queue, Ticket(user, elo[user], now)), Users, Elos)
        /\ ContainersAgree(Join(queue, Ticket(user, elo[user], now)))
    BY <1>1, <2>1, <2>2, JoinAgrees
  <2> QED
    BY <1>2, <2>3 DEF JoinQueue
<1>4. CASE \E user \in Users : LeaveQueue(user)
  <2> PICK user \in Users : LeaveQueue(user)
    BY <1>4
  <2>1. /\ IsMatchQueue(RemoveTicket(queue, user), Users, Elos)
        /\ ContainersAgree(RemoveTicket(queue, user))
    BY <1>1, RemoveAgrees
  <2> QED
    BY <1>2, <2>1 DEF LeaveQueue
<1>5. CASE TickMatch
  <2> PICK first, second : queue' = RemovePair(queue, first, second)
    BY <1>5 DEF TickMatch
  <2>1. /\ IsMatchQueue(RemoveTicket(queue, first), Users, Elos)
        /\ ContainersAgree(RemoveTicket(queue, first))
    BY <1>1, RemoveAgrees
  <2>2. /\ IsMatchQueue(RemovePair(queue, first, second), Users, Elos)
        /\ ContainersAgree(RemovePair(queue, first, second))
    BY <2>1, RemoveAgrees DEF RemovePair
  <2> QED
    BY <1>2, <1>5, <2>2 DEF TickMatch
<1>6. CASE TickBegin \/ TickEnd
  BY <1>1, <1>2, <1>6 DEF TickBegin, TickEnd
<1>7. CASE Advance
  BY <1>1, <1>2, <1>7, TimeAssumption DEF Advance
<1>8. CASE UNCHANGED vars
  BY <1>1, <1>2, <1>8 DEF vars
<1> QED
  BY <1>3, <1>4, <1>5, <1>6, <1>7, <1>8 DEF Next, Tick

\* The queue always has the shape MatchQueue.h declares.
THEOREM TypeCorrect == Spec => []TypeOK
<1>1. Spec => []QueueInv
  BY QueueInvInit, QueueInvNext, PTL DEF Spec
<1>2. QueueInv => TypeOK
  BY DEF QueueInv
<1> QED
  BY <1>1, <1>2, PTL

\* The three containers of MatchQueue agree in every reachable state: whatever
\* tryMatch looks up in one of them is in the other two.
THEOREM ContainersAlwaysAgree == Spec => []IndicesAgree
<1>1. Spec => []QueueInv
  BY QueueInvInit, QueueInvNext, PTL DEF Spec
<1>2. QueueInv => IndicesAgree
  BY DEF QueueInv
<1> QED
  BY <1>1, <1>2, PTL

-----------------------------------------------------------------------------
(* What tryMatch promises of the whole queue. *)

\* What the choice of a pair rests on besides: a ticket has the ELO its player has,
\* and the user ids in the queue are bounded, which is all its finiteness is needed for.
MatchInv ==
  /\ QueueInv
  /\ \A user \in Waiting : TicketOf(user).elo = elo[user]
  /\ IsBounded(queue)

\* MatchInv is inductive.
LEMMA MatchInvNext == MatchInv /\ [Next]_vars => MatchInv'
<1> SUFFICES ASSUME MatchInv, [Next]_vars PROVE MatchInv'
  OBVIOUS
<1> DEFINE T == queue.ticketsByUserId
<1>1. QueueInv'
  BY QueueInvNext DEF MatchInv
<1>2. /\ IsMatchQueue(queue, Users, Elos) /\ ContainersAgree(queue)
      /\ \A user \in DOMAIN T : T[user].elo = elo[user]
      /\ elo' = elo
  BY DEF MatchInv, QueueInv, TypeOK, IndicesAgree, Waiting, TicketOf, Next, JoinQueue, LeaveQueue,
         Tick, TickBegin, TickMatch, TickEnd, Advance, vars
<1>3. PICK last \in Nat : \A user \in DOMAIN T : user <= last
  BY DEF MatchInv, IsBounded
\* Nobody new waits.
<1>4. ASSUME DOMAIN T' \subseteq DOMAIN T, \A user \in DOMAIN T' : T'[user] = T[user]
      PROVE  MatchInv'
  <2>1. IsBounded(queue')
    BY <1>3, <1>4 DEF IsBounded
  <2> QED  BY <1>1, <1>2, <1>4, <2>1 DEF MatchInv, Waiting, TicketOf, IsBounded
<1>5. CASE \E user \in Users : JoinQueue(user)
  <2> PICK user \in Users : JoinQueue(user)
    BY <1>5
  <2>1. T' = Put(T, user, Ticket(user, elo[user], now))
    BY DEF JoinQueue, Join, Ticket
  <2>2. /\ DOMAIN T' = DOMAIN T \cup {user} /\ T'[user].elo = elo[user]
        /\ \A other \in DOMAIN T \ {user} : T'[other] = T[other]
    BY <2>1 DEF Put, Ticket
  <2>3. IsBounded(queue')
    <3>1. user \in Nat
      BY UsersAssumption
    <3>2. CASE user <= last
      BY <1>3, <2>2, <3>2 DEF IsBounded
    <3>3. CASE last < user
      <4>1. \A other \in DOMAIN T' : other <= user
        <5>1. \A other \in DOMAIN T : other \in Nat
          BY <1>2, UsersAssumption DEF IsMatchQueue, IsTable
        <5> QED  BY <1>3, <2>2, <3>1, <3>3, <5>1
      <4> QED  BY <3>1, <4>1 DEF IsBounded
    <3> QED  BY <3>1, <3>2, <3>3
  <2> QED
    BY <1>1, <1>2, <2>2, <2>3 DEF MatchInv, Waiting, TicketOf, IsBounded
<1>6. ASSUME NEW user, queue' = RemoveTicket(queue, user)
      PROVE  MatchInv'
  BY <1>2, <1>4, <1>6, RemoveAgrees
<1>7. ASSUME NEW first, NEW second, queue' = RemovePair(queue, first, second)
      PROVE  MatchInv'
  <2> DEFINE Q == RemoveTicket(queue, first)
  <2>1. /\ IsMatchQueue(Q, Users, Elos) /\ ContainersAgree(Q)
        /\ DOMAIN Q.ticketsByUserId \subseteq DOMAIN T
        /\ \A user \in DOMAIN Q.ticketsByUserId : Q.ticketsByUserId[user] = T[user]
    BY <1>2, RemoveAgrees
  <2>2. queue' = RemoveTicket(Q, second)
    BY <1>7 DEF RemovePair
  <2> HIDE DEF Q
  <2>3. /\ DOMAIN T' \subseteq DOMAIN Q.ticketsByUserId
        /\ \A user \in DOMAIN T' : T'[user] = Q.ticketsByUserId[user]
    BY <2>1, <2>2, RemoveAgrees
  <2> QED  BY <1>4, <2>1, <2>3
<1>8. CASE queue' = queue
  BY <1>4, <1>8
<1> QED
  BY <1>5, <1>6, <1>7, <1>8
     DEF Next, LeaveQueue, Tick, TickBegin, TickMatch, TickEnd, Advance, vars

\* It holds from the start.
LEMMA MatchInvariant == Spec => []MatchInv
<1>1. Init => MatchInv
  <2> SUFFICES ASSUME Init PROVE MatchInv
    OBVIOUS
  <2>1. DOMAIN queue.ticketsByUserId = {}
    BY DEF Init, EmptyQueue
  <2> QED
    BY <2>1, QueueInvInit DEF MatchInv, IsBounded, Waiting
<1> QED
  BY <1>1, MatchInvNext, PTL DEF Spec

\* The tickets, as tryMatch reads them.
LEMMA TicketsKnown ==
  ASSUME MatchInv, NEW user \in Waiting
  PROVE  /\ user \in Nat /\ user \in Users /\ elo[user] \in Nat
         /\ TicketOf(user).userId = user /\ TicketOf(user).elo = elo[user]
         /\ TicketOf(user).joinedAt \in Nat /\ now \in Nat
         /\ allowedEloRange(TicketOf(user), now) \in Nat
         /\ EloKey(TicketOf(user)) \in queue.ticketsByElo
         /\ WaitKey(TicketOf(user)) \in queue.ticketsByWaitTime
<1>1. /\ user \in Users /\ TicketOf(user) \in Tickets(Users, Elos) /\ now \in Nat
      /\ elo \in [Users -> Elos]
  BY DEF MatchInv, QueueInv, TypeOK, IsMatchQueue, IsTable, Waiting, TicketOf
<1>2. /\ TicketOf(user).userId = user
      /\ EloKey(TicketOf(user)) \in queue.ticketsByElo
      /\ WaitKey(TicketOf(user)) \in queue.ticketsByWaitTime
  BY DEF MatchInv, QueueInv, IndicesAgree, ContainersAgree, Waiting, TicketOf
<1>3. TicketOf(user).joinedAt \in Nat
  BY <1>1 DEF Tickets
<1>4. allowedEloRange(TicketOf(user), now) \in Nat
  BY <1>1, <1>3 DEF allowedEloRange, kInitialEloRange, kEloRangePerSecond, kMaxEloRange
<1> QED
  BY <1>1, <1>2, <1>3, <1>4, UsersAssumption, ElosAssumption DEF MatchInv

\* Somebody next to a player is as near in ELO as anybody who waits.
LEMMA NearestIsNextTo ==
  ASSUME MatchInv, NEW first \in Waiting, NEW user \in Waiting, user # first
  PROVE  \E near \in Waiting \ {first} :
           /\ \E key \in Neighbours(queue, EloKey(TicketOf(first))) : key[2] = near
           /\ eloDifference(elo[first], elo[near]) <= eloDifference(elo[first], elo[user])
<1>1. /\ IsMatchQueue(queue, Users, Elos) /\ ContainersAgree(queue) /\ IsBounded(queue)
      /\ Users \in SUBSET Nat /\ Elos \in SUBSET Nat
  BY UsersAssumption, ElosAssumption DEF MatchInv, QueueInv, TypeOK, IndicesAgree
<1>2. PICK near \in Waiting \ {first} :
        /\ \E key \in Neighbours(queue, EloKey(TicketOf(first))) : key[2] = near
        /\ eloDifference(TicketOf(first).elo, TicketOf(near).elo)
             <= eloDifference(TicketOf(first).elo, TicketOf(user).elo)
  BY <1>1, ANeighbourIsNearest DEF Waiting, TicketOf
<1> QED
  BY <1>2, TicketsKnown

\* Who accepts anybody in the queue accepts somebody next to him, and the walk stops at
\* him.
LEMMA CompatibleIsMatchable ==
  ASSUME MatchInv, NEW first \in Waiting, NEW second \in Waiting, Compatible(first, second)
  PROVE  first \in Matchable(queue, now)
<1>1. PICK near \in Waiting \ {first} :
        /\ \E key \in Neighbours(queue, EloKey(TicketOf(first))) : key[2] = near
        /\ eloDifference(elo[first], elo[near]) <= eloDifference(elo[first], elo[second])
  BY NearestIsNextTo DEF Compatible
<1>2. eloDifference(elo[first], elo[near]) <= allowedEloRange(TicketOf(first), now)
  <2>1. /\ eloDifference(elo[first], elo[near]) \in Nat
        /\ eloDifference(elo[first], elo[second]) \in Nat
        /\ allowedEloRange(TicketOf(first), now) \in Nat
    BY TicketsKnown DEF eloDifference
  <2> QED  BY <1>1, <2>1 DEF Compatible
<1>3. near \in Candidates(queue, TicketOf(first), now)
  <2>1. TicketOf(near).elo = elo[near] /\ TicketOf(first).elo = elo[first]
    BY TicketsKnown
  <2> QED  BY <1>1, <1>2, <2>1 DEF Candidates, Waiting, TicketOf
<1>4. /\ EloKey(TicketOf(first)) \in queue.ticketsByElo
      /\ WaitKey(TicketOf(first)) \in queue.ticketsByWaitTime
      /\ WaitKey(TicketOf(first))[2] = first
  BY TicketsKnown DEF WaitKey
<1> QED
  BY <1>3, <1>4 DEF Matchable, Waiting, TicketOf

\* When tryMatch answers nullopt no two players of the whole queue would do: for any
\* number of players and any ELOs, looking at neighbours alone misses no pair.
THEOREM NoPairIsLeftBehind == Spec => []NoPairLeftBehind
<1>1. MatchInv => NoPairLeftBehind
  BY CompatibleIsMatchable DEF NoPairLeftBehind, Compatible
<1> QED
  BY <1>1, MatchInvariant, PTL

\* The candidate tryMatch keeps is the nearest of all who wait.
LEMMA SecondIsNearest ==
  ASSUME MatchInv, NEW first \in Waiting, NEW second \in BestSecond(queue, TicketOf(first), now)
  PROVE  /\ second \in Waiting /\ Compatible(first, second)
         /\ \A user \in Waiting \ {first} :
              eloDifference(elo[first], elo[second]) <= eloDifference(elo[first], elo[user])
<1> DEFINE Difference(user) == eloDifference(elo[first], elo[user])
           range == allowedEloRange(TicketOf(first), now)
<1>1. /\ range \in Nat
      /\ \A user \in Waiting : Difference(user) \in Nat /\ TicketOf(user).elo = elo[user]
                               /\ user \in Nat
  BY TicketsKnown DEF eloDifference
<1>2. \A user : user \in Candidates(queue, TicketOf(first), now) <=>
        /\ user \in Waiting /\ Difference(user) <= range
        /\ \E key \in Neighbours(queue, EloKey(TicketOf(first))) : key[2] = user
  BY <1>1 DEF Candidates, Waiting, TicketOf
<1>3. /\ second \in Candidates(queue, TicketOf(first), now)
      /\ \A user \in Candidates(queue, TicketOf(first), now) \ {second} :
           Precedes(<<Difference(second), second>>, <<Difference(user), user>>)
  <2>1. \A user \in Waiting : queue.ticketsByUserId[user].elo = elo[user]
    BY <1>1 DEF TicketOf
  <2>2. Candidates(queue, TicketOf(first), now) \subseteq Waiting
    BY <1>2
  <2> QED  BY <1>1, <2>1, <2>2 DEF BestSecond
<1>4. second # first
  <2>1. PICK key \in queue.ticketsByElo \ {EloKey(TicketOf(first))} : key[2] = second
    BY <1>2, <1>3 DEF Neighbours
  <2>2. PICK user \in Waiting : key = EloKey(TicketOf(user))
    BY <2>1 DEF MatchInv, QueueInv, IndicesAgree, ContainersAgree, Waiting, TicketOf
  <2> QED  BY <2>1, <2>2, TicketsKnown DEF EloKey
<1> HIDE DEF Difference, range
<1>5. ASSUME NEW user \in Waiting \ {first} PROVE Difference(second) <= Difference(user)
  <2>1. PICK near \in Waiting \ {first} :
          /\ \E key \in Neighbours(queue, EloKey(TicketOf(first))) : key[2] = near
          /\ Difference(near) <= Difference(user)
    BY NearestIsNextTo DEF Difference
  <2>2. /\ Difference(second) \in Nat /\ Difference(near) \in Nat /\ Difference(user) \in Nat
        /\ range \in Nat /\ Difference(second) <= range
    BY <1>1, <1>2, <1>3
  <2>3. CASE Difference(near) <= range
    <3>1. near = second \/ Precedes(<<Difference(second), second>>, <<Difference(near), near>>)
      BY <1>2, <1>3, <2>1, <2>3
    <3>2. Difference(second) <= Difference(near)
      BY <2>2, <3>1 DEF Precedes
    <3> QED  BY <2>1, <2>2, <3>2
  <2>4. CASE range < Difference(near)
    BY <2>1, <2>2, <2>4
  <2> QED  BY <2>2, <2>3, <2>4
<1> QED
  BY <1>2, <1>3, <1>4, <1>5 DEF Compatible, Difference, range

\* A match is the best there was: of all who could be matched one of the two has waited
\* longest, and nobody in the whole queue is nearer to him in ELO than the other.
THEOREM MatchesAreAlwaysBest == Spec => MatchesAreBest
<1>1. MatchInv /\ [Next]_vars => MatchIsBest
  <2> SUFFICES ASSUME MatchInv, [Next]_vars, ticking, Leaving # {} PROVE MatchIsBest
    BY DEF MatchIsBest
  <2>1. TickMatch
    BY DEF Next, JoinQueue, LeaveQueue, Tick, TickBegin, TickEnd, Advance, vars, Leaving,
                Waiting
  <2>2. PICK first \in FirstMatchable(queue, now) :
          \E second \in BestSecond(queue, TicketOf(first), now) :
            queue' = RemovePair(queue, first, second)
    BY <2>1 DEF TickMatch
  <2>3. PICK second \in BestSecond(queue, TicketOf(first), now) :
          queue' = RemovePair(queue, first, second)
    BY <2>2
  <2>4. /\ first \in Matchable(queue, now)
        /\ \A user \in Matchable(queue, now) \ {first} :
             Precedes(WaitKey(TicketOf(first)), WaitKey(TicketOf(user)))
    BY DEF FirstMatchable, TicketOf
  <2>5. first \in Waiting
    BY <2>4 DEF Matchable, Waiting
  <2>6. /\ second \in Waiting /\ Compatible(first, second)
        /\ \A user \in Waiting \ {first} :
             eloDifference(elo[first], elo[second]) <= eloDifference(elo[first], elo[user])
    BY <2>5, SecondIsNearest
  <2>7. ASSUME NEW user \in Waiting \ {first}, NEW other \in Waiting, Compatible(user, other)
        PROVE  TicketOf(first).joinedAt <= TicketOf(user).joinedAt
    <3>1. user \in Matchable(queue, now)
      BY <2>7, CompatibleIsMatchable
    <3>2. TicketOf(first).joinedAt \in Nat /\ TicketOf(user).joinedAt \in Nat
      BY <2>5, <2>7, TicketsKnown
    <3> QED  BY <2>4, <2>7, <3>1, <3>2 DEF Precedes, WaitKey
  <2>8. Leaving = {first, second}
    <3> DEFINE Q == RemoveTicket(queue, first)
    <3>1. IsMatchQueue(queue, Users, Elos) /\ ContainersAgree(queue)
      BY DEF MatchInv, QueueInv, TypeOK, IndicesAgree
    <3>2. /\ IsMatchQueue(Q, Users, Elos) /\ ContainersAgree(Q)
          /\ DOMAIN Q.ticketsByUserId = Waiting \ {first}
      BY <3>1, RemoveAgrees DEF Waiting
    <3>3. queue' = RemoveTicket(Q, second)
      BY <2>3 DEF RemovePair
    <3> HIDE DEF Q
    <3>4. DOMAIN (queue').ticketsByUserId = DOMAIN Q.ticketsByUserId \ {second}
      BY <3>2, <3>3, RemoveAgrees
    <3> QED  BY <2>5, <2>6, <3>2, <3>4 DEF Leaving
  <2>9. first \in Leaving /\ second \in Leaving
    BY <2>8
  <2> QED
    BY <2>6, <2>7, <2>8, <2>9 DEF MatchIsBest
<1> QED
  BY <1>1, MatchInvariant, PTL DEF MatchesAreBest, Spec

=============================================================================
