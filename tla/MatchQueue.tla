----------------------------- MODULE MatchQueue -----------------------------
(***************************************************************************)
(* MatchQueue (src/server/game/MatchQueue.cc): the players waiting for an  *)
(* opponent. The queue keeps each ticket in three containers at once:      *)
(*                                                                         *)
(*   ticketsByUserId    user id -> ticket [userId, elo, joinedAt]          *)
(*   ticketsByElo       ordered set of <<elo, user id>>                    *)
(*   ticketsByWaitTime  ordered set of <<joinedAt, user id>>               *)
(*                                                                         *)
(* tryMatch walks the third, looks up the first, and only ever considers   *)
(* the two neighbours of a player in the second, so each of its answers    *)
(* rests on the three agreeing. Times are whole seconds of MatchClock: the *)
(* float arithmetic of allowedEloRange is exact on them.                   *)
(***************************************************************************)
EXTENDS Integers, UnorderedMap

kInitialEloRange == 100
kEloRangePerSecond == 20
kMaxEloRange == 500

EmptyQueue == [ticketsByUserId |-> <<>>, ticketsByElo |-> {}, ticketsByWaitTime |-> {}]

Ticket(user, elo, now) == [userId |-> user, elo |-> elo, joinedAt |-> now]

EloKey(ticket) == <<ticket.elo, ticket.userId>>
\* Faulty variant, to confirm that TypeOK can fail: the key leaves the user out.
WaitKeyByElo(ticket) == <<ticket.joinedAt, ticket.elo>>
WaitKey(ticket) == <<ticket.joinedAt, ticket.userId>>

\* The order of std::pair, by which both sets are sorted.
Precedes(a, b) == a[1] < b[1] \/ (a[1] = b[1] /\ a[2] < b[2])

IsQueued(Q, user) == user \in DOMAIN Q.ticketsByUserId

\* join() of a user who has no ticket yet.
Join(Q, ticket) ==
  [ticketsByUserId   |-> Put(Q.ticketsByUserId, ticket.userId, ticket),
   ticketsByElo      |-> Q.ticketsByElo \cup {EloKey(ticket)},
   ticketsByWaitTime |-> Q.ticketsByWaitTime \cup {WaitKey(ticket)}]

\* Faulty variant, to confirm that IndicesAgree can fail: the key in the ELO
\* index is forgotten.
RemoveTicketKeepingKey(Q, user) ==
  IF ~IsQueued(Q, user) THEN Q
  ELSE [Q EXCEPT !.ticketsByUserId = Erase(@, user),
                 !.ticketsByWaitTime = @ \ {WaitKey(Q.ticketsByUserId[user])}]

\* cancel() and removeTicket(): both leave the queue alone without a ticket.
RemoveTicket(Q, user) ==
  IF ~IsQueued(Q, user) THEN Q
  ELSE LET ticket == Q.ticketsByUserId[user] IN
       [ticketsByUserId   |-> Erase(Q.ticketsByUserId, user),
        ticketsByElo      |-> Q.ticketsByElo \ {EloKey(ticket)},
        ticketsByWaitTime |-> Q.ticketsByWaitTime \ {WaitKey(ticket)}]

eloDifference(a, b) == IF a >= b THEN a - b ELSE b - a

\* Faulty variant, to confirm that NobodyStarves can fail: the range never widens.
fixedEloRange(ticket, now) == kInitialEloRange

allowedEloRange(ticket, now) ==
  LET widened == kInitialEloRange + (now - ticket.joinedAt) * kEloRangePerSecond IN
  CASE now <= ticket.joinedAt -> kInitialEloRange
    [] now > ticket.joinedAt /\ widened < kMaxEloRange -> widened
    [] OTHER -> kMaxEloRange

\* Faulty variant, to confirm that NoPairLeftBehind can fail: tryMatch looks at
\* the next key only.
NextNeighbour(Q, key) ==
  {other \in Q.ticketsByElo \ {key} :
     /\ Precedes(key, other)
     /\ ~\E k \in Q.ticketsByElo : Precedes(key, k) /\ Precedes(k, other)}

\* std::prev and std::next of a key in ticketsByElo: nothing lies between.
Neighbours(Q, key) ==
  {other \in Q.ticketsByElo \ {key} :
     ~\E k \in Q.ticketsByElo :
        \/ Precedes(other, k) /\ Precedes(k, key)
        \/ Precedes(key, k) /\ Precedes(k, other)}

\* The opponents tryMatch would accept for `first`.
Candidates(Q, first, now) ==
  LET near == {key[2] : key \in Neighbours(Q, EloKey(first))} IN
  {user \in near \cap DOMAIN Q.ticketsByUserId :
     eloDifference(first.elo, Q.ticketsByUserId[user].elo)
       <= allowedEloRange(first, now)}

\* The players the walk stops at: both lookups succeed and someone is near.
Matchable(Q, now) ==
  {user \in {key[2] : key \in Q.ticketsByWaitTime} \cap DOMAIN Q.ticketsByUserId :
     /\ EloKey(Q.ticketsByUserId[user]) \in Q.ticketsByElo
     /\ Candidates(Q, Q.ticketsByUserId[user], now) # {}}

\* The player the walk stops at first: of those, the longest waiting.
FirstMatchable(Q, now) ==
  LET matchable == Matchable(Q, now) IN
  {first \in matchable : \A user \in matchable \ {first} :
     Precedes(WaitKey(Q.ticketsByUserId[first]), WaitKey(Q.ticketsByUserId[user]))}

\* Faulty variant, to confirm that MatchesAreBest can fail: the smaller user id
\* wins, whatever the difference in ELO.
SmallestIdSecond(Q, first, now) ==
  {second \in Candidates(Q, first, now) :
     \A user \in Candidates(Q, first, now) : second <= user}

\* The candidate kept for `first`: the least ELO difference, and on a tie the
\* smaller user id.
BestSecond(Q, first, now) ==
  LET candidates == Candidates(Q, first, now)
      Rank(user) == <<eloDifference(first.elo, Q.ticketsByUserId[user].elo), user>>
  IN  {second \in candidates : \A user \in candidates \ {second} :
         Precedes(Rank(second), Rank(user))}

\* tryMatch(now) returns the pair of FirstMatchable and its BestSecond, and
\* nullopt when Matchable is empty.

\* Faulty variant, to confirm that TicksReturn can fail: the pair is returned and
\* both tickets stay.
PeekPair(Q, first, second) == Q

\* The queue tryMatch leaves when it returns that pair.
RemovePair(Q, first, second) == RemoveTicket(RemoveTicket(Q, first), second)

-----------------------------------------------------------------------------
\* The type of the queue, for tickets of `users` with `elos`.
Tickets(users, elos) == [userId : users, elo : elos, joinedAt : Nat]

IsMatchQueue(Q, users, elos) ==
  /\ DOMAIN Q = {"ticketsByUserId", "ticketsByElo", "ticketsByWaitTime"}
  /\ IsTable(Q.ticketsByUserId, users, Tickets(users, elos))
  /\ Q.ticketsByElo \subseteq elos \X users
  /\ Q.ticketsByWaitTime \subseteq Nat \X users

\* The three containers hold the same tickets, each under its own key.
ContainersAgree(Q) ==
  LET tickets == {Q.ticketsByUserId[user] : user \in DOMAIN Q.ticketsByUserId} IN
  /\ \A user \in DOMAIN Q.ticketsByUserId : Q.ticketsByUserId[user].userId = user
  /\ Q.ticketsByElo = {EloKey(ticket) : ticket \in tickets}
  /\ Q.ticketsByWaitTime = {WaitKey(ticket) : ticket \in tickets}

=============================================================================
