----------------------------- MODULE Matchmaking -----------------------------
(***************************************************************************)
(* The match queue under a clock: players join with the ELO of their       *)
(* session, change their mind, and every period of the timer the tick of   *)
(* MatchmakingService repeats tryMatch until it finds no pair. The tick is *)
(* one callback of the loop, so nothing else happens between its           *)
(* iterations; each iteration is a step here, and `ticking` holds the rest *)
(* of the system off until the loop ends.                                  *)
(*                                                                         *)
(* Sessions, rooms and connections are GameServer's; this module asks what *)
(* the queue itself promises to the players in it.                         *)
(***************************************************************************)
EXTENDS MatchQueue, FiniteSets

CONSTANTS
  Users,      \* user ids
  Elos,       \* the ELOs a player may join with
  TimeStep,   \* seconds between two readings of the clock
  MaxTime,    \* bound: the clock stops here
  LastJoin    \* bound: nobody joins later than this

ASSUME UsersAssumption == Users \subseteq Nat \ {0}
ASSUME ElosAssumption == Elos \subseteq Nat
ASSUME TimeAssumption == TimeStep \in Nat \ {0} /\ MaxTime \in Nat /\ LastJoin \in Nat

VARIABLES
  queue,      \* the MatchQueue
  now,        \* MatchClock::now()
  ticking,    \* the loop thread is inside MatchmakingService::tick
  elo         \* the ELO of each player's session; constant here

vars == <<queue, now, ticking, elo>>

Waiting == DOMAIN queue.ticketsByUserId

TicketOf(user) == queue.ticketsByUserId[user]

Init ==
  /\ queue = EmptyQueue
  /\ now = 0
  /\ ticking = FALSE
  /\ elo \in [Users -> Elos]

\* A MATCH_JOIN_REQ that join() accepts.
JoinQueue(user) ==
  /\ ~ticking
  /\ now <= LastJoin
  /\ ~IsQueued(queue, user)
  /\ queue' = Join(queue, Ticket(user, elo[user], now))
  /\ UNCHANGED <<now, ticking, elo>>

\* A MATCH_CANCEL_REQ or a disconnect of a waiting player.
LeaveQueue(user) ==
  /\ ~ticking
  /\ IsQueued(queue, user)
  /\ queue' = RemoveTicket(queue, user)
  /\ UNCHANGED <<now, ticking, elo>>

TickBegin ==
  /\ ~ticking
  /\ ticking' = TRUE
  /\ UNCHANGED <<queue, now, elo>>

\* An iteration in which tryMatch returns a pair.
TickMatch ==
  /\ ticking
  /\ \E first \in FirstMatchable(queue, now) :
       \E second \in BestSecond(queue, TicketOf(first), now) :
         queue' = RemovePair(queue, first, second)
  /\ UNCHANGED <<now, ticking, elo>>

\* tryMatch returns nullopt and the loop ends.
TickEnd ==
  /\ ticking
  /\ Matchable(queue, now) = {}
  /\ ticking' = FALSE
  /\ UNCHANGED <<queue, now, elo>>

\* Time passes between callbacks of the loop. Within one tick the clock is
\* read once.
Advance ==
  /\ ~ticking
  /\ now + TimeStep <= MaxTime
  /\ now' = now + TimeStep
  /\ UNCHANGED <<queue, ticking, elo>>

Tick == TickBegin \/ TickMatch \/ TickEnd

Next ==
  \/ \E user \in Users : JoinQueue(user) \/ LeaveQueue(user)
  \/ Tick
  \/ Advance

Spec == Init /\ [][Next]_vars

\* The timer fires again and again and its callback runs to its end; the clock
\* moves on between callbacks, which is no scheduling the code could withhold.
\* Nothing is assumed of the players: they need not cancel.
Fairness == WF_vars(Tick) /\ SF_vars(Advance)

FairSpec == Spec /\ Fairness

-----------------------------------------------------------------------------
\* The tables hold tickets of known users, and the ordered sets hold keys.
TypeOK ==
  /\ IsMatchQueue(queue, Users, Elos)
  /\ now \in Nat
  /\ ticking \in BOOLEAN
  /\ elo \in [Users -> Elos]

\* The three containers hold the same tickets: a ticket found in one is found
\* in the others under its own key, and no key outlives its ticket, whatever
\* order of joins, cancels and matches led here. It is what makes the two
\* `continue` branches of tryMatch dead and its walk complete.
IndicesAgree == ContainersAgree(queue)

\* Two waiting players one of whom accepts the other.
Compatible(first, second) ==
  /\ first # second
  /\ eloDifference(elo[first], elo[second])
       <= allowedEloRange(TicketOf(first), now)

\* tryMatch looks at two neighbours only, yet when it answers nullopt no two
\* players of the whole queue are within the range of either one.
NoPairLeftBehind ==
  (ticking /\ Matchable(queue, now) = {}) =>
    ~\E first, second \in Waiting : Compatible(first, second)

\* The players this step takes out of the queue.
Leaving == Waiting \ DOMAIN queue'.ticketsByUserId

\* A match takes two players out, one of whom accepts the other, has waited
\* no less than anybody who could be matched instead, and gets the opponent
\* nearest in ELO of everyone in the queue, not of his neighbours alone.
MatchIsBest ==
  LET Prefers(first, second) ==
        /\ Compatible(first, second)
        /\ \A user \in Waiting \ {first} :
             eloDifference(elo[first], elo[second])
               <= eloDifference(elo[first], elo[user])
        /\ \A user \in Waiting \ {first} :
             (\E other \in Waiting : Compatible(user, other)) =>
                TicketOf(first).joinedAt <= TicketOf(user).joinedAt
  IN ticking /\ Leaving # {} =>
       \E first, second \in Leaving :
          Leaving = {first, second} /\ Prefers(first, second)

MatchesAreBest == [][MatchIsBest]_vars

\* `user` waits while somebody within the widest range waits too.
HasEventualOpponent(user) ==
  /\ user \in Waiting
  /\ \E other \in Waiting \ {user} :
       eloDifference(elo[user], elo[other]) <= kMaxEloRange

\* The players' point of view: nobody waits for ever in the company of players
\* within the widest range, even if it is not always the same ones. Sooner or
\* later he is matched, or the others are gone.
NobodyStarves ==
  \A user \in Users : []<>~HasEventualOpponent(user)

\* The while(true) of MatchmakingService::tick ends, and the loop thread gets back
\* to its connections: every pair tryMatch returns has left the queue.
TicksReturn == ticking ~> ~ticking

=============================================================================
