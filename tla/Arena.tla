-------------------------------- MODULE Arena --------------------------------
(***************************************************************************)
(* What the arena promises its players, with no word of connections,       *)
(* tables, tickets or rooms: every player is in one state, changes it in   *)
(* the ways below and in no other, and changes it together with his        *)
(* opponent. GameServer is shown to implement this in ArenaRefinement.     *)
(***************************************************************************)
EXTENDS Naturals, UnorderedMap

CONSTANTS
  Players,    \* user ids
  EloMax,     \* the largest ELO
  InitialElo  \* the ELO of the players enrolled at the start

VARIABLES
  status,     \* status[p]: where the player is
  opponent,   \* opponent[p]: whom he plays, or 0
  elo         \* the ELO of the enrolled players

arenaVars == <<status, opponent, elo>>

Nobody == 0

Init ==
  /\ status = [p \in Players |-> "offline"]
  /\ opponent = [p \in Players |-> Nobody]
  /\ elo = InitialElo

Move(p, from, to) ==
  /\ status[p] \in from
  /\ status' = [status EXCEPT ![p] = to]
  /\ UNCHANGED <<opponent, elo>>

Enroll(p) ==
  /\ p \notin DOMAIN elo
  /\ elo' = Put(elo, p, 1000)
  /\ UNCHANGED <<status, opponent>>

Enter(p) == p \in DOMAIN elo /\ Move(p, {"offline"}, "lobby")

Leave(p) == Move(p, {"lobby", "queued"}, "offline")

Wait(p) == Move(p, {"lobby"}, "queued")

Desist(p) == Move(p, {"queued"}, "lobby")

\* Two waiting players are put against each other, both or neither.
Meet(p, q) ==
  /\ p # q
  /\ status[p] = "queued" /\ status[q] = "queued"
  /\ status' = [status EXCEPT ![p] = "drafting", ![q] = "drafting"]
  /\ opponent' = [opponent EXCEPT ![p] = q, ![q] = p]
  /\ UNCHANGED elo

\* p and his opponent face each other, both in the same state.
Facing(p, state) ==
  /\ status[p] = state
  /\ opponent[p] # Nobody
  /\ status[opponent[p]] = state /\ opponent[opponent[p]] = p

\* The player p and his opponent part.
Part(p, pTo, opponentTo) ==
  /\ status' = [status EXCEPT ![p] = pTo, ![opponent[p]] = opponentTo]
  /\ opponent' = [opponent EXCEPT ![p] = Nobody, ![opponent[p]] = Nobody]

\* A player who leaves before the fight costs nobody anything.
Abandon(p) ==
  /\ Facing(p, "drafting")
  /\ Part(p, "offline", "lobby")
  /\ UNCHANGED elo

Fight(p) ==
  /\ Facing(p, "drafting")
  /\ status' = [status EXCEPT ![p] = "fighting", ![opponent[p]] = "fighting"]
  /\ UNCHANGED <<opponent, elo>>

\* A fight ends with a winner, who returns to the lobby, and a loser, who
\* returns or has left. The stake of 25 passes from one to the other, within
\* the bounds of an ELO, or, when it cannot be recorded, from neither.
Conclude(winner) ==
  /\ Facing(winner, "fighting")
  /\ \E to \in {"lobby", "offline"} : Part(winner, "lobby", to)
  /\ \/ UNCHANGED elo
     \/ elo' = [elo EXCEPT
                  ![winner]           = IF @ > EloMax - 25 THEN EloMax ELSE @ + 25,
                  ![opponent[winner]] = IF @ < 25 THEN 0 ELSE @ - 25]

\* Whatever else happens moves a player: a step that moves none and enrolls
\* none is no business of the arena.
Next ==
  \/ \E p \in Players : Enroll(p)
  \/ /\ status' # status
     /\ \E p \in Players :
          \/ Enter(p) \/ Leave(p) \/ Wait(p) \/ Desist(p)
          \/ \E q \in Players : Meet(p, q)
          \/ Abandon(p) \/ Fight(p) \/ Conclude(p)

Spec == Init /\ [][Next]_arenaVars

=============================================================================
