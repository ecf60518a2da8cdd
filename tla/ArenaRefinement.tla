--------------------------- MODULE ArenaRefinement ---------------------------
(***************************************************************************)
(* GameServer implements Arena. The state of a player is spread over four  *)
(* services; StatusOf and OpponentOf gather it.                            *)
(***************************************************************************)
EXTENDS GameServer

RoomOf(user) == roomService.rooms[SessionOf(user).roomId]

StatusOf(user) ==
  IF ~Online(user) THEN "offline"
  ELSE IF IsQueued(queue, user) THEN "queued"
  ELSE IF SessionOf(user).roomId = NoRoom THEN "lobby"
  ELSE IF HasBattle(battles, SessionOf(user).roomId) THEN "fighting"
  ELSE "drafting"

OpponentOf(user) ==
  IF StatusOf(user) \notin {"drafting", "fighting"} THEN 0
  ELSE IF RoomOf(user).firstUserId = user THEN RoomOf(user).secondUserId
  ELSE RoomOf(user).firstUserId

A == INSTANCE Arena WITH
       Players  <- UserIds,
       status   <- [user \in UserIds |-> StatusOf(user)],
       opponent <- [user \in UserIds |-> OpponentOf(user)],
       elo      <- accountRepository.elo

\* Every handler, seen through the services at once, is one of the changes of
\* state Arena allows, or none: no player is ever matched, closed out of his
\* room, or made to fight without his opponent, no handler moves a player
\* through two states in one go, and an ELO moves only with its counterpart, at
\* the end of a fight between the two.
ImplementsArena == A!Spec

=============================================================================
