----------------------------- MODULE ClientView -----------------------------
(***************************************************************************)
(* What the players have been told. The client keeps no state of its own   *)
(* but what the server's messages put there (src/client/mainwindow.cpp);   *)
(* `view` folds the messages sent to each connection, in the order of the  *)
(* TCP stream, into the scene and the figures a client that has read them  *)
(* all would show. The delay of the network is ArenaSystem's matter: here  *)
(* the question is whether the server ever changes a player's state        *)
(* without a message that says so, or says something that is not so.       *)
(***************************************************************************)
EXTENDS GameServer

VARIABLE view

viewVars == <<vars, view>>

LoggedOut == [scene |-> "login", roomId |-> NoRoom, elo |-> 0,
              health |-> <<0, 0>>, yourTurn |-> FALSE]

InLobby(v) == [v EXCEPT !.scene = "lobby", !.roomId = NoRoom,
                        !.health = <<0, 0>>, !.yourTurn = FALSE]

\* The effect of one message on the client that reads it. A negative response
\* changes nothing but the text of a label.
Learn(v, message) ==
  CASE message.type = "MATCH_FOUND_NTF" ->
         [v EXCEPT !.scene = "heroSelect", !.roomId = message.roomId]
    [] message.type = "ROOM_CLOSED_NTF" -> InLobby(v)
    [] message.type = "BATTLE_START_NTF" ->
         [v EXCEPT !.scene = "battle", !.roomId = message.roomId]
    [] message.type = "BATTLE_STATE_NTF" ->
         [v EXCEPT !.health = <<message.own, message.opponent>>,
                   !.yourTurn = message.yourTurn]
    [] message.type = "BATTLE_RESULT_NTF" -> [InLobby(v) EXCEPT !.elo = message.elo]
    [] message.type = "LOGIN_RSP" /\ message.accepted ->
         [InLobby(v) EXCEPT !.elo = message.elo]
    [] message.type = "MATCH_JOIN_RSP" /\ message.accepted -> [v EXCEPT !.scene = "queued"]
    [] message.type = "MATCH_CANCEL_RSP" /\ message.accepted -> [v EXCEPT !.scene = "lobby"]
    [] message.type = "HERO_SELECT_RSP" /\ message.accepted ->
         [v EXCEPT !.scene = "heroConfirmed"]
    [] OTHER -> v

\* A connection that has closed, or is closing, shows nothing to anybody.
ViewInit == Init /\ view = [conn \in Connections |-> LoggedOut]

ViewNext ==
  /\ Next
  /\ view' = [conn \in Connections |->
                IF conn \in connections' \ shutdown'
                  THEN FoldLeft(Learn, view[conn], sent'[conn])
                  ELSE LoggedOut]

ViewSpec == ViewInit /\ [][ViewNext]_viewVars

-----------------------------------------------------------------------------
\* The scene that goes with what the server knows of the session on `conn`.
SceneOf(conn) ==
  LET session == SessionOn(sessions, conn)
      room    == roomService.rooms[session.roomId]
      hero    == IF session.userId = room.firstUserId THEN room.firstHero
                                                      ELSE room.secondHero
  IN  IF ~HasSession(sessions, conn) THEN "login"
      ELSE IF IsQueued(queue, session.userId) THEN "queued"
      ELSE IF session.roomId = NoRoom THEN "lobby"
      ELSE IF HasBattle(battles, session.roomId) THEN "battle"
      ELSE IF hero = NoHero THEN "heroSelect"
      ELSE "heroConfirmed"

\* The health and the turn as the player on `conn` should see them.
FiguresOf(conn) ==
  LET session == SessionOn(sessions, conn)
      state   == battles[session.roomId]
      turn    == state.activeUserId = session.userId
  IN  IF session.userId = state.firstUserId
        THEN [health |-> <<state.firstHealth, state.secondHealth>>, yourTurn |-> turn]
        ELSE [health |-> <<state.secondHealth, state.firstHealth>>, yourTurn |-> turn]

\* Between two callbacks of the loop, everything the server has told a player
\* is what it holds: his scene, his room, his ELO, and in a battle both healths
\* and whose turn it is. Every change of another player's state a handler makes
\* (a match, a closed room, a blow, a forfeit) is reported to that player, and
\* in an order that leaves him with the final state.
PlayersAreToldTheTruth ==
  ~ticking =>
    \A conn \in connections \ shutdown :
      /\ view[conn].scene = SceneOf(conn)
      /\ HasSession(sessions, conn) =>
           /\ view[conn].elo = SessionOn(sessions, conn).elo
           /\ view[conn].roomId = SessionOn(sessions, conn).roomId
      /\ SceneOf(conn) = "battle" =>
           /\ view[conn].health = FiguresOf(conn).health
           /\ view[conn].yourTurn = FiguresOf(conn).yourTurn

=============================================================================
