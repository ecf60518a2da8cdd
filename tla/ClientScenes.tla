---------------------------- MODULE ClientScenes ----------------------------
(***************************************************************************)
(* The client (src/client/ArenaClient): MainWindow, its four scenes and    *)
(* the socket of GameClient. A value C is one running client: what is on   *)
(* the screen, which buttons can be pressed, and what the client           *)
(* remembers. Operators are the slots of the buttons and of the messages.  *)
(* All of it runs on the Qt event loop, one slot at a time.                *)
(*                                                                         *)
(* Widgets that are not on the screen keep their state: a message may      *)
(* change a button of a scene the player does not see. Texts are left out, *)
(* except the healths, which the player decides by.                        *)
(***************************************************************************)
EXTENDS RoomService, SessionService, Sequences

\* A client as main() starts it. `conn` is the connection of its socket.
NewClient ==
  [socket |-> "closed", conn |-> NoConnection, pendingAction |-> "none",
   scene |-> "login", elo |-> 0, matchedRoomId |-> NoRoom,
   matchButton |-> TRUE, matchmakingQueued |-> FALSE,
   selectedHero |-> NoHero, heroButtons |-> TRUE, confirmButton |-> FALSE,
   attackButton |-> FALSE, returnLobbyButton |-> FALSE, health |-> <<0, 0>>]

Connected(C) == C.socket = "open"

-----------------------------------------------------------------------------
(* LoginScene. *)

\* onLoginClicked and onRegisterClicked without a connection: the request is
\* kept until there is one. While the socket connects another click does
\* nothing.
CanStartConnecting(C) == C.scene = "login" /\ C.socket = "closed" /\ C.pendingAction = "none"

StartConnecting(C, action) == [C EXCEPT !.socket = "connecting", !.pendingAction = action]

\* The signal connected(): the pending request is about to be sent.
SocketConnected(C, conn) ==
  [C EXCEPT !.socket = "open", !.conn = conn, !.pendingAction = "none"]

\* errorOccurred(), and the end of a connection. Nothing listens to
\* disconnected(): the scene stays, with its buttons as they are.
SocketFailed(C) ==
  [C EXCEPT !.socket = "closed", !.conn = NoConnection, !.pendingAction = "none"]

\* LOGIN_RSP: enterLobby. The lobby's button is as it was.
LoggedIn(C, message) ==
  [C EXCEPT !.pendingAction = "none", !.elo = message.elo, !.scene = "lobby"]

-----------------------------------------------------------------------------
(* LobbyScene. *)

ShowMatchmakingReady(C) == [C EXCEPT !.matchmakingQueued = FALSE, !.matchButton = TRUE]

ShowMatchmakingQueued(C) == [C EXCEPT !.matchmakingQueued = TRUE, !.matchButton = TRUE]

ShowMatchJoinRejected(C) == ShowMatchmakingReady(C)

ShowRoomClosed(C) == ShowMatchmakingReady(C)

CanClickMatch(C) == C.scene = "lobby" /\ C.matchButton

ClickMatch(C) == [C EXCEPT !.matchButton = FALSE]

\* The request a click stands for.
MatchRequest(C) == IF C.matchmakingQueued THEN "MATCH_CANCEL_REQ" ELSE "MATCH_JOIN_REQ"

\* MATCH_CANCEL_RSP is heeded in the lobby only, and whatever it says.
CancelAnswered(C) == IF C.scene = "lobby" THEN ShowMatchmakingReady(C) ELSE C

-----------------------------------------------------------------------------
(* HeroSelectScene. *)

ResetSelection(C) ==
  [C EXCEPT !.selectedHero = NoHero, !.heroButtons = TRUE, !.confirmButton = FALSE]

\* Faulty variant, to confirm that NotificationsFindTheirRoom can fail: the room
\* is not remembered before the hero is chosen.
EnterHeroSelectOnly(C, id) == [ResetSelection(C) EXCEPT !.scene = "heroSelect"]

EnterHeroSelect(C, id) ==
  [ResetSelection(C) EXCEPT !.matchedRoomId = id, !.scene = "heroSelect"]

ShowSelectionAccepted(C) == [C EXCEPT !.heroButtons = FALSE, !.confirmButton = FALSE]

ShowSelectionRejected(C) ==
  [C EXCEPT !.heroButtons = TRUE, !.confirmButton = C.selectedHero # NoHero]

CanClickHero(C) == C.scene = "heroSelect" /\ C.heroButtons

ClickHero(C, hero) == [C EXCEPT !.selectedHero = hero, !.confirmButton = TRUE]

CanConfirm(C) == C.scene = "heroSelect" /\ C.confirmButton /\ C.selectedHero # NoHero

ClickConfirm(C) == [C EXCEPT !.heroButtons = FALSE, !.confirmButton = FALSE]

-----------------------------------------------------------------------------
(* BattleScene. *)

ShowBattleState(C, message) ==
  [C EXCEPT !.health = <<message.own, message.opponent>>, !.attackButton = message.yourTurn]

\* The room stays remembered, and the scene on the screen.
ShowBattleResult(C, message) ==
  [C EXCEPT !.elo = message.elo, !.attackButton = FALSE, !.returnLobbyButton = TRUE]

CanClickAttack(C) == C.scene = "battle" /\ C.attackButton

\* Faulty variant, to confirm that AttacksAreTimely can fail: the button stays.
ClickAttackAgain(C) == C

ClickAttack(C) == [C EXCEPT !.attackButton = FALSE]

CanClickReturn(C) == C.scene = "battle" /\ C.returnLobbyButton

ClickReturn(C) ==
  [ShowMatchmakingReady(C) EXCEPT !.returnLobbyButton = FALSE, !.scene = "lobby"]

-----------------------------------------------------------------------------
(* MainWindow: the handler of each message. *)

\* The notifications about a room, which MainWindow drops unless they are about
\* the one it remembers.
RoomNotifications ==
  {"ROOM_CLOSED_NTF", "BATTLE_START_NTF", "BATTLE_STATE_NTF", "BATTLE_RESULT_NTF"}

OfMyRoom(C, message) == message.roomId = C.matchedRoomId

\* Faulty variant, to confirm that ScreensAgree can fail: the button of the lobby
\* stays as it was left.
LeaveClosedRoomOnly(C) == [C EXCEPT !.matchedRoomId = NoRoom, !.scene = "lobby"]

LeaveClosedRoom(C) ==
  [ShowRoomClosed(C) EXCEPT !.matchedRoomId = NoRoom, !.scene = "lobby"]

ReadRoomNotification(C, message) ==
  CASE message.type = "ROOM_CLOSED_NTF"   -> LeaveClosedRoom(C)
    [] message.type = "BATTLE_START_NTF"  -> [C EXCEPT !.scene = "battle"]
    [] message.type = "BATTLE_STATE_NTF"  -> ShowBattleState(C, message)
    [] message.type = "BATTLE_RESULT_NTF" -> ShowBattleResult(C, message)

\* REGISTER_RSP and a refused LOGIN_RSP change a label only.
Read(C, message) ==
  CASE message.type = "LOGIN_RSP" /\ message.accepted        -> LoggedIn(C, message)
    [] message.type = "MATCH_JOIN_RSP" /\ message.accepted   -> ShowMatchmakingQueued(C)
    [] message.type = "MATCH_JOIN_RSP" /\ ~message.accepted  -> ShowMatchJoinRejected(C)
    [] message.type = "MATCH_CANCEL_RSP"                     -> CancelAnswered(C)
    [] message.type = "MATCH_FOUND_NTF"                      -> EnterHeroSelect(C, message.roomId)
    [] message.type = "HERO_SELECT_RSP" /\ message.accepted  -> ShowSelectionAccepted(C)
    [] message.type = "HERO_SELECT_RSP" /\ ~message.accepted -> ShowSelectionRejected(C)
    [] message.type \in RoomNotifications /\ OfMyRoom(C, message) ->
         ReadRoomNotification(C, message)
    [] OTHER -> C

=============================================================================
