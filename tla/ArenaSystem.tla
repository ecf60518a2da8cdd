----------------------------- MODULE ArenaSystem -----------------------------
(***************************************************************************)
(* The whole game: clients (ClientScenes) and the server (GameServer) with *)
(* the network between them. Each connection is two queues, `up` and       *)
(* `down`; a message is read some time after it was sent, and until then   *)
(* the other side acts on what it knew before. The players press whatever  *)
(* buttons can be pressed. A client may be closed, and a connection may    *)
(* break, at any moment.                                                   *)
(*                                                                         *)
(* A connection that has ended still holds what the server has not read;   *)
(* the mark FIN follows it.                                                *)
(***************************************************************************)
EXTENDS GameServer, ClientScenes

CONSTANTS
  Clients,      \* the players' computers
  AccountOf,    \* the account each player logs in to: client -> user id
  Strangers,    \* the clients of which one may send a frame of invalid length
  Impatient,    \* the players who may look for a match again before the answer to
                \* their last cancellation has come
  MaxInFlight   \* bound: a player waits while so many messages, of his or to him,
                \* are unread

ASSUME ClientsAssumption ==
  /\ AccountOf \in [Clients -> UserIds]
  /\ Strangers \subseteq Clients
  /\ Impatient \subseteq Clients
  /\ MaxInFlight \in Nat \ {0}

VARIABLES
  client,    \* client[p]: the client p runs
  up,        \* up[conn]: requests on their way to the server, oldest first
  down,      \* down[conn]: responses and notifications on their way back
  nextConnId \* TcpServer's nextConnId_: the id of the next connection

systemVars == <<vars, client, up, down, nextConnId>>

FIN == [type |-> "FIN"]
Garbage == [type |-> "garbage"]

SystemInit ==
  /\ Init
  /\ client = [p \in Clients |-> NewClient]
  /\ up = [conn \in Connections |-> <<>>]
  /\ down = [conn \in Connections |-> <<>>]
  /\ nextConnId = 1

-----------------------------------------------------------------------------
(* The players. *)

\* The client changes on a click and sends `request`. GameClient::sendMessage
\* drops it without a connection.
Click(p, C, request) ==
  /\ client' = [client EXCEPT ![p] = C]
  /\ IF Connected(C)
       THEN /\ Len(up[C.conn]) + Len(down[C.conn]) < MaxInFlight
            /\ up' = [up EXCEPT ![C.conn] = Append(@, request)]
       ELSE UNCHANGED up
  /\ UNCHANGED <<vars, down, nextConnId>>

\* A click that sends nothing.
ClickOnly(p, C) ==
  /\ client' = [client EXCEPT ![p] = C]
  /\ UNCHANGED <<vars, up, down, nextConnId>>

LoginRequest(p, action) == [type |-> action, user |-> AccountOf[p]]

\* The buttons of the login scene are never disabled. Nobody registers who has an
\* account already.
LoginOrRegister(p) ==
  \E action \in {"LOGIN_REQ"} \cup
      (IF AccountOf[p] \in Registered(accountRepository) THEN {} ELSE {"REGISTER_REQ"}) :
    \/ /\ client[p].scene = "login" /\ Connected(client[p])
       /\ Click(p, client[p], LoginRequest(p, action))
    \/ /\ CanStartConnecting(client[p])
       /\ ClickOnly(p, StartConnecting(client[p], action))

\* p has asked to leave the queue and has not read the answer. The notification
\* that a room has closed enables the button of the lobby all the same.
AwaitsCancel(p) ==
  LET conn == client[p].conn IN
  /\ Connected(client[p])
  /\ \/ \E i \in 1..Len(up[conn]) : up[conn][i].type = "MATCH_CANCEL_REQ"
     \/ \E i \in 1..Len(down[conn]) : down[conn][i].type = "MATCH_CANCEL_RSP"

PressMatch(p) ==
  /\ CanClickMatch(client[p])
  /\ AwaitsCancel(p) => p \in Impatient
  /\ Click(p, ClickMatch(client[p]), [type |-> MatchRequest(client[p])])

SelectHeroOnScreen(p) ==
  /\ CanClickHero(client[p])
  /\ \E hero \in Heroes : ClickOnly(p, ClickHero(client[p], hero))

PressConfirm(p) ==
  /\ CanConfirm(client[p])
  /\ Click(p, ClickConfirm(client[p]),
           [type |-> "HERO_SELECT_REQ", hero |-> client[p].selectedHero])

PressAttack(p) ==
  /\ CanClickAttack(client[p])
  /\ Click(p, ClickAttack(client[p]), [type |-> "BATTLE_ATTACK_REQ"])

PressReturn(p) == CanClickReturn(client[p]) /\ ClickOnly(p, ClickReturn(client[p]))

User(p) ==
  \/ LoginOrRegister(p) \/ PressMatch(p) \/ SelectHeroOnScreen(p)
  \/ PressConfirm(p) \/ PressAttack(p) \/ PressReturn(p)

\* No client in the repository does this; the server is prepared for it.
SendGarbage(p) == p \in Strangers /\ Connected(client[p]) /\ Click(p, client[p], Garbage)

-----------------------------------------------------------------------------
(* The network. *)

\* TcpServer gives the connection an id nobody has. The server and the client
\* hear of it; the client sends what it was asked to.
Establish(p) ==
  LET conn == nextConnId IN
  /\ client[p].socket = "connecting"
  /\ conn \in Connections
  /\ Connect(conn)
  /\ client' = [client EXCEPT ![p] = SocketConnected(@, conn)]
  /\ up' = [up EXCEPT ![conn] = <<LoginRequest(p, client[p].pendingAction)>>]
  /\ nextConnId' = nextConnId + 1
  /\ UNCHANGED down

ConnectionRefused(p) ==
  /\ client[p].socket = "connecting"
  /\ ClickOnly(p, SocketFailed(client[p]))

\* The connection ends: what the client has not read is lost, and so is the end
\* of what the server has not.
EndOfConnection(p, C) ==
  LET conn == client[p].conn IN
  /\ Connected(client[p])
  /\ \E n \in 0..Len(up[conn]) :
       up' = [up EXCEPT ![conn] = Append(SubSeq(@, 1, n), FIN)]
  /\ down' = [down EXCEPT ![conn] = <<>>]
  /\ client' = [client EXCEPT ![p] = C]
  /\ UNCHANGED <<vars, nextConnId>>

\* The network fails; or the client finds that the server has shut down, and
\* closes its side.
Break(p) == EndOfConnection(p, SocketFailed(client[p]))

\* The player closes the client and starts it again.
Restart(p) ==
  \/ EndOfConnection(p, NewClient)
  \/ /\ ~Connected(client[p]) /\ client[p].scene # "login"
     /\ ClickOnly(p, NewClient)

\* The client reads the oldest message of its connection.
ClientReads(p) ==
  LET conn == client[p].conn IN
  /\ Connected(client[p])
  /\ down[conn] # <<>>
  /\ client' = [client EXCEPT ![p] = Read(@, Head(down[conn]))]
  /\ down' = [down EXCEPT ![conn] = Tail(@)]
  /\ UNCHANGED <<vars, up, nextConnId>>

-----------------------------------------------------------------------------
(* The server. *)

\* verify() finds nobody where there is no account, and a hero out of range is no
\* hero.
VerifiedAs(user) == IF user \in Registered(accountRepository) THEN user ELSE 0
InRange(hero) == IF hero \in Heroes THEN hero ELSE NoHero

\* onMessage and, at the end of the stream, onConnection. Whether the account
\* file can be written is anybody's guess.
Serve(conn, message) ==
  \/ message.type = "LOGIN_REQ" /\ HandleLogin(conn, VerifiedAs(message.user))
  \/ /\ message.type = "REGISTER_REQ"
     /\ \E saved \in BOOLEAN :
          HandleRegister(conn, message.user \notin Registered(accountRepository), saved)
  \/ message.type = "MATCH_JOIN_REQ" /\ HandleMatchJoin(conn, TRUE)
  \/ message.type = "MATCH_CANCEL_REQ" /\ HandleMatchCancel(conn, TRUE)
  \/ message.type = "HERO_SELECT_REQ" /\ HandleHeroSelect(conn, InRange(message.hero))
  \/ message.type = "BATTLE_ATTACK_REQ" /\ \E saved \in BOOLEAN : HandleBattleAttack(conn, saved)
  \/ message = Garbage /\ BadFrame(conn)
  \/ message = FIN /\ \E saved \in BOOLEAN : Disconnect(conn, saved)

\* What a handler sends joins the queues of the connections that still have a
\* client at their end.
Live(conn) == \E p \in Clients : Connected(client[p]) /\ client[p].conn = conn

Deliver ==
  down' = [conn \in Connections |->
             IF Live(conn) THEN down[conn] \o sent'[conn] ELSE <<>>]

ServerReads(conn) ==
  /\ up[conn] # <<>>
  /\ Serve(conn, Head(up[conn]))
  /\ up' = [up EXCEPT ![conn] = Tail(@)]
  /\ Deliver
  /\ UNCHANGED <<client, nextConnId>>

\* The early returns of handleBattleAttack.
AttackIsVain(conn) ==
  LET session == SessionOn(sessions, conn) IN
  ~ /\ HasSession(sessions, conn)
    /\ session.roomId # NoRoom
    /\ CanAttack(battles, session.roomId, session.userId)

\* What the server reads without a word and without a change: an attack out of
\* turn, and everything that follows a frame of invalid length.
ServerIgnores(conn) ==
  /\ ~ticking
  /\ up[conn] # <<>> /\ Head(up[conn]) # FIN
  /\ \/ conn \in shutdown
     \/ Head(up[conn]).type = "BATTLE_ATTACK_REQ" /\ AttackIsVain(conn)
  /\ up' = [up EXCEPT ![conn] = Tail(@)]
  /\ UNCHANGED <<vars, client, down, nextConnId>>

\* The clock stands still: players near enough in ELO are matched at the next
\* tick. What time does to the others is Matchmaking's subject.
ServerTicks ==
  /\ Tick
  /\ Deliver
  /\ UNCHANGED <<client, up, nextConnId>>

SystemNext ==
  \/ \E p \in Clients :
       User(p) \/ SendGarbage(p) \/ Establish(p) \/ ConnectionRefused(p) \/ Break(p)
         \/ Restart(p) \/ ClientReads(p)
  \/ \E conn \in Connections : ServerReads(conn) \/ ServerIgnores(conn)
  \/ ServerTicks

SystemSpec == SystemInit /\ [][SystemNext]_systemVars

\* What a read takes from a queue.
ServerTakes(conn) ==
  ~ticking /\ up[conn] # <<>> /\ up' = [up EXCEPT ![conn] = Tail(@)]

ClientTakes(p) ==
  LET conn == client[p].conn IN
  Connected(client[p]) /\ down[conn] # <<>> /\ down' = [down EXCEPT ![conn] = Tail(@)]

ClientCloses(p) ==
  LET conn == client[p].conn IN
  /\ conn \in shutdown /\ down[conn] = <<>>
  /\ client' = [client EXCEPT ![p] = SocketFailed(@)]

\* The server reads what has come, also when ticks come in between; the timer
\* keeps ticking; a client reads what has come, to the end of the stream; and a
\* player whose attack button can be pressed presses it in the end. Nobody needs
\* to do anything else.
SystemFairness ==
  /\ WF_vars(Tick)
  /\ \A conn \in Connections : SF_up(ServerTakes(conn))
  /\ \A p \in Clients : /\ WF_down(ClientTakes(p)) /\ WF_client(ClientCloses(p))
                       /\ WF_systemVars(PressAttack(p))

FairSystemSpec == SystemSpec /\ SystemFairness

-----------------------------------------------------------------------------
\* Everything said between p and the server has been heard.
Quiet(p) ==
  /\ Connected(client[p]) /\ client[p].conn \notin shutdown
  /\ ~ticking
  /\ up[client[p].conn] = <<>> /\ down[client[p].conn] = <<>>

SessionFor(p) == SessionOn(sessions, client[p].conn)
RoomFor(p) == roomService.rooms[SessionFor(p).roomId]
BattleFor(p) == battles[SessionFor(p).roomId]

\* The server is in no match with p.
IsIdle(p) == SessionFor(p).roomId = NoRoom /\ ~IsQueued(queue, SessionFor(p).userId)

\* Is p the first player of his room?
IsFirst(p) == RoomFor(p).firstUserId = SessionFor(p).userId

LobbyAgrees(p) ==
  \/ client[p].scene = "lobby" /\ client[p].matchButton
  \/ IsIdle(p) /\ client[p].scene = "battle" /\ CanClickReturn(client[p])

HeroSelectAgrees(p) ==
  LET hero == IF IsFirst(p) THEN RoomFor(p).firstHero ELSE RoomFor(p).secondHero IN
  /\ client[p].scene = "heroSelect"
  /\ client[p].heroButtons <=> hero = NoHero
  /\ CanConfirm(client[p]) <=> hero = NoHero /\ client[p].selectedHero # NoHero

BattleAgrees(p) ==
  LET state == BattleFor(p) IN
  /\ client[p].scene = "battle" /\ ~client[p].returnLobbyButton
  /\ client[p].attackButton <=> state.activeUserId = SessionFor(p).userId
  /\ client[p].health = IF IsFirst(p) THEN <<state.firstHealth, state.secondHealth>>
                                      ELSE <<state.secondHealth, state.firstHealth>>

\* Whatever crossed on the way, once everything said has been heard a player who
\* waits for his answers is on the screen that goes with his state on the server,
\* sees its figures, and can press the button the server waits for and none it would
\* refuse. So neither side ever waits for the other: a request that came too late,
\* and an answer to it that came later still, leave no button dead, no scene behind
\* and no text wrong. An impatient player may send two requests to join, of which
\* the second is heard in another room.
ScreensAgree ==
  \A p \in Clients \ Impatient : Quiet(p) =>
    IF ~HasSession(sessions, client[p].conn) THEN client[p].scene = "login"
    ELSE /\ client[p].elo = SessionFor(p).elo
         /\ SessionFor(p).roomId # NoRoom => client[p].matchedRoomId = SessionFor(p).roomId
         /\ client[p].scene = "lobby" => (client[p].matchmakingQueued <=> ~IsIdle(p))
         /\ IF SessionFor(p).roomId = NoRoom THEN LobbyAgrees(p)
            ELSE IF HasBattle(battles, SessionFor(p).roomId) THEN BattleAgrees(p)
            ELSE HeroSelectAgrees(p)

\* The lobby offers to start a search to those who are not searching.
LobbyObeysServer ==
  \A p \in Clients :
    Quiet(p) /\ client[p].scene = "lobby" /\ HasSession(sessions, client[p].conn) =>
      (client[p].matchmakingQueued <=> ~IsIdle(p))

\* The room a client remembers is the one its next notification is about: the
\* guards of MainWindow, which drop notifications about another room, never drop
\* one. (They would for ever: no message is sent twice.)
NotificationsFindTheirRoom ==
  \A p \in Clients :
    Connected(client[p]) /\ down[client[p].conn] # <<>> =>
      LET message == Head(down[client[p].conn]) IN
      message.type \in RoomNotifications => OfMyRoom(client[p], message)

\* An attack the server has not read is the first since it gave the player the
\* turn: it still is his turn, unless the battle has ended meanwhile. Attacks out
\* of turn are dropped without an answer; this is why none of a player who waits
\* for his answers is ever lost.
AttacksAreTimely ==
  \A p \in Clients \ Impatient : Connected(client[p]) =>
    LET conn == client[p].conn
        attacks == {i \in 1..Len(up[conn]) : up[conn][i].type = "BATTLE_ATTACK_REQ"}
    IN  /\ Cardinality(attacks) <= 1
        /\ attacks # {} /\ SessionFor(p).roomId # NoRoom =>
             /\ HasBattle(battles, SessionFor(p).roomId)
             /\ BattleFor(p).activeUserId = SessionFor(p).userId

\* Every battle ends between clients that show what they are sent and players who
\* press the button when they can: the turn always reaches a client that lets its
\* player attack, however slow the network, and whoever leaves or breaks down. In
\* the instance checked nobody plays a second room, as an attack made for one by an
\* impatient player could arrive in the next.
BattlesEnd ==
  \A id \in 1..(MaxRoomId + Cardinality(Clients) \div 2 - 1) :
    HasBattle(battles, id) ~> ~HasBattle(battles, id)

=============================================================================
