--------------------------- MODULE SessionService ---------------------------
(***************************************************************************)
(* SessionService (src/server/game/SessionService.cc): who is logged in,   *)
(* on which connection, and in which room. The service keeps two tables    *)
(* that must stay inverse to each other:                                   *)
(*                                                                         *)
(*   sessionsByConnection   connection id -> PlayerSession                 *)
(*   connectionByUserId     user id       -> connection id                 *)
(*                                                                         *)
(* A value S of the service is the record of both. Every operator below is *)
(* one member function: the state it leaves, or the answer it gives.       *)
(***************************************************************************)
EXTENDS Naturals, UnorderedMap

\* The id findConnectionByUserId gives for a user who is offline, and the
\* roomId_ of a session that is in no room.
NoConnection == 0
NoRoom == 0

\* A PlayerSession as handleLogin builds it: the account's id and ELO, no room.
NewSession(user, elo) == [userId |-> user, elo |-> elo, roomId |-> NoRoom]

NoSessions == [sessionsByConnection |-> <<>>, connectionByUserId |-> <<>>]

\* findByConnection(connectionId) != nullptr
HasSession(S, conn) == conn \in DOMAIN S.sessionsByConnection

SessionOn(S, conn) == S.sessionsByConnection[conn]

ConnectionOf(S, user) ==
  IF user \in DOMAIN S.connectionByUserId
    THEN S.connectionByUserId[user]
    ELSE NoConnection

\* The condition under which bind() returns true.
CanBind(S, conn, user) ==
  /\ conn # NoConnection
  /\ user # 0
  /\ ~HasSession(S, conn)
  /\ user \notin DOMAIN S.connectionByUserId

Bind(S, conn, session) ==
  [sessionsByConnection |-> Put(S.sessionsByConnection, conn, session),
   connectionByUserId   |-> Put(S.connectionByUserId, session.userId, conn)]

\* Faulty variant, to confirm that SessionsInverse can fail: the user's entry
\* stays behind.
RemoveSessionKeepingUser(S, conn) ==
  [S EXCEPT !.sessionsByConnection = Erase(@, conn)]

\* The user's entry goes only if it still points at this connection.
RemoveSession(S, conn) ==
  IF ~HasSession(S, conn) THEN S
  ELSE LET user == SessionOn(S, conn).userId IN
       [sessionsByConnection |-> Erase(S.sessionsByConnection, conn),
        connectionByUserId   |-> IF ConnectionOf(S, user) = conn
                                   THEN Erase(S.connectionByUserId, user)
                                   ELSE S.connectionByUserId]

SetRoom(S, user, room) ==
  LET conn == ConnectionOf(S, user) IN
  IF conn = NoConnection \/ ~HasSession(S, conn) THEN S
  ELSE [S EXCEPT !.sessionsByConnection[conn].roomId = room]

MarkInRoom(S, user, room) == SetRoom(S, user, room)

ClearRoom(S, user) == SetRoom(S, user, NoRoom)

\* finishBattle writes the new ELO through the pointer findByConnection gave.
SetElo(S, user, elo) ==
  [S EXCEPT !.sessionsByConnection[ConnectionOf(S, user)].elo = elo]

-----------------------------------------------------------------------------
\* The type of the service: sessions of `users` on connections `conns`.
Sessions(users, elos) == [userId : users, elo : elos, roomId : Nat]

IsSessionService(S, conns, users, elos) ==
  /\ DOMAIN S = {"sessionsByConnection", "connectionByUserId"}
  /\ IsTable(S.sessionsByConnection, conns, Sessions(users, elos))
  /\ IsTable(S.connectionByUserId, users, conns)

\* Each table undoes the other.
AreInverse(S) ==
  /\ \A conn \in DOMAIN S.sessionsByConnection :
       ConnectionOf(S, SessionOn(S, conn).userId) = conn
  /\ \A user \in DOMAIN S.connectionByUserId :
       /\ HasSession(S, ConnectionOf(S, user))
       /\ SessionOn(S, ConnectionOf(S, user)).userId = user

=============================================================================
