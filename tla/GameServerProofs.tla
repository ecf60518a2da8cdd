-------------------------- MODULE GameServerProofs --------------------------
(***************************************************************************)
(* Theorems about GameServer: for every set of connections, every account  *)
(* file, any number of players and rooms.                                  *)
(***************************************************************************)
EXTENDS GameServer, MatchQueueLemmas, FiniteSetTheorems

\* The services, typed and in agreement with themselves. None of the three
\* conjuncts is inductive alone: a handler that walks from one table of the
\* sessions to the other stays within the types only because they are inverse,
\* and a removed ticket leaves no key only because the containers agree.
BaseInv == TypeOK /\ SessionsInverse /\ ContainersAgree(queue)

Elo == 0..EloMax

SessionsOK(S) == IsSessionService(S, Connections, UserIds, Elo) /\ AreInverse(S)

-----------------------------------------------------------------------------
(* SessionService. *)

\* SessionService::bind keeps the two tables inverse and adds one connection.
LEMMA BindInverse ==
  ASSUME NEW S, SessionsOK(S), NEW conn \in Connections,
         NEW session \in Sessions(UserIds, Elo), CanBind(S, conn, session.userId)
  PROVE  /\ SessionsOK(Bind(S, conn, session))
         /\ DOMAIN Bind(S, conn, session).sessionsByConnection
              = DOMAIN S.sessionsByConnection \cup {conn}
<1> DEFINE user == session.userId
           B == Bind(S, conn, session)
<1>1. user \in UserIds
  BY DEF Sessions
<1>2. conn \notin DOMAIN S.sessionsByConnection /\ user \notin DOMAIN S.connectionByUserId
  BY DEF CanBind, HasSession
<1>3. IsSessionService(B, Connections, UserIds, Elo)
  BY <1>1 DEF SessionsOK, IsSessionService, IsTable, Bind, Put
<1>4. /\ DOMAIN B.sessionsByConnection = DOMAIN S.sessionsByConnection \cup {conn}
      /\ DOMAIN B.connectionByUserId = DOMAIN S.connectionByUserId \cup {user}
      /\ B.sessionsByConnection[conn] = session
      /\ B.connectionByUserId[user] = conn
      /\ \A c \in DOMAIN S.sessionsByConnection :
           B.sessionsByConnection[c] = S.sessionsByConnection[c]
      /\ \A u \in DOMAIN S.connectionByUserId :
           B.connectionByUserId[u] = S.connectionByUserId[u]
  BY <1>2 DEF Bind, Put
<1>5. AreInverse(S) /\ NoConnection \notin Connections
  BY ConnectionsAssumption DEF SessionsOK
<1>6. /\ IsTable(S.sessionsByConnection, Connections, Sessions(UserIds, Elo))
      /\ IsTable(S.connectionByUserId, UserIds, Connections)
  BY DEF SessionsOK, IsSessionService
<1>7. AreInverse(B)
  BY <1>1, <1>2, <1>4, <1>5, <1>6 DEF AreInverse, ConnectionOf, HasSession, SessionOn, IsTable
<1> QED
  BY <1>3, <1>4, <1>7 DEF SessionsOK

\* SessionService::remove keeps the two tables inverse: the user's entry goes
\* with his session.
LEMMA RemoveInverse ==
  ASSUME NEW S, SessionsOK(S), NEW conn
  PROVE  /\ SessionsOK(RemoveSession(S, conn))
         /\ DOMAIN RemoveSession(S, conn).sessionsByConnection
              = DOMAIN S.sessionsByConnection \ {conn}
<1>1. CASE ~HasSession(S, conn)
  BY <1>1 DEF RemoveSession, HasSession
<1>2. CASE HasSession(S, conn)
  <2> DEFINE user == SessionOn(S, conn).userId
             R == RemoveSession(S, conn)
  <2>1. /\ IsTable(S.sessionsByConnection, Connections, Sessions(UserIds, Elo))
        /\ IsTable(S.connectionByUserId, UserIds, Connections)
        /\ AreInverse(S) /\ NoConnection \notin Connections
    BY ConnectionsAssumption DEF SessionsOK, IsSessionService
  <2>2. ConnectionOf(S, user) = conn
    BY <1>2, <2>1 DEF AreInverse, HasSession
  <2>3. R = [sessionsByConnection |-> Erase(S.sessionsByConnection, conn),
             connectionByUserId   |-> Erase(S.connectionByUserId, user)]
    BY <1>2, <2>2 DEF RemoveSession
  <2>4. IsSessionService(R, Connections, UserIds, Elo)
    BY <2>1, <2>3 DEF IsSessionService, IsTable, Erase, Restrict
  <2>5. /\ DOMAIN R.sessionsByConnection = DOMAIN S.sessionsByConnection \ {conn}
        /\ DOMAIN R.connectionByUserId = DOMAIN S.connectionByUserId \ {user}
        /\ \A c \in DOMAIN S.sessionsByConnection \ {conn} :
             R.sessionsByConnection[c] = S.sessionsByConnection[c]
        /\ \A u \in DOMAIN S.connectionByUserId \ {user} :
             R.connectionByUserId[u] = S.connectionByUserId[u]
    BY <2>3 DEF Erase, Restrict
  <2>6. AreInverse(R)
    BY <1>2, <2>1, <2>2, <2>5 DEF AreInverse, ConnectionOf, HasSession, SessionOn, IsTable
  <2> QED
    BY <2>4, <2>5, <2>6 DEF SessionsOK
<1> QED
  BY <1>1, <1>2

\* markInRoom, clearRoom and the ELO a battle settles change neither who is
\* online nor where.
LEMMA SetRoomInverse ==
  ASSUME NEW S, SessionsOK(S), NEW user, NEW room \in Nat
  PROVE  /\ SessionsOK(SetRoom(S, user, room))
         /\ SetRoom(S, user, room).connectionByUserId = S.connectionByUserId
         /\ DOMAIN SetRoom(S, user, room).sessionsByConnection
              = DOMAIN S.sessionsByConnection
BY DEF SessionsOK, SetRoom, IsSessionService, IsTable, Sessions, AreInverse,
       ConnectionOf, HasSession, SessionOn

LEMMA SetEloInverse ==
  ASSUME NEW S, SessionsOK(S), NEW user, NEW elo \in Elo,
         HasSession(S, ConnectionOf(S, user))
  PROVE  /\ SessionsOK(SetElo(S, user, elo))
         /\ SetElo(S, user, elo).connectionByUserId = S.connectionByUserId
         /\ DOMAIN SetElo(S, user, elo).sessionsByConnection
              = DOMAIN S.sessionsByConnection
BY DEF SessionsOK, SetElo, IsSessionService, IsTable, Sessions, AreInverse,
       ConnectionOf, HasSession, SessionOn

-----------------------------------------------------------------------------
(* ELO. *)

\* Winning or losing keeps an ELO within uint32_t: calculateElo saturates.
LEMMA EloBounds ==
  ASSUME NEW state, NEW elo \in Elo
  PROVE  NewFirstElo(state, elo) \in Elo /\ NewSecondElo(state, elo) \in Elo
<1>1. EloUp(elo) \in Elo /\ EloDown(elo) \in Elo
  BY EloMaxAssumption DEF EloUp, EloDown, kEloStake, Elo
<1> QED
  BY <1>1 DEF NewFirstElo, NewSecondElo

LEMMA SettledSessionsOK ==
  ASSUME SessionsOK(sessions), NEW state,
         HasSession(sessions, ConnectionOf(sessions, state.firstUserId)),
         HasSession(sessions, ConnectionOf(sessions, state.secondUserId))
  PROVE  /\ SessionsOK(SettledSessions(state))
         /\ SettledSessions(state).connectionByUserId = sessions.connectionByUserId
         /\ DOMAIN SettledSessions(state).sessionsByConnection
              = DOMAIN sessions.sessionsByConnection
<1> DEFINE EloOf(user) == SessionOn(sessions, ConnectionOf(sessions, user)).elo
           first  == state.firstUserId
           second == state.secondUserId
           S == SetElo(sessions, first, NewFirstElo(state, EloOf(first)))
           T == SetElo(S, second, NewSecondElo(state, EloOf(second)))
<1>1. EloOf(first) \in Elo /\ EloOf(second) \in Elo
  BY DEF SessionsOK, IsSessionService, IsTable, Sessions, HasSession, SessionOn
<1>2. NewFirstElo(state, EloOf(first)) \in Elo /\ NewSecondElo(state, EloOf(second)) \in Elo
  BY <1>1, EloBounds
<1>3. /\ SessionsOK(S)
      /\ S.connectionByUserId = sessions.connectionByUserId
      /\ DOMAIN S.sessionsByConnection = DOMAIN sessions.sessionsByConnection
  BY <1>2, SetEloInverse
<1>4. HasSession(S, ConnectionOf(S, second))
  BY <1>3 DEF HasSession, ConnectionOf
<1> HIDE DEF S
<1>5. /\ SessionsOK(T)
      /\ T.connectionByUserId = S.connectionByUserId
      /\ DOMAIN T.sessionsByConnection = DOMAIN S.sessionsByConnection
  BY <1>2, <1>3, <1>4, SetEloInverse
<1> QED
  BY <1>3, <1>5 DEF SettledSessions, S

\* What finishBattle leaves in the sessions, settled or not.
LEMMA FinishedSessionsOK ==
  ASSUME SessionsOK(sessions), NEW state, NEW saved
  PROVE  /\ SessionsOK(FinishedSessions(state, saved))
         /\ FinishedSessions(state, saved).connectionByUserId = sessions.connectionByUserId
         /\ DOMAIN FinishedSessions(state, saved).sessionsByConnection
              = DOMAIN sessions.sessionsByConnection
<1> DEFINE S == IF Settles(state, saved) THEN SettledSessions(state) ELSE sessions
<1>1. /\ SessionsOK(S)
      /\ S.connectionByUserId = sessions.connectionByUserId
      /\ DOMAIN S.sessionsByConnection = DOMAIN sessions.sessionsByConnection
  BY SettledSessionsOK DEF Settles
<1> HIDE DEF S
<1>2. /\ SessionsOK(SetRoom(S, state.firstUserId, 0))
      /\ SetRoom(S, state.firstUserId, 0).connectionByUserId = S.connectionByUserId
      /\ DOMAIN SetRoom(S, state.firstUserId, 0).sessionsByConnection
           = DOMAIN S.sessionsByConnection
  BY <1>1, SetRoomInverse
<1> DEFINE T == SetRoom(S, state.firstUserId, 0)
<1> HIDE DEF T
<1>3. /\ SessionsOK(SetRoom(T, state.secondUserId, 0))
      /\ SetRoom(T, state.secondUserId, 0).connectionByUserId = T.connectionByUserId
      /\ DOMAIN SetRoom(T, state.secondUserId, 0).sessionsByConnection
           = DOMAIN T.sessionsByConnection
  BY <1>2, SetRoomInverse DEF T
<1> QED
  BY <1>1, <1>2, <1>3 DEF FinishedSessions, ClearRoom, NoRoom, S, T

-----------------------------------------------------------------------------
(* One lemma per service: what a step of the server does to it. *)

\* Every step keeps the sessions typed, inverse and on open connections.
LEMMA SessionsNext ==
  ASSUME BaseInv, [Next]_vars
  PROVE  SessionsOK(sessions') /\ DOMAIN (sessions').sessionsByConnection \subseteq connections'
<1> DEFINE OnOpen(S, conns) == DOMAIN S.sessionsByConnection \subseteq conns
<1>1. SessionsOK(sessions) /\ OnOpen(sessions, connections)
  BY DEF BaseInv, TypeOK, SessionsInverse, SessionsOK, Elo
<1>2. CASE UNCHANGED <<sessions, connections>>
  BY <1>1, <1>2
<1>3. ASSUME NEW conn \in Connections, NEW user \in Registered(accountRepository) \cup {0},
             HandleLogin(conn, user)
      PROVE  SessionsOK(sessions') /\ OnOpen(sessions', connections')
  <2>1. CASE UNCHANGED sessions
    BY <1>1, <1>3, <2>1 DEF HandleLogin
  <2>2. CASE user \in Registered(accountRepository) /\ CanBind(sessions, conn, user)
    <3> DEFINE session == NewSession(user, accountRepository.elo[user])
    <3>1. session \in Sessions(UserIds, Elo) /\ session.userId = user
      BY <2>2 DEF BaseInv, TypeOK, IsLedger, IsTable, Registered, NewSession, Sessions,
                  NoRoom, UserIds, Elo
    <3> HIDE DEF session
    <3>2. /\ SessionsOK(Bind(sessions, conn, session))
          /\ DOMAIN Bind(sessions, conn, session).sessionsByConnection
               = DOMAIN sessions.sessionsByConnection \cup {conn}
      BY <1>1, <2>2, <3>1, BindInverse
    <3>3. sessions' = Bind(sessions, conn, session) /\ connections' = connections
      BY <1>3, <2>2 DEF HandleLogin, session
    <3> QED
      BY <1>1, <1>3, <3>2, <3>3 DEF HandleLogin, Receives
  <2> QED
    BY <1>3, <2>1, <2>2 DEF HandleLogin
<1>4. ASSUME NEW conn \in Connections, NEW saved \in BOOLEAN, HandleBattleAttack(conn, saved)
      PROVE  SessionsOK(sessions') /\ OnOpen(sessions', connections')
  <2>1. \/ UNCHANGED sessions
        \/ \E state : sessions' = FinishedSessions(state, saved)
    BY <1>4 DEF HandleBattleAttack
  <2>2. UNCHANGED connections
    BY <1>4 DEF HandleBattleAttack
  <2> QED
    BY <1>1, <2>1, <2>2, FinishedSessionsOK
<1>5. ASSUME NEW conn \in Connections, NEW saved \in BOOLEAN, Disconnect(conn, saved)
      PROVE  SessionsOK(sessions') /\ OnOpen(sessions', connections')
  <2>1. \E S : /\ SessionsOK(S)
               /\ DOMAIN S.sessionsByConnection = DOMAIN sessions.sessionsByConnection
               /\ sessions' = RemoveSession(S, conn)
    <3> DEFINE session == SessionOn(sessions, conn)
               open == (connections \ shutdown) \ {conn}
    <3>1. CASE LeaveQuietly(conn)
      BY <1>1, <3>1 DEF LeaveQuietly
    <3>2. CASE LeaveRoom(conn, session, saved, open)
      <4>1. \/ LeaveQuietly(conn)
            \/ CloseRoom(conn, session, open)
            \/ \E state : sessions' = RemoveSession(FinishedSessions(state, saved), conn)
        BY <3>2 DEF LeaveRoom
      <4>2. CASE CloseRoom(conn, session, open)
        <5> PICK opponent : sessions' = RemoveSession(SetRoom(sessions, opponent, 0), conn)
          BY <4>2 DEF CloseRoom, ClearRoom, NoRoom
        <5>1. /\ SessionsOK(SetRoom(sessions, opponent, 0))
              /\ DOMAIN SetRoom(sessions, opponent, 0).sessionsByConnection
                   = DOMAIN sessions.sessionsByConnection
          BY <1>1, SetRoomInverse
        <5> QED
          BY <5>1
      <4> QED
        BY <1>1, <3>1, <4>1, <4>2, FinishedSessionsOK
    <3> QED
      BY <1>5, <3>1, <3>2 DEF Disconnect
  <2>2. connections' = connections \ {conn}
    BY <1>5 DEF Disconnect
  <2> QED
    BY <1>1, <2>1, <2>2, RemoveInverse
<1>6. CASE TickMatch
  <2> PICK first, second : Pair(first, second)
    BY <1>6 DEF TickMatch
  <2> DEFINE id == roomService.nextRoomId
             S == SetRoom(sessions, first, id)
  <2>1. id \in Nat
    BY DEF BaseInv, TypeOK, IsRoomService
  <2>2. sessions' = sessions \/ sessions' = SetRoom(S, second, id)
    BY DEF Pair, MarkInRoom
  <2>3. /\ SessionsOK(S)
        /\ DOMAIN S.sessionsByConnection = DOMAIN sessions.sessionsByConnection
    BY <1>1, <2>1, SetRoomInverse
  <2> HIDE DEF S
  <2>4. /\ SessionsOK(SetRoom(S, second, id))
        /\ DOMAIN SetRoom(S, second, id).sessionsByConnection = DOMAIN S.sessionsByConnection
    BY <2>1, <2>3, SetRoomInverse
  <2>5. UNCHANGED connections
    BY <1>6 DEF TickMatch
  <2> QED
    BY <1>1, <2>2, <2>3, <2>4, <2>5
<1>7. ASSUME NEW conn \in Connections, Connect(conn)
      PROVE  SessionsOK(sessions') /\ OnOpen(sessions', connections')
  BY <1>1, <1>7 DEF Connect
<1>8. \/ UNCHANGED <<sessions, connections>>
      \/ TickMatch
      \/ \E conn \in Connections :
           \/ Connect(conn)
           \/ \E user \in Registered(accountRepository) \cup {0} : HandleLogin(conn, user)
           \/ \E saved \in BOOLEAN : HandleBattleAttack(conn, saved) \/ Disconnect(conn, saved)
  BY DEF Next, Request, Tick, TickBegin, TickEnd, Advance, BadFrame, HandleRegister,
         HandleMatchJoin, HandleMatchCancel, HandleHeroSelect, vars
<1> QED
  BY <1>2, <1>3, <1>4, <1>5, <1>6, <1>7, <1>8


\* Every step keeps the queue typed and its containers in agreement.
LEMMA QueueNext ==
  ASSUME BaseInv, [Next]_vars
  PROVE  IsMatchQueue(queue', UserIds, Elo) /\ ContainersAgree(queue')
<1>1. IsMatchQueue(queue, UserIds, Elo) /\ ContainersAgree(queue) /\ now \in Nat
  BY DEF BaseInv, TypeOK, Elo
<1>2. CASE UNCHANGED queue
  BY <1>1, <1>2
<1>3. ASSUME NEW conn \in Connections, NEW wellFormed \in BOOLEAN,
             HandleMatchJoin(conn, wellFormed), ~UNCHANGED queue
      PROVE  IsMatchQueue(queue', UserIds, Elo) /\ ContainersAgree(queue')
  <2> DEFINE session == SessionOn(sessions, conn)
             ticket  == Ticket(session.userId, session.elo, now)
  <2>1. /\ HasSession(sessions, conn)
        /\ ~IsQueued(queue, session.userId)
        /\ queue' = Join(queue, ticket)
    BY <1>3 DEF HandleMatchJoin, IsFree
  <2>2. session \in Sessions(UserIds, Elo)
    BY <2>1 DEF BaseInv, TypeOK, IsSessionService, IsTable, HasSession, SessionOn, Elo
  <2>3. ticket \in Tickets(UserIds, Elo) /\ ticket.userId = session.userId
    BY <1>1, <2>2 DEF Ticket, Tickets, Sessions
  <2> HIDE DEF session, ticket
  <2> QED
    BY <1>1, <2>1, <2>3, JoinAgrees
<1>4. CASE \E user : queue' = RemoveTicket(queue, user)
  BY <1>1, <1>4, RemoveAgrees
<1>5. CASE \E first, second : queue' = RemovePair(queue, first, second)
  <2> PICK first, second : queue' = RemoveTicket(RemoveTicket(queue, first), second)
    BY <1>5 DEF RemovePair
  <2> DEFINE Q == RemoveTicket(queue, first)
  <2>1. IsMatchQueue(Q, UserIds, Elo) /\ ContainersAgree(Q)
    BY <1>1, RemoveAgrees
  <2> HIDE DEF Q
  <2>2. /\ IsMatchQueue(RemoveTicket(Q, second), UserIds, Elo)
        /\ ContainersAgree(RemoveTicket(Q, second))
    BY <2>1, RemoveAgrees
  <2> QED
    BY <2>2 DEF Q
<1>6. \/ UNCHANGED queue
      \/ \E conn \in Connections, wellFormed \in BOOLEAN : HandleMatchJoin(conn, wellFormed)
      \/ \E user : queue' = RemoveTicket(queue, user)
      \/ \E first, second : queue' = RemovePair(queue, first, second)
  <2>1. ASSUME NEW conn \in Connections, NEW saved \in BOOLEAN, Disconnect(conn, saved)
        PROVE  UNCHANGED queue \/ \E user : queue' = RemoveTicket(queue, user)
    BY <2>1 DEF Disconnect
  <2>2. ASSUME NEW conn \in Connections, NEW wellFormed \in BOOLEAN,
               HandleMatchCancel(conn, wellFormed)
        PROVE  UNCHANGED queue \/ \E user : queue' = RemoveTicket(queue, user)
    BY <2>2 DEF HandleMatchCancel
  <2>3. ASSUME TickMatch
        PROVE  \E first, second : queue' = RemovePair(queue, first, second)
    BY <2>3 DEF TickMatch, Pair
  <2> QED
    BY <2>1, <2>2, <2>3
       DEF Next, Request, Tick, TickBegin, TickEnd, Advance, Connect, BadFrame,
           HandleLogin, HandleRegister, HandleHeroSelect, HandleBattleAttack, vars
<1> QED
  BY <1>2, <1>3, <1>4, <1>5, <1>6

\* Every step keeps the rooms typed.
LEMMA RoomsNext ==
  ASSUME BaseInv, [Next]_vars
  PROVE  IsRoomService(roomService', UserIds)
<1>1. IsRoomService(roomService, UserIds)
  BY DEF BaseInv, TypeOK
<1>2. CASE UNCHANGED roomService
  BY <1>1, <1>2
<1>3. CASE \E id : roomService' = RemoveRoom(roomService, id)
  BY <1>1, <1>3 DEF IsRoomService, RemoveRoom, Erase, Restrict, IsTable
<1>4. CASE \E id, user, hero : /\ CanSelectHero(roomService, id, user, hero)
                               /\ roomService' = SelectHero(roomService, id, user, hero)
  BY <1>1, <1>4 DEF CanSelectHero, SelectHero, IsRoomService, IsTable, Rooms, HasRoom
<1>5. CASE TickMatch
  <2> PICK first \in DOMAIN queue.ticketsByUserId, second \in DOMAIN queue.ticketsByUserId :
         roomService' = CreateRoom(roomService, first, second) \/ UNCHANGED roomService
    BY <1>5 DEF TickMatch, Pair, FirstMatchable, Matchable, BestSecond, Candidates
  <2>1. first \in UserIds /\ second \in UserIds
    BY DEF BaseInv, TypeOK, IsMatchQueue, IsTable
  <2>2. IsRoomService(CreateRoom(roomService, first, second), UserIds)
    BY <1>1, <2>1 DEF IsRoomService, CreateRoom, Put, IsTable, Rooms
  <2> QED
    BY <1>1, <2>2
<1>6. \/ UNCHANGED roomService
      \/ \E id : roomService' = RemoveRoom(roomService, id)
      \/ \E id, user, hero : /\ CanSelectHero(roomService, id, user, hero)
                             /\ roomService' = SelectHero(roomService, id, user, hero)
      \/ TickMatch
  <2>1. ASSUME NEW conn \in Connections, NEW saved \in BOOLEAN, Disconnect(conn, saved)
        PROVE  UNCHANGED roomService \/ \E id : roomService' = RemoveRoom(roomService, id)
    BY <2>1 DEF Disconnect, LeaveRoom, LeaveQuietly, CloseRoom, FinishBattle
  <2>2. ASSUME NEW conn \in Connections, NEW saved \in BOOLEAN, HandleBattleAttack(conn, saved)
        PROVE  UNCHANGED roomService \/ \E id : roomService' = RemoveRoom(roomService, id)
    BY <2>2 DEF HandleBattleAttack, FinishBattle
  <2>3. ASSUME NEW conn \in Connections, NEW hero, HandleHeroSelect(conn, hero)
        PROVE  \/ UNCHANGED roomService
               \/ \E id, user : /\ CanSelectHero(roomService, id, user, hero)
                                /\ roomService' = SelectHero(roomService, id, user, hero)
    BY <2>3 DEF HandleHeroSelect
  <2> QED
    BY <2>1, <2>2, <2>3
       DEF Next, Request, Tick, TickBegin, TickEnd, Advance, Connect, BadFrame,
           HandleLogin, HandleRegister, HandleMatchJoin, HandleMatchCancel, vars
<1> QED
  BY <1>2, <1>3, <1>4, <1>5, <1>6

BattlesTyped(B) == IsTable(B, Nat \ {0}, BattleStates(UserIds, SelectableHeroes))

\* A blow keeps the state of a battle typed.
LEMMA HitTyped ==
  ASSUME NEW state \in BattleStates(UserIds, SelectableHeroes), NEW user \in UserIds
  PROVE  Hit(state, user) \in BattleStates(UserIds, SelectableHeroes)
<1> DEFINE byFirst == user = state.firstUserId
           damage  == heroDamage(IF byFirst THEN state.firstHero ELSE state.secondHero)
           left    == Subtract(IF byFirst THEN state.secondHealth ELSE state.firstHealth,
                               damage)
           struck  == IF byFirst THEN [state EXCEPT !.secondHealth = left]
                                 ELSE [state EXCEPT !.firstHealth = left]
<1>1. damage \in Nat
  BY DEF heroDamage, BattleStates, SelectableHeroes
<1>2. left \in 0..kFullHealth
  <2> HIDE DEF damage
  <2> QED
    BY <1>1 DEF Subtract, BattleStates, kFullHealth
<1> HIDE DEF left
<1>3. struck \in BattleStates(UserIds, SelectableHeroes)
  BY <1>2 DEF BattleStates
<1>4. Hit(state, user) = IF left = 0 THEN Won(struck, user)
        ELSE [struck EXCEPT !.activeUserId = IF byFirst THEN state.secondUserId
                                                        ELSE state.firstUserId]
  BY DEF Hit, left
<1>5. state.firstUserId \in UserIds /\ state.secondUserId \in UserIds
  BY DEF BattleStates
<1> HIDE DEF struck
<1> QED
  BY <1>3, <1>4, <1>5 DEF Won, BattleStates

\* Every step keeps the battles typed.
LEMMA BattlesNext ==
  ASSUME BaseInv, [Next]_vars
  PROVE  BattlesTyped(battles')
<1>1. BattlesTyped(battles)
  BY DEF BaseInv, TypeOK, BattlesTyped
<1>2. CASE UNCHANGED battles
  BY <1>1, <1>2
<1>3. CASE \E id : battles' = RemoveBattle(battles, id)
  BY <1>1, <1>3 DEF BattlesTyped, RemoveBattle, Erase, Restrict, IsTable
<1>4. ASSUME NEW conn \in Connections, NEW saved \in BOOLEAN, HandleBattleAttack(conn, saved)
      PROVE  BattlesTyped(battles')
  <2> DEFINE user == SessionOn(sessions, conn).userId
             id   == SessionOn(sessions, conn).roomId
  <2>1. CASE \E i : battles' = RemoveBattle(battles, i)
    BY <1>3, <2>1
  <2>2. CASE battles' = Attack(battles, id, user)
    <3>1. id \in DOMAIN battles
      BY <1>4 DEF HandleBattleAttack, CanAttack, HasBattle
    <3>2. user \in UserIds
      BY <1>4 DEF HandleBattleAttack, BaseInv, TypeOK, IsSessionService, IsTable,
                  Sessions, HasSession, SessionOn
    <3>3. battles[id] \in BattleStates(UserIds, SelectableHeroes)
      BY <1>1, <3>1 DEF BattlesTyped, IsTable
    <3>4. Hit(battles[id], user) \in BattleStates(UserIds, SelectableHeroes)
      BY <3>2, <3>3, HitTyped
    <3>5. battles' = [battles EXCEPT ![id] = Hit(battles[id], user)]
      BY <2>2 DEF Attack
    <3> HIDE DEF id, user
    <3> QED
      BY <1>1, <3>1, <3>4, <3>5 DEF BattlesTyped, IsTable
  <2> QED
    BY <1>4, <2>1, <2>2 DEF HandleBattleAttack, FinishBattle
<1>5. ASSUME NEW conn \in Connections, NEW hero, HandleHeroSelect(conn, hero)
      PROVE  BattlesTyped(battles')
  <2> DEFINE user   == SessionOn(sessions, conn).userId
             id     == SessionOn(sessions, conn).roomId
             chosen == SelectHero(roomService, id, user, hero)
             room   == chosen.rooms[id]
  <2>1. CASE /\ CanSelectHero(roomService, id, user, hero)
             /\ CanStart(battles, id, room)
             /\ battles' = StartBattle(battles, id, room)
    <3>1. IsRoomService(chosen, UserIds) /\ id \in DOMAIN chosen.rooms
      BY <2>1 DEF BaseInv, TypeOK, CanSelectHero, SelectHero, IsRoomService, IsTable,
                  Rooms, HasRoom
    <3>2. room \in Rooms(UserIds) /\ id \in Nat \ {0}
      BY <3>1 DEF IsRoomService, IsTable
    <3> HIDE DEF room, id
    <3>3. room.firstHero \in SelectableHeroes /\ room.secondHero \in SelectableHeroes
      BY <2>1, <3>2 DEF CanStart, heroDamage, Rooms, SelectableHeroes, NoHero
    <3>4. NewBattle(room) \in BattleStates(UserIds, SelectableHeroes)
      BY <3>2, <3>3 DEF NewBattle, BattleStates, Rooms, kFullHealth
    <3> QED
      BY <1>1, <2>1, <3>2, <3>4 DEF BattlesTyped, IsTable, StartBattle, Put
  <2> QED
    BY <1>1, <1>5, <2>1 DEF HandleHeroSelect
<1>6. \/ UNCHANGED battles
      \/ \E id : battles' = RemoveBattle(battles, id)
      \/ \E conn \in Connections :
           \/ \E saved \in BOOLEAN : HandleBattleAttack(conn, saved)
           \/ \E hero : HandleHeroSelect(conn, hero)
  <2>1. ASSUME NEW conn \in Connections, NEW saved \in BOOLEAN, Disconnect(conn, saved)
        PROVE  UNCHANGED battles \/ \E id : battles' = RemoveBattle(battles, id)
    BY <2>1 DEF Disconnect, LeaveRoom, LeaveQuietly, CloseRoom, FinishBattle
  <2> QED
    BY <2>1
       DEF Next, Request, Tick, TickBegin, TickMatch, TickEnd, Advance, Connect, BadFrame,
           HandleLogin, HandleRegister, HandleMatchJoin, HandleMatchCancel, vars
<1> QED
  BY <1>2, <1>3, <1>4, <1>5, <1>6

\* Every step keeps the accounts typed: no ELO leaves uint32_t and no id is
\* given away twice past the last.
LEMMA LedgerNext ==
  ASSUME BaseInv, [Next]_vars
  PROVE  IsLedger(accountRepository', Elo)
<1>1. IsLedger(accountRepository, Elo)
  BY DEF BaseInv, TypeOK, Elo
<1>2. CASE UNCHANGED accountRepository
  BY <1>1, <1>2
<1>3. CASE /\ accountRepository.nextUserId # 0
           /\ accountRepository' = Register(accountRepository)
  BY <1>1, <1>3, MaxUserIdAssumption, InitialEloAssumption, EloMaxAssumption
     DEF IsLedger, Register, Put, IsTable, Elo, kInitialElo
<1>4. ASSUME NEW state, NEW saved, Settles(state, saved),
             accountRepository' = SettledAccounts(state)
      PROVE  IsLedger(accountRepository', Elo)
  <2> DEFINE first  == SessionOn(sessions, ConnectionOf(sessions, state.firstUserId))
             second == SessionOn(sessions, ConnectionOf(sessions, state.secondUserId))
             one == NewFirstElo(state, first.elo)
             two == NewSecondElo(state, second.elo)
  <2>1. first.elo \in Elo /\ second.elo \in Elo
    BY <1>4 DEF Settles, BaseInv, TypeOK, IsSessionService, IsTable, Sessions,
                HasSession, SessionOn, Elo
  <2>2. one \in Elo /\ two \in Elo
    BY <2>1, EloBounds
  <2>3. accountRepository' =
          UpdateEloPair(accountRepository, first.userId, one, second.userId, two)
    BY <1>4 DEF SettledAccounts
  <2> HIDE DEF first, second, one, two
  <2> QED
    BY <1>1, <2>2, <2>3 DEF UpdateEloPair, IsLedger, IsTable
<1>5. \/ UNCHANGED accountRepository
      \/ /\ accountRepository.nextUserId # 0
         /\ accountRepository' = Register(accountRepository)
      \/ \E state, saved : /\ Settles(state, saved)
                           /\ accountRepository' = SettledAccounts(state)
  <2>1. ASSUME NEW conn \in Connections, NEW saved \in BOOLEAN,
               Disconnect(conn, saved) \/ HandleBattleAttack(conn, saved)
        PROVE  \/ UNCHANGED accountRepository
               \/ \E state : /\ Settles(state, saved)
                             /\ accountRepository' = SettledAccounts(state)
    BY <2>1 DEF Disconnect, LeaveRoom, LeaveQuietly, CloseRoom, FinishBattle,
                HandleBattleAttack
  <2>2. ASSUME NEW conn \in Connections, NEW newName \in BOOLEAN, NEW saved \in BOOLEAN,
               HandleRegister(conn, newName, saved)
        PROVE  \/ UNCHANGED accountRepository
               \/ /\ accountRepository.nextUserId # 0
                  /\ accountRepository' = Register(accountRepository)
    BY <2>2 DEF HandleRegister, CanRegister
  <2> QED
    BY <2>1, <2>2
       DEF Next, Request, Tick, TickBegin, TickMatch, TickEnd, Advance, Connect, BadFrame,
           HandleLogin, HandleMatchJoin, HandleMatchCancel, HandleHeroSelect, vars
<1> QED
  BY <1>2, <1>3, <1>4, <1>5

\* The rest of the state.
LEMMA RestNext ==
  ASSUME BaseInv, [Next]_vars
  PROVE  /\ connections' \subseteq Connections
         /\ shutdown' \subseteq connections'
         /\ now' \in Nat /\ ticking' \in BOOLEAN
<1>1. /\ connections \subseteq Connections /\ shutdown \subseteq connections
      /\ now \in Nat /\ ticking \in BOOLEAN
  BY DEF BaseInv, TypeOK
<1>2. CASE UNCHANGED <<connections, shutdown, now, ticking>>
  BY <1>1, <1>2
<1>3. CASE TickBegin \/ TickEnd
  BY <1>1, <1>3 DEF TickBegin, TickEnd
<1>4. CASE Advance
  BY <1>1, <1>4, BoundsAssumption DEF Advance
<1>5. ASSUME NEW conn \in Connections, Connect(conn) \/ BadFrame(conn)
      PROVE  /\ connections' \subseteq Connections /\ shutdown' \subseteq connections'
             /\ now' \in Nat /\ ticking' \in BOOLEAN
  BY <1>1, <1>5 DEF Connect, BadFrame, Receives
<1>6. ASSUME NEW conn \in Connections, NEW saved \in BOOLEAN, Disconnect(conn, saved)
      PROVE  /\ connections' \subseteq Connections /\ shutdown' \subseteq connections'
             /\ now' \in Nat /\ ticking' \in BOOLEAN
  <2>1. /\ connections' = connections \ {conn} /\ shutdown' = shutdown \ {conn}
        /\ UNCHANGED <<now, ticking>>
    BY <1>6 DEF Disconnect
  <2> QED
    BY <1>1, <2>1
<1>7. ASSUME NEW conn \in Connections, Request(conn)
      PROVE  BadFrame(conn) \/ UNCHANGED <<connections, shutdown, now, ticking>>
  BY <1>7 DEF Request, HandleLogin, HandleRegister, HandleMatchJoin, HandleMatchCancel,
              HandleHeroSelect, HandleBattleAttack
<1>8. TickMatch => UNCHANGED <<connections, shutdown, now, ticking>>
  BY DEF TickMatch
<1>9. UNCHANGED vars => UNCHANGED <<connections, shutdown, now, ticking>>
  BY DEF vars
<1> QED
  BY <1>2, <1>3, <1>4, <1>5, <1>6, <1>7, <1>8, <1>9 DEF Next, Tick

-----------------------------------------------------------------------------
(* The theorems. *)

\* The CHOOSE of NextUserIdAfter has something to choose.
LEMMA LargestId ==
  ASSUME NEW ids, ids \subseteq 1..MaxUserId, ids # {}
  PROVE  \E id \in ids : \A other \in ids : other <= id
<1> DEFINE gaps == {MaxUserId - id : id \in ids}
<1>1. gaps \subseteq Nat /\ gaps # {}
  <2>1. \A id \in ids : MaxUserId - id \in Nat
    BY MaxUserIdAssumption
  <2> QED
    BY <2>1
<1>2. \E id \in ids : \A other \in ids : MaxUserId - id <= MaxUserId - other
  <2> HIDE DEF gaps
  <2>1. PICK gap \in gaps : \A other \in gaps : gap <= other
    BY <1>1, LeastNatural
  <2> QED
    BY <2>1 DEF gaps
<1> QED
  BY <1>2, MaxUserIdAssumption

\* load() finds the next id within uint32_t and past all those in the file, or 0 if
\* none is left.
LEMMA NextUserIdBounded ==
  ASSUME NEW ids, ids \subseteq 1..MaxUserId
  PROVE  /\ NextUserIdAfter(ids) \in 0..MaxUserId
         /\ NextUserIdAfter(ids) # 0 => \A id \in ids : id < NextUserIdAfter(ids)
<1>1. CASE MaxUserId \in ids \/ ids = {}
  BY <1>1, MaxUserIdAssumption DEF NextUserIdAfter
<1>2. CASE MaxUserId \notin ids /\ ids # {}
  <2> DEFINE largest == CHOOSE id \in ids : \A other \in ids : other <= id
  <2>1. largest \in ids /\ \A other \in ids : other <= largest
    BY <1>2, LargestId
  <2>2. NextUserIdAfter(ids) = 1 + largest
    BY <1>2 DEF NextUserIdAfter
  <2> HIDE DEF largest
  <2> QED
    BY <1>2, <2>1, <2>2, MaxUserIdAssumption
<1> QED
  BY <1>1, <1>2

LEMMA BaseInvInit == Init => BaseInv
<1> SUFFICES ASSUME Init PROVE BaseInv
  OBVIOUS
<1>1. /\ sessions.sessionsByConnection = <<>> /\ sessions.connectionByUserId = <<>>
      /\ DOMAIN sessions = {"sessionsByConnection", "connectionByUserId"}
  BY DEF Init, NoSessions
<1>2. IsSessionService(sessions, Connections, UserIds, 0..EloMax) /\ SessionsInverse
  BY <1>1 DEF IsSessionService, IsTable, SessionsInverse, AreInverse
<1>3. IsMatchQueue(queue, UserIds, 0..EloMax) /\ ContainersAgree(queue)
  <2>1. /\ DOMAIN queue.ticketsByUserId = {}
        /\ queue.ticketsByElo = {} /\ queue.ticketsByWaitTime = {}
    BY DEF Init, EmptyQueue
  <2> QED
    BY <2>1 DEF Init, EmptyQueue, IsMatchQueue, IsTable, ContainersAgree
<1>4. IsRoomService(roomService, UserIds)
  BY DEF Init, NoRooms, IsRoomService, IsTable
<1>5. IsTable(battles, Nat \ {0}, BattleStates(UserIds, SelectableHeroes))
  BY DEF Init, IsTable
<1>6. IsLedger(accountRepository, 0..EloMax)
  <2>1. NextUserIdAfter(DOMAIN InitialElo) \in 0..MaxUserId
    BY InitialEloAssumption, NextUserIdBounded
  <2> QED
    BY <2>1, InitialEloAssumption DEF Init, Loaded, IsLedger, IsTable
<1> QED
  BY <1>2, <1>3, <1>4, <1>5, <1>6 DEF BaseInv, TypeOK, Init

LEMMA BaseInvNext == BaseInv /\ [Next]_vars => BaseInv'
<1> SUFFICES ASSUME BaseInv, [Next]_vars PROVE BaseInv'
  OBVIOUS
<1>1. SessionsOK(sessions') /\ DOMAIN (sessions').sessionsByConnection \subseteq connections'
  BY SessionsNext
<1>2. IsMatchQueue(queue', UserIds, Elo) /\ ContainersAgree(queue')
  BY QueueNext
<1>3. IsRoomService(roomService', UserIds) /\ BattlesTyped(battles')
  BY RoomsNext, BattlesNext
<1>4. IsLedger(accountRepository', Elo)
  BY LedgerNext
<1>5. /\ connections' \subseteq Connections /\ shutdown' \subseteq connections'
      /\ now' \in Nat /\ ticking' \in BOOLEAN
  BY RestNext
<1>6. TypeOK'
  BY <1>1, <1>2, <1>3, <1>4, <1>5
     DEF TypeOK, SessionsOK, BattlesTyped, Elo, IsSessionService, IsMatchQueue,
         IsRoomService, IsLedger, IsTable, Sessions, Tickets, Rooms, BattleStates, UserIds
<1>7. SessionsInverse'
  BY <1>1 DEF SessionsInverse, SessionsOK, AreInverse, ConnectionOf, HasSession, SessionOn
<1>8. ContainersAgree(queue)'
  BY <1>2 DEF ContainersAgree
<1> QED
  BY <1>6, <1>7, <1>8 DEF BaseInv

\* The state of the server keeps the shape its classes declare, whatever the
\* clients send, however saves fail: no ELO leaves its range, no id wraps
\* around, no battle has more health than it began with.
THEOREM ServerTypeCorrect == Spec => []TypeOK
<1>1. Spec => []BaseInv
  BY BaseInvInit, BaseInvNext, PTL DEF Spec
<1>2. BaseInv => TypeOK
  BY DEF BaseInv
<1> QED
  BY <1>1, <1>2, PTL

\* The two tables of SessionService are inverse and name open connections only
\* after every sequence of logins, battles, matches and disconnects.
THEOREM SessionsAlwaysInverse == Spec => []SessionsInverse
<1>1. Spec => []BaseInv
  BY BaseInvInit, BaseInvNext, PTL DEF Spec
<1>2. BaseInv => SessionsInverse
  BY DEF BaseInv
<1> QED
  BY <1>1, <1>2, PTL

-----------------------------------------------------------------------------
(* The two tables of SessionService seen as one. *)

\* Who is online, with his session.
PlayersOf(S) == [user \in DOMAIN S.connectionByUserId |-> SessionOn(S, ConnectionOf(S, user))]

\* What findByConnection and findConnectionByUserId find are the entries of one table.
LEMMA PlayersTyped ==
  ASSUME NEW S, SessionsOK(S)
  PROVE  LET P == PlayersOf(S) IN
         /\ DOMAIN P = DOMAIN S.connectionByUserId /\ DOMAIN P \subseteq UserIds
         /\ \A user \in DOMAIN P : /\ P[user] \in Sessions(UserIds, Elo)
                                   /\ P[user].userId = user
                                   /\ P[user] = SessionOn(S, ConnectionOf(S, user))
         /\ \A conn \in DOMAIN S.sessionsByConnection :
              /\ SessionOn(S, conn).userId \in DOMAIN P
              /\ SessionOn(S, conn) = P[SessionOn(S, conn).userId]
         /\ \A user : HasSession(S, ConnectionOf(S, user)) <=> user \in DOMAIN P
<1>1. /\ IsTable(S.sessionsByConnection, Connections, Sessions(UserIds, Elo))
      /\ IsTable(S.connectionByUserId, UserIds, Connections)
      /\ AreInverse(S) /\ NoConnection \notin Connections
  BY ConnectionsAssumption DEF SessionsOK, IsSessionService
<1>2. \A conn \in DOMAIN S.sessionsByConnection :
        /\ SessionOn(S, conn).userId \in DOMAIN S.connectionByUserId
        /\ S.connectionByUserId[SessionOn(S, conn).userId] = conn
  BY <1>1 DEF AreInverse, ConnectionOf, IsTable
<1>3. \A user \in DOMAIN S.connectionByUserId :
        /\ HasSession(S, ConnectionOf(S, user))
        /\ SessionOn(S, ConnectionOf(S, user)) \in Sessions(UserIds, Elo)
        /\ SessionOn(S, ConnectionOf(S, user)).userId = user
  BY <1>1 DEF AreInverse, HasSession, SessionOn, IsTable
<1>4. \A user : user \notin DOMAIN S.connectionByUserId => ~HasSession(S, ConnectionOf(S, user))
  BY <1>1 DEF ConnectionOf, HasSession, IsTable
<1> QED
  BY <1>1, <1>2, <1>3, <1>4 DEF PlayersOf, ConnectionOf, IsTable

\* bind() adds one player.
LEMMA BindPlayers ==
  ASSUME NEW S, SessionsOK(S), NEW conn \in Connections,
         NEW session \in Sessions(UserIds, Elo), CanBind(S, conn, session.userId)
  PROVE  PlayersOf(Bind(S, conn, session)) = Put(PlayersOf(S), session.userId, session)
<1> DEFINE user == session.userId
           B == Bind(S, conn, session)
<1>1. conn \notin DOMAIN S.sessionsByConnection /\ user \notin DOMAIN S.connectionByUserId
  BY DEF CanBind, HasSession
<1>2. /\ DOMAIN B.connectionByUserId = DOMAIN S.connectionByUserId \cup {user}
      /\ B.sessionsByConnection[conn] = session
      /\ B.connectionByUserId[user] = conn
      /\ \A c \in DOMAIN S.sessionsByConnection :
           B.sessionsByConnection[c] = S.sessionsByConnection[c]
      /\ \A u \in DOMAIN S.connectionByUserId :
           B.connectionByUserId[u] = S.connectionByUserId[u]
  BY <1>1 DEF Bind, Put
<1>3. \A u \in DOMAIN S.connectionByUserId :
        S.connectionByUserId[u] \in DOMAIN S.sessionsByConnection
  BY DEF SessionsOK, AreInverse, HasSession, ConnectionOf
<1> HIDE DEF B
<1>4. \A u \in DOMAIN B.connectionByUserId :
        SessionOn(B, ConnectionOf(B, u))
          = IF u = user THEN session ELSE SessionOn(S, ConnectionOf(S, u))
  BY <1>1, <1>2, <1>3 DEF SessionOn, ConnectionOf
<1>5. \A u \in DOMAIN B.connectionByUserId \ {user} :
        SessionOn(S, ConnectionOf(S, u)) = PlayersOf(S)[u]
  BY <1>2 DEF PlayersOf
<1>6. DOMAIN PlayersOf(S) = DOMAIN S.connectionByUserId
  BY DEF PlayersOf
<1>7. PlayersOf(B) = [u \in DOMAIN PlayersOf(S) \cup {user} |->
                        IF u = user THEN session ELSE PlayersOf(S)[u]]
  <2>1. PlayersOf(B) = [u \in DOMAIN B.connectionByUserId |->
                          SessionOn(B, ConnectionOf(B, u))]
    BY DEF PlayersOf
  <2> QED  BY <1>2, <1>4, <1>5, <1>6, <2>1
<1> QED
  BY <1>7 DEF Put, B

\* remove() takes one player away, whose session it is.
LEMMA RemovePlayers ==
  ASSUME NEW S, SessionsOK(S), NEW conn, HasSession(S, conn)
  PROVE  PlayersOf(RemoveSession(S, conn)) = Erase(PlayersOf(S), SessionOn(S, conn).userId)
<1> DEFINE user == SessionOn(S, conn).userId
           R == RemoveSession(S, conn)
           D == DOMAIN S.connectionByUserId \ {user}
<1>1. /\ AreInverse(S) /\ NoConnection \notin Connections
      /\ IsTable(S.sessionsByConnection, Connections, Sessions(UserIds, Elo))
  BY ConnectionsAssumption DEF SessionsOK, IsSessionService
<1>2. ConnectionOf(S, user) = conn
  BY <1>1 DEF AreInverse, HasSession
<1>3. R = [sessionsByConnection |-> Erase(S.sessionsByConnection, conn),
           connectionByUserId   |-> Erase(S.connectionByUserId, user)]
  BY <1>2 DEF RemoveSession
<1>4. /\ DOMAIN R.connectionByUserId = D
      /\ \A c \in DOMAIN S.sessionsByConnection \ {conn} :
           R.sessionsByConnection[c] = S.sessionsByConnection[c]
      /\ \A u \in D : R.connectionByUserId[u] = S.connectionByUserId[u]
  BY <1>3 DEF Erase, Restrict
<1>5. \A u \in D : /\ S.connectionByUserId[u] \in DOMAIN S.sessionsByConnection \ {conn}
                   /\ ConnectionOf(S, u) = S.connectionByUserId[u]
  BY <1>1, <1>2 DEF AreInverse, ConnectionOf, HasSession, SessionOn
<1> HIDE DEF R
<1>6. \A u \in D : SessionOn(R, ConnectionOf(R, u)) = SessionOn(S, ConnectionOf(S, u))
  BY <1>4, <1>5 DEF SessionOn, ConnectionOf
<1>7. PlayersOf(R) = [u \in D |-> SessionOn(R, ConnectionOf(R, u))]
  BY <1>4 DEF PlayersOf
<1>8. Erase(PlayersOf(S), user) = [u \in D |-> SessionOn(S, ConnectionOf(S, u))]
  BY DEF PlayersOf, Erase, Restrict
<1> QED
  BY <1>6, <1>7, <1>8 DEF R

\* markInRoom() and clearRoom() change one player's room, and nothing for a user
\* who is offline.
LEMMA SetRoomPlayers ==
  ASSUME NEW S, SessionsOK(S), NEW user, NEW room \in Nat
  PROVE  PlayersOf(SetRoom(S, user, room)) = [PlayersOf(S) EXCEPT ![user].roomId = room]
<1> DEFINE conn == ConnectionOf(S, user)
           R == SetRoom(S, user, room)
           P == PlayersOf(S)
<1>1. /\ AreInverse(S) /\ NoConnection \notin Connections
      /\ IsTable(S.sessionsByConnection, Connections, Sessions(UserIds, Elo))
      /\ IsTable(S.connectionByUserId, UserIds, Connections)
  BY ConnectionsAssumption DEF SessionsOK, IsSessionService
<1>2. CASE user \notin DOMAIN S.connectionByUserId
  <2>1. R = S
    BY <1>2 DEF SetRoom, ConnectionOf
  <2>2. [P EXCEPT ![user].roomId = room] = P
    BY <1>2 DEF PlayersOf
  <2> QED  BY <2>1, <2>2
<1>3. CASE user \in DOMAIN S.connectionByUserId
  <2>1. HasSession(S, conn) /\ conn # NoConnection
    BY <1>1, <1>3 DEF AreInverse, ConnectionOf, IsTable
  <2>2. R = [S EXCEPT !.sessionsByConnection[conn].roomId = room]
    BY <2>1 DEF SetRoom
  <2>3. /\ R.connectionByUserId = S.connectionByUserId
        /\ R.sessionsByConnection =
             [S.sessionsByConnection EXCEPT ![conn] = [@ EXCEPT !.roomId = room]]
    BY <2>2 DEF SessionsOK, IsSessionService
  <2> HIDE DEF R
  <2>4. \A u \in DOMAIN S.connectionByUserId :
          SessionOn(R, ConnectionOf(R, u))
            = IF u = user THEN [SessionOn(S, conn) EXCEPT !.roomId = room]
                          ELSE SessionOn(S, ConnectionOf(S, u))
    BY <1>1, <2>1, <2>3 DEF SessionOn, ConnectionOf, HasSession, AreInverse
  <2>5. PlayersOf(R) = [u \in DOMAIN S.connectionByUserId |->
                          IF u = user THEN [SessionOn(S, conn) EXCEPT !.roomId = room]
                                      ELSE SessionOn(S, ConnectionOf(S, u))]
    BY <2>3, <2>4 DEF PlayersOf
  <2> QED  BY <1>3, <2>5 DEF PlayersOf, R
<1> QED
  BY <1>2, <1>3

\* The ELO finishBattle writes is one player's.
LEMMA SetEloPlayers ==
  ASSUME NEW S, SessionsOK(S), NEW user \in DOMAIN PlayersOf(S), NEW elo
  PROVE  PlayersOf(SetElo(S, user, elo)) = [PlayersOf(S) EXCEPT ![user].elo = elo]
<1> DEFINE conn == ConnectionOf(S, user)
           R == SetElo(S, user, elo)
<1>1. /\ AreInverse(S) /\ NoConnection \notin Connections
      /\ user \in DOMAIN S.connectionByUserId
  BY ConnectionsAssumption DEF SessionsOK, PlayersOf
<1>2. HasSession(S, conn)
  BY <1>1 DEF AreInverse
<1>3. /\ R.connectionByUserId = S.connectionByUserId
      /\ R.sessionsByConnection =
           [S.sessionsByConnection EXCEPT ![conn] = [@ EXCEPT !.elo = elo]]
  BY DEF SetElo, SessionsOK, IsSessionService
<1> HIDE DEF R
<1>4. \A u \in DOMAIN S.connectionByUserId :
        SessionOn(R, ConnectionOf(R, u))
          = IF u = user THEN [SessionOn(S, conn) EXCEPT !.elo = elo]
                        ELSE SessionOn(S, ConnectionOf(S, u))
  BY <1>1, <1>2, <1>3 DEF SessionOn, ConnectionOf, HasSession, AreInverse
<1>5. PlayersOf(R) = [u \in DOMAIN S.connectionByUserId |->
                        IF u = user THEN [SessionOn(S, conn) EXCEPT !.elo = elo]
                                    ELSE SessionOn(S, ConnectionOf(S, u))]
  BY <1>3, <1>4 DEF PlayersOf
<1> QED
  BY <1>1, <1>5 DEF PlayersOf, R

-----------------------------------------------------------------------------
(* What the handlers do to the five tables, each effect by itself. P is the *)
(* table of players, T of tickets, R the RoomService, B the battles, A the *)
(* accounts, t the time.                                                   *)

QueuedFree(P, T, t) ==
  \A user \in DOMAIN T :
    /\ user \in DOMAIN P /\ P[user].roomId = NoRoom
    /\ T[user].elo = P[user].elo /\ T[user].joinedAt <= t

RoomsMatch(P, R) ==
  /\ \A id \in DOMAIN R.rooms :
       /\ id < R.nextRoomId
       /\ R.rooms[id].firstUserId # R.rooms[id].secondUserId
       /\ \A user \in Members(R.rooms[id]) : user \in DOMAIN P /\ P[user].roomId = id
  /\ \A user \in DOMAIN P : P[user].roomId # NoRoom =>
       HasRoom(R, P[user].roomId) /\ user \in Members(R.rooms[P[user].roomId])

\* A battle goes on between the members of its room.
GoesOn(state, room) ==
  /\ state.firstUserId = room.firstUserId /\ state.secondUserId = room.secondUserId
  /\ state.firstHero = room.firstHero /\ state.secondHero = room.secondHero
  /\ ~state.finished
  /\ state.activeUserId \in {state.firstUserId, state.secondUserId}
  /\ state.firstHealth > 0 /\ state.secondHealth > 0

BattlesMatch(R, B) ==
  /\ \A id \in DOMAIN R.rooms : BothHeroesSelected(R, id) <=> HasBattle(B, id)
  /\ \A id \in DOMAIN B : HasRoom(R, id) /\ GoesOn(B[id], R.rooms[id])

EloAgrees(P, A) == \A user \in DOMAIN P : user \in DOMAIN A.elo /\ P[user].elo = A.elo[user]

\* The next id is past all that were given: without it a registration would reset
\* the ELO of somebody who is online.
NextIdIsNew(A) == A.nextUserId # 0 => \A user \in DOMAIN A.elo : user < A.nextUserId

TablesTyped(P, T, R, B, A, t) ==
  /\ IsTable(P, UserIds, Sessions(UserIds, Elo)) /\ \A user \in DOMAIN P : P[user].userId = user
  /\ IsTable(T, UserIds, Tickets(UserIds, Elo))
  /\ IsRoomService(R, UserIds) /\ BattlesTyped(B) /\ IsLedger(A, Elo) /\ t \in Nat

TablesAgree(P, T, R, B, A, t) ==
  /\ QueuedFree(P, T, t) /\ RoomsMatch(P, R) /\ BattlesMatch(R, B)
  /\ EloAgrees(P, A) /\ NextIdIsNew(A)

\* A login adds a player with the ELO of his account, in no room and no queue.
LEMMA LoginAgrees ==
  ASSUME NEW P, NEW T, NEW R, NEW B, NEW A, NEW t,
         TablesTyped(P, T, R, B, A, t), TablesAgree(P, T, R, B, A, t),
         NEW user \in DOMAIN A.elo, user \notin DOMAIN P
  PROVE  TablesAgree(Put(P, user, NewSession(user, A.elo[user])), T, R, B, A, t)
<1> DEFINE N == Put(P, user, NewSession(user, A.elo[user]))
<1>1. /\ DOMAIN N = DOMAIN P \cup {user}
      /\ N[user].elo = A.elo[user] /\ N[user].roomId = NoRoom
      /\ \A other \in DOMAIN P : N[other] = P[other]
  BY DEF Put, NewSession
<1> HIDE DEF N
<1>2. QueuedFree(N, T, t)
  BY <1>1 DEF TablesAgree, QueuedFree
<1>3. RoomsMatch(N, R)
  BY <1>1 DEF TablesAgree, RoomsMatch
<1>4. EloAgrees(N, A)
  BY <1>1 DEF TablesAgree, EloAgrees
<1> QED
  BY <1>2, <1>3, <1>4 DEF TablesAgree, N

\* A registration gives an id nobody has.
LEMMA RegisterAgrees ==
  ASSUME NEW P, NEW T, NEW R, NEW B, NEW A, NEW t,
         TablesTyped(P, T, R, B, A, t), TablesAgree(P, T, R, B, A, t),
         A.nextUserId # 0
  PROVE  TablesAgree(P, T, R, B, Register(A), t)
<1> DEFINE N == Register(A)
<1>1. /\ DOMAIN N.elo = DOMAIN A.elo \cup {A.nextUserId}
      /\ \A user \in DOMAIN A.elo \ {A.nextUserId} : N.elo[user] = A.elo[user]
      /\ N.nextUserId = IF A.nextUserId = MaxUserId THEN 0 ELSE A.nextUserId + 1
  BY DEF Register, Put
<1>2. /\ DOMAIN A.elo \subseteq Nat /\ A.nextUserId \in Nat
      /\ \A user \in DOMAIN A.elo : user < A.nextUserId
  BY MaxUserIdAssumption DEF TablesTyped, TablesAgree, NextIdIsNew, IsLedger, IsTable
<1> HIDE DEF N
<1>3. NextIdIsNew(N)
  BY <1>1, <1>2 DEF NextIdIsNew
<1>4. EloAgrees(P, N)
  BY <1>1, <1>2 DEF TablesAgree, EloAgrees
<1> QED
  BY <1>3, <1>4 DEF TablesAgree, N

\* A player in the lobby joins with the ELO of his session and the time of the clock.
LEMMA JoinKeepsAgreement ==
  ASSUME NEW P, NEW T, NEW R, NEW B, NEW A, NEW t \in Nat, TablesAgree(P, T, R, B, A, t),
         NEW user \in DOMAIN P, P[user].roomId = NoRoom
  PROVE  TablesAgree(P, Put(T, user, Ticket(user, P[user].elo, t)), R, B, A, t)
<1> DEFINE N == Put(T, user, Ticket(user, P[user].elo, t))
<1>1. /\ DOMAIN N = DOMAIN T \cup {user}
      /\ N[user].elo = P[user].elo /\ N[user].joinedAt = t
      /\ \A other \in DOMAIN T \ {user} : N[other] = T[other]
  BY DEF Put, Ticket
<1> HIDE DEF N
<1>2. QueuedFree(P, N, t)
  BY <1>1 DEF TablesAgree, QueuedFree
<1> QED
  BY <1>2 DEF TablesAgree, N

\* Whoever leaves the queue leaves the rest as it is.
LEMMA LeaveQueueAgrees ==
  ASSUME NEW P, NEW T, NEW R, NEW B, NEW A, NEW t, TablesAgree(P, T, R, B, A, t), NEW user
  PROVE  TablesAgree(P, Erase(T, user), R, B, A, t)
BY DEF TablesAgree, QueuedFree, Erase, Restrict

\* Two queued players leave the queue for a room with a number nobody has had.
LEMMA MeetAgrees ==
  ASSUME NEW P, NEW T, NEW R, NEW B, NEW A, NEW t,
         TablesTyped(P, T, R, B, A, t), TablesAgree(P, T, R, B, A, t),
         NEW first \in DOMAIN T, NEW second \in DOMAIN T, first # second
  PROVE  LET id == R.nextRoomId
             N  == [[P EXCEPT ![first].roomId = id] EXCEPT ![second].roomId = id]
         IN  TablesAgree(N, Erase(Erase(T, first), second), CreateRoom(R, first, second), B, A, t)
<1> DEFINE id == R.nextRoomId
           N  == [[P EXCEPT ![first].roomId = id] EXCEPT ![second].roomId = id]
           M  == Erase(Erase(T, first), second)
           C  == CreateRoom(R, first, second)
<1>1. /\ first \in DOMAIN P /\ P[first].roomId = NoRoom
      /\ second \in DOMAIN P /\ P[second].roomId = NoRoom
      /\ id \in Nat \ {0}
      /\ \A user \in DOMAIN P : P[user] \in Sessions(UserIds, Elo)
  BY DEF TablesTyped, TablesAgree, QueuedFree, IsRoomService, IsTable
<1>2. /\ DOMAIN N = DOMAIN P
      /\ \A user \in DOMAIN P \ {first, second} : N[user] = P[user]
      /\ \A user \in {first, second} : N[user].roomId = id /\ N[user].elo = P[user].elo
  BY <1>1 DEF Sessions
<1>3. /\ DOMAIN M = DOMAIN T \ {first, second}
      /\ \A user \in DOMAIN M : M[user] = T[user]
  BY DEF Erase, Restrict
<1>4. \A i \in DOMAIN R.rooms : i \in Nat \ {0} /\ i < id
  BY DEF TablesTyped, TablesAgree, RoomsMatch, IsRoomService, IsTable
<1>5. /\ C.nextRoomId = id + 1
      /\ DOMAIN C.rooms = DOMAIN R.rooms \cup {id}
      /\ C.rooms[id] = [firstUserId |-> first, secondUserId |-> second,
                        firstHero |-> NoHero, secondHero |-> NoHero]
      /\ \A i \in DOMAIN R.rooms : C.rooms[i] = R.rooms[i]
  BY <1>1, <1>4 DEF CreateRoom, Put
<1> HIDE DEF N, M, C
<1>6. QueuedFree(N, M, t)
  BY <1>2, <1>3 DEF TablesAgree, QueuedFree
<1>7. RoomsMatch(N, C)
  <2>1. ASSUME NEW i \in DOMAIN R.rooms
        PROVE  /\ i < C.nextRoomId
               /\ C.rooms[i].firstUserId # C.rooms[i].secondUserId
               /\ \A user \in Members(C.rooms[i]) : user \in DOMAIN N /\ N[user].roomId = i
    <3>1. /\ R.rooms[i].firstUserId # R.rooms[i].secondUserId
          /\ \A user \in Members(R.rooms[i]) : user \in DOMAIN P /\ P[user].roomId = i
      BY DEF TablesAgree, RoomsMatch
    <3>2. first \notin Members(R.rooms[i]) /\ second \notin Members(R.rooms[i])
      BY <1>1, <1>4, <3>1 DEF NoRoom
    <3>3. C.rooms[i] = R.rooms[i] /\ i < C.nextRoomId
      BY <1>1, <1>4, <1>5
    <3> QED  BY <1>2, <3>1, <3>2, <3>3
  <2>2. /\ id < C.nextRoomId /\ C.rooms[id].firstUserId # C.rooms[id].secondUserId
        /\ \A user \in Members(C.rooms[id]) : user \in DOMAIN N /\ N[user].roomId = id
    BY <1>1, <1>2, <1>5 DEF Members
  <2>3. ASSUME NEW user \in DOMAIN N, N[user].roomId # NoRoom
        PROVE  HasRoom(C, N[user].roomId) /\ user \in Members(C.rooms[N[user].roomId])
    <3>1. CASE user \in {first, second}
      BY <1>2, <1>5, <3>1 DEF HasRoom, Members
    <3>2. CASE user \notin {first, second}
      BY <1>2, <1>5, <2>3, <3>2 DEF HasRoom, TablesAgree, RoomsMatch
    <3> QED  BY <3>1, <3>2
  <2> QED
    BY <1>5, <2>1, <2>2, <2>3 DEF RoomsMatch
<1>8. BattlesMatch(C, B)
  <2>1. id \notin DOMAIN B /\ ~BothHeroesSelected(C, id)
    BY <1>1, <1>4, <1>5 DEF TablesAgree, BattlesMatch, HasRoom, BothHeroesSelected
  <2>2. \A i \in DOMAIN R.rooms : BothHeroesSelected(C, i) <=> BothHeroesSelected(R, i)
    BY <1>5 DEF BothHeroesSelected, HasRoom
  <2>3. \A i \in DOMAIN B : i \in DOMAIN R.rooms
    BY DEF TablesAgree, BattlesMatch, HasRoom
  <2> QED
    BY <1>5, <2>1, <2>2, <2>3 DEF TablesAgree, BattlesMatch, HasRoom, HasBattle
<1>9. EloAgrees(N, A)
  BY <1>2 DEF TablesAgree, EloAgrees
<1> QED
  BY <1>6, <1>7, <1>8, <1>9 DEF TablesAgree, N, M, C

\* A hero is chosen; the second of the two choices starts the battle.
LEMMA SelectHeroAgrees ==
  ASSUME NEW P, NEW T, NEW R, NEW B, NEW A, NEW t,
         TablesTyped(P, T, R, B, A, t), TablesAgree(P, T, R, B, A, t),
         NEW id, NEW user, NEW hero, CanSelectHero(R, id, user, hero)
  PROVE  LET C == SelectHero(R, id, user, hero)
             room == C.rooms[id]
         IN  /\ BothHeroesSelected(C, id) =>
                  /\ CanStart(B, id, room)
                  /\ TablesAgree(P, T, C, StartBattle(B, id, room), A, t)
             /\ ~BothHeroesSelected(C, id) => TablesAgree(P, T, C, B, A, t)
<1> DEFINE C == SelectHero(R, id, user, hero)
           room == C.rooms[id]
<1>1. /\ id \in DOMAIN R.rooms /\ hero \in SelectableHeroes /\ hero # NoHero
      /\ id \in Nat \ {0} /\ R.rooms \in [DOMAIN R.rooms -> Rooms(UserIds)]
      /\ DOMAIN R = {"nextRoomId", "rooms"}
  BY DEF CanSelectHero, HasRoom, TablesTyped, IsRoomService, IsTable, SelectableHeroes, NoHero
<1>2. /\ C.nextRoomId = R.nextRoomId
      /\ DOMAIN C.rooms = DOMAIN R.rooms
      /\ \A i \in DOMAIN R.rooms \ {id} : C.rooms[i] = R.rooms[i]
      /\ room.firstUserId = R.rooms[id].firstUserId
      /\ room.secondUserId = R.rooms[id].secondUserId
      /\ room \in Rooms(UserIds)
  BY <1>1 DEF SelectHero, Rooms
<1>3. R.rooms[id].firstHero = NoHero \/ R.rooms[id].secondHero = NoHero
  BY DEF CanSelectHero
<1> HIDE DEF C
<1>4. RoomsMatch(P, C)
  BY <1>2 DEF TablesAgree, RoomsMatch, HasRoom, Members
<1>5. id \notin DOMAIN B
  BY <1>1, <1>3 DEF TablesAgree, BattlesMatch, BothHeroesSelected, HasBattle
<1>6. \A i \in DOMAIN R.rooms \ {id} : BothHeroesSelected(C, i) <=> HasBattle(B, i)
  BY <1>2 DEF TablesAgree, BattlesMatch, BothHeroesSelected, HasRoom
<1>7. \A i \in DOMAIN B : i \in DOMAIN R.rooms \ {id} /\ GoesOn(B[i], R.rooms[i])
  BY <1>5 DEF TablesAgree, BattlesMatch, HasRoom
<1>8. ASSUME BothHeroesSelected(C, id)
      PROVE  CanStart(B, id, room) /\ TablesAgree(P, T, C, StartBattle(B, id, room), A, t)
  <2> DEFINE N == StartBattle(B, id, room)
  <2>1. room.firstHero \in SelectableHeroes /\ room.secondHero \in SelectableHeroes
    BY <1>2, <1>8 DEF BothHeroesSelected, Rooms
  <2>2. heroDamage(room.firstHero) # 0 /\ heroDamage(room.secondHero) # 0
    BY <2>1 DEF heroDamage, SelectableHeroes
  <2>3. room.firstUserId # room.secondUserId
    BY <1>1, <1>2 DEF TablesAgree, RoomsMatch
  <2>4. CanStart(B, id, room)
    BY <1>1, <1>2, <1>5, <2>2, <2>3 DEF CanStart, HasBattle, Rooms, UserIds
  <2>5. /\ DOMAIN N = DOMAIN B \cup {id}
        /\ N[id] = NewBattle(room)
        /\ \A i \in DOMAIN B : N[i] = B[i]
    BY <1>5 DEF StartBattle, Put
  <2>6. GoesOn(NewBattle(room), room)
    BY DEF GoesOn, NewBattle, kFullHealth
  <2> HIDE DEF N
  <2>7. BattlesMatch(C, N)
    BY <1>1, <1>2, <1>6, <1>7, <1>8, <2>5, <2>6 DEF BattlesMatch, HasRoom, HasBattle
  <2> QED
    BY <1>4, <2>4, <2>7 DEF TablesAgree, N
<1>9. ASSUME ~BothHeroesSelected(C, id)
      PROVE  TablesAgree(P, T, C, B, A, t)
  <2>1. BattlesMatch(C, B)
    BY <1>2, <1>5, <1>6, <1>7, <1>9 DEF BattlesMatch, HasRoom, HasBattle
  <2> QED
    BY <1>4, <2>1 DEF TablesAgree
<1> QED
  BY <1>8, <1>9 DEF C

\* A blow that leaves the defender alive passes the turn to him.
LEMMA StrikeAgrees ==
  ASSUME NEW P, NEW T, NEW R, NEW B, NEW A, NEW t,
         TablesTyped(P, T, R, B, A, t), TablesAgree(P, T, R, B, A, t),
         NEW id, NEW user, CanAttack(B, id, user), ~Attack(B, id, user)[id].finished
  PROVE  TablesAgree(P, T, R, Attack(B, id, user), A, t)
<1> DEFINE N == Attack(B, id, user)
           state == B[id]
<1>1. /\ id \in DOMAIN B /\ user \in {state.firstUserId, state.secondUserId}
      /\ state \in BattleStates(UserIds, SelectableHeroes)
      /\ GoesOn(state, R.rooms[id])
  BY DEF CanAttack, HasBattle, TablesTyped, BattlesTyped, IsTable, TablesAgree, BattlesMatch
<1>2. /\ DOMAIN N = DOMAIN B /\ N[id] = Hit(state, user)
      /\ \A i \in DOMAIN B \ {id} : N[i] = B[i]
  BY <1>1 DEF Attack
<1>3. ~Hit(state, user).finished
  BY <1>2
<1>4. GoesOn(Hit(state, user), R.rooms[id])
  <2> DEFINE byFirst == user = state.firstUserId
             damage  == heroDamage(IF byFirst THEN state.firstHero ELSE state.secondHero)
             left    == Subtract(IF byFirst THEN state.secondHealth ELSE state.firstHealth,
                                 damage)
             struck  == IF byFirst THEN [state EXCEPT !.secondHealth = left]
                                   ELSE [state EXCEPT !.firstHealth = left]
             next    == IF byFirst THEN state.secondUserId ELSE state.firstUserId
  <2>1. damage \in Nat /\ state.firstHealth \in Nat /\ state.secondHealth \in Nat
    BY <1>1 DEF heroDamage, BattleStates, SelectableHeroes, kFullHealth
  <2>2. left \in Nat
    <3> HIDE DEF damage
    <3> QED  BY <2>1 DEF Subtract
  <2>3. Hit(state, user) = IF left = 0 THEN Won(struck, user)
                                       ELSE [struck EXCEPT !.activeUserId = next]
    BY DEF Hit
  <2> HIDE DEF left
  <2>4. left # 0
    BY <1>1, <1>3, <2>3 DEF Won, BattleStates
  <2> QED
    BY <1>1, <2>2, <2>3, <2>4 DEF GoesOn, BattleStates
<1> HIDE DEF N
<1>5. BattlesMatch(R, N)
  BY <1>1, <1>2, <1>4 DEF TablesAgree, BattlesMatch, HasBattle
<1> QED
  BY <1>5 DEF TablesAgree, N

\* The two members of a room return to the lobby with the ELOs of their accounts;
\* the room is removed, and its battle if it had one.
LEMMA PartAgrees ==
  ASSUME NEW P, NEW T, NEW R, NEW B, NEW A, NEW t,
         TablesTyped(P, T, R, B, A, t), TablesAgree(P, T, R, B, A, t),
         NEW id \in DOMAIN R.rooms, NEW N, NEW L,
         DOMAIN N = DOMAIN P,
         \A user \in DOMAIN P \ Members(R.rooms[id]) :
           N[user] = P[user] /\ (user \in DOMAIN A.elo => L.elo[user] = A.elo[user]),
         \A user \in Members(R.rooms[id]) : N[user].roomId = NoRoom /\ N[user].elo = L.elo[user],
         DOMAIN L.elo = DOMAIN A.elo, L.nextUserId = A.nextUserId
  PROVE  TablesAgree(N, T, RemoveRoom(R, id), RemoveBattle(B, id), L, t)
<1> DEFINE C == RemoveRoom(R, id)
           D == RemoveBattle(B, id)
           members == Members(R.rooms[id])
<1>1. /\ C.nextRoomId = R.nextRoomId
      /\ DOMAIN C.rooms = DOMAIN R.rooms \ {id}
      /\ \A i \in DOMAIN C.rooms : C.rooms[i] = R.rooms[i]
  BY DEF RemoveRoom, Erase, Restrict, TablesTyped, IsRoomService
<1>2. /\ DOMAIN D = DOMAIN B \ {id}
      /\ \A i \in DOMAIN D : D[i] = B[i]
  BY DEF RemoveBattle, Erase, Restrict
<1>3. /\ id # NoRoom
      /\ \A i \in DOMAIN R.rooms : \A user \in Members(R.rooms[i]) :
           user \in DOMAIN P /\ P[user].roomId = i
  BY DEF TablesTyped, IsRoomService, IsTable, TablesAgree, RoomsMatch, NoRoom
<1> HIDE DEF C, D
<1>4. QueuedFree(N, T, t)
  <2>1. \A user \in DOMAIN T : user \in DOMAIN P \ members
    BY <1>3 DEF TablesAgree, QueuedFree
  <2> QED
    BY <2>1 DEF TablesAgree, QueuedFree
<1>5. RoomsMatch(N, C)
  <2>1. ASSUME NEW i \in DOMAIN C.rooms
        PROVE  \A user \in Members(C.rooms[i]) : user \in DOMAIN N /\ N[user].roomId = i
    BY <1>1, <1>3
  <2>2. ASSUME NEW user \in DOMAIN N, N[user].roomId # NoRoom
        PROVE  HasRoom(C, N[user].roomId) /\ user \in Members(C.rooms[N[user].roomId])
    <3>1. user \in DOMAIN P \ members /\ N[user] = P[user]
      BY <2>2
    <3>2. HasRoom(R, P[user].roomId) /\ user \in Members(R.rooms[P[user].roomId])
      BY <2>2, <3>1 DEF TablesAgree, RoomsMatch
    <3> QED  BY <1>1, <3>1, <3>2 DEF HasRoom
  <2> QED
    BY <1>1, <2>1, <2>2 DEF TablesAgree, RoomsMatch
<1>6. BattlesMatch(C, D)
  BY <1>1, <1>2 DEF TablesAgree, BattlesMatch, HasRoom, HasBattle, BothHeroesSelected
<1>7. EloAgrees(N, L)
  <2>1. ASSUME NEW user \in DOMAIN N
        PROVE  user \in DOMAIN L.elo /\ N[user].elo = L.elo[user]
    <3>1. user \in DOMAIN A.elo /\ P[user].elo = A.elo[user]
      BY DEF TablesAgree, EloAgrees
    <3> QED  BY <3>1
  <2> QED  BY <2>1 DEF EloAgrees
<1>8. NextIdIsNew(L)
  BY DEF TablesAgree, NextIdIsNew
<1> QED
  BY <1>4, <1>5, <1>6, <1>7, <1>8 DEF TablesAgree, C, D

\* A player who is in no room goes, with his ticket if he has one.
LEMMA DepartAgrees ==
  ASSUME NEW P, NEW T, NEW R, NEW B, NEW A, NEW t, TablesAgree(P, T, R, B, A, t),
         NEW user \in DOMAIN P, P[user].roomId = NoRoom, NoRoom \notin DOMAIN R.rooms
  PROVE  TablesAgree(Erase(P, user), Erase(T, user), R, B, A, t)
<1> DEFINE N == Erase(P, user)
           M == Erase(T, user)
<1>1. /\ DOMAIN N = DOMAIN P \ {user} /\ \A other \in DOMAIN N : N[other] = P[other]
      /\ DOMAIN M = DOMAIN T \ {user} /\ \A other \in DOMAIN M : M[other] = T[other]
  BY DEF Erase, Restrict
<1> HIDE DEF N, M
<1>2. QueuedFree(N, M, t)
  BY <1>1 DEF TablesAgree, QueuedFree
<1>3. RoomsMatch(N, R)
  <2>1. ASSUME NEW id \in DOMAIN R.rooms, NEW other \in Members(R.rooms[id])
        PROVE  other \in DOMAIN N /\ N[other].roomId = id
    <3>1. other \in DOMAIN P /\ P[other].roomId = id
      BY DEF TablesAgree, RoomsMatch
    <3> QED  BY <1>1, <3>1
  <2> QED
    BY <1>1, <2>1 DEF TablesAgree, RoomsMatch
<1>4. EloAgrees(N, A)
  BY <1>1 DEF TablesAgree, EloAgrees
<1> QED
  BY <1>2, <1>3, <1>4 DEF TablesAgree, N, M

-----------------------------------------------------------------------------
(* What a step of the server does to the tables, whichever handler makes it. *)

players == PlayersOf(sessions)
tickets == queue.ticketsByUserId

LogsIn(user) ==
  /\ user \in DOMAIN accountRepository.elo \ DOMAIN players
  /\ players' = Put(players, user, NewSession(user, accountRepository.elo[user]))
  /\ UNCHANGED <<tickets, roomService, battles, accountRepository, now>>

Registers ==
  /\ accountRepository.nextUserId # 0
  /\ accountRepository' = Register(accountRepository)
  /\ UNCHANGED <<players, tickets, roomService, battles, now>>

JoinsQueue(user) ==
  /\ user \in DOMAIN players \ DOMAIN tickets
  /\ players[user].roomId = NoRoom
  /\ tickets' = Put(tickets, user, Ticket(user, players[user].elo, now))
  /\ UNCHANGED <<players, roomService, battles, accountRepository, now>>

LeavesQueue(user) ==
  /\ user \in DOMAIN tickets
  /\ tickets' = Erase(tickets, user)
  /\ UNCHANGED <<players, roomService, battles, accountRepository, now>>

Meets(first, second) ==
  LET id == roomService.nextRoomId IN
  /\ first # second /\ first \in DOMAIN tickets /\ second \in DOMAIN tickets
  /\ tickets' = Erase(Erase(tickets, first), second)
  /\ players' = [[players EXCEPT ![first].roomId = id] EXCEPT ![second].roomId = id]
  /\ roomService' = CreateRoom(roomService, first, second)
  /\ UNCHANGED <<battles, accountRepository, now>>

Chooses(id, user, hero) ==
  /\ user \in DOMAIN players
  /\ CanSelectHero(roomService, id, user, hero)
  /\ roomService' = SelectHero(roomService, id, user, hero)
  /\ battles' = IF BothHeroesSelected(roomService', id)
                  THEN StartBattle(battles, id, roomService'.rooms[id]) ELSE battles
  /\ UNCHANGED <<players, tickets, accountRepository, now>>

Strikes(id, user) ==
  /\ CanAttack(battles, id, user) /\ ~Attack(battles, id, user)[id].finished
  /\ battles' = Attack(battles, id, user)
  /\ UNCHANGED <<players, tickets, roomService, accountRepository, now>>

\* The members return to the lobby with the ELOs of their accounts.
BackInLobby(P, members, A) ==
  [user \in DOMAIN P |->
     IF user \in members THEN [userId |-> user, elo |-> A.elo[user], roomId |-> NoRoom]
                         ELSE P[user]]

\* The room is removed, and `leavers`, of its members, go offline.
Parts(id, leavers) ==
  LET room == roomService.rooms[id] IN
  /\ id \in DOMAIN roomService.rooms /\ leavers \subseteq Members(room)
  /\ players' = Restrict(BackInLobby(players, Members(room), accountRepository'),
                         DOMAIN players \ leavers)
  /\ roomService' = RemoveRoom(roomService, id)
  /\ battles' = RemoveBattle(battles, id)
  /\ UNCHANGED <<tickets, now>>

ClosesRoom(id, leaver) ==
  Parts(id, {leaver}) /\ ~HasBattle(battles, id) /\ UNCHANGED accountRepository

\* The winner stays, the loser may leave, and the stake passes or does not.
EndsBattle(id, winner, loser, leavers) ==
  /\ HasBattle(battles, id)
  /\ Members(roomService.rooms[id]) = {winner, loser} /\ winner # loser
  /\ Parts(id, leavers) /\ winner \notin leavers
  /\ \/ UNCHANGED accountRepository
     \/ accountRepository' =
          UpdateEloPair(accountRepository, winner, EloUp(accountRepository.elo[winner]),
                        loser, EloDown(accountRepository.elo[loser]))

Departs(user) ==
  /\ user \in DOMAIN players /\ players[user].roomId = NoRoom
  /\ players' = Erase(players, user)
  /\ tickets' = Erase(tickets, user)
  /\ UNCHANGED <<roomService, battles, accountRepository, now>>

\* Nothing but time passes.
Waits ==
  /\ now' \in Nat /\ now <= now'
  /\ UNCHANGED <<players, tickets, roomService, battles, accountRepository>>

TablesStep ==
  \/ Waits \/ Registers
  \/ \E user \in UserIds : LogsIn(user) \/ JoinsQueue(user) \/ LeavesQueue(user) \/ Departs(user)
  \/ \E first, second \in UserIds : Meets(first, second)
  \/ \E id, user, hero : Chooses(id, user, hero) \/ Strikes(id, user)
  \/ \E id : \E leaver \in UserIds : ClosesRoom(id, leaver)
  \/ \E id, leavers : \E winner, loser \in UserIds : EndsBattle(id, winner, loser, leavers)

-----------------------------------------------------------------------------
(* The inductive invariant. *)

Agreement ==
  /\ QueuedPlayersAreFree /\ RoomsMatchSessions /\ BattlesMatchRooms
  /\ EloAgreesWithAccount /\ NextIdIsNew(accountRepository)

ServerInv == BaseInv /\ Agreement

\* The invariants are about the tables.
LEMMA TwoMembers ==
  ASSUME NEW a, NEW b
  PROVE  Cardinality({a, b}) = 2 <=> a # b
<1>1. CASE a = b
  <2>1. {a, b} = {a}
    BY <1>1
  <2>2. Cardinality({a}) = 1
    BY FS_Singleton
  <2> QED  BY <1>1, <2>1, <2>2
<1>2. CASE a # b
  <2>1. Cardinality({a} \cup {b}) = Cardinality({a}) + 1
    BY <1>2, FS_Singleton, FS_AddElement
  <2>2. {a, b} = {a} \cup {b} /\ Cardinality({a}) = 1
    BY FS_Singleton
  <2> QED  BY <1>2, <2>1, <2>2
<1> QED
  BY <1>1, <1>2

TablesAreTyped == TablesTyped(players, tickets, roomService, battles, accountRepository, now)
TablesDoAgree == TablesAgree(players, tickets, roomService, battles, accountRepository, now)

\* BaseInv says that the tables are typed.
LEMMA TypedTables == BaseInv => TablesAreTyped
<1> SUFFICES ASSUME BaseInv PROVE TablesAreTyped
  OBVIOUS
<1>1. SessionsOK(sessions)
  BY DEF BaseInv, TypeOK, SessionsInverse, SessionsOK, Elo
<1>2. /\ DOMAIN players \subseteq UserIds
      /\ \A user \in DOMAIN players : players[user] \in Sessions(UserIds, Elo)
                                      /\ players[user].userId = user
  BY <1>1, PlayersTyped DEF players
<1>3. players = [user \in DOMAIN players |-> players[user]]
  BY DEF players, PlayersOf
<1>4. IsTable(players, UserIds, Sessions(UserIds, Elo))
  BY <1>2, <1>3 DEF IsTable
<1> QED
  BY <1>2, <1>4 DEF BaseInv, TypeOK, TablesAreTyped, TablesTyped, tickets, IsMatchQueue, BattlesTyped, Elo

\* The four invariants, as the runs check them, are the agreement of the tables.
LEMMA AgreementOfTables == BaseInv => (Agreement <=> TablesDoAgree)
<1> SUFFICES ASSUME BaseInv PROVE Agreement <=> TablesDoAgree
  OBVIOUS
<1>1. SessionsOK(sessions)
  BY DEF BaseInv, TypeOK, SessionsInverse, SessionsOK, Elo
<1>2. /\ DOMAIN players = DOMAIN sessions.connectionByUserId
      /\ \A user : Online(user) <=> user \in DOMAIN players
      /\ \A user \in DOMAIN players : SessionOf(user) = players[user]
      /\ \A conn \in DOMAIN sessions.sessionsByConnection :
           /\ SessionOn(sessions, conn).userId \in DOMAIN players
           /\ SessionOn(sessions, conn) = players[SessionOn(sessions, conn).userId]
      /\ \A user \in DOMAIN players :
           /\ players[user].userId = user
           /\ \E conn \in DOMAIN sessions.sessionsByConnection :
                SessionOn(sessions, conn) = players[user]
  <2>1. \A user \in DOMAIN players :
          ConnectionOf(sessions, user) \in DOMAIN sessions.sessionsByConnection
    BY <1>1, PlayersTyped DEF players, HasSession
  <2> QED
    BY <1>1, <2>1, PlayersTyped DEF players, Online, SessionOf
<1>3. QueuedPlayersAreFree <=> QueuedFree(players, tickets, now)
  BY <1>2 DEF QueuedPlayersAreFree, QueuedFree, tickets
<1>4. RoomsMatchSessions <=> RoomsMatch(players, roomService)
  <2>1. \A id \in DOMAIN roomService.rooms :
          Cardinality(Members(roomService.rooms[id])) = 2
            <=> roomService.rooms[id].firstUserId # roomService.rooms[id].secondUserId
    BY TwoMembers DEF Members
  <2>2. (\A conn \in DOMAIN sessions.sessionsByConnection :
           LET session == SessionOn(sessions, conn) IN
           session.roomId # NoRoom =>
             /\ HasRoom(roomService, session.roomId)
             /\ session.userId \in Members(roomService.rooms[session.roomId]))
        <=> (\A user \in DOMAIN players : players[user].roomId # NoRoom =>
               /\ HasRoom(roomService, players[user].roomId)
               /\ user \in Members(roomService.rooms[players[user].roomId]))
    BY <1>2
  <2>3. \A id \in DOMAIN roomService.rooms : \A user \in Members(roomService.rooms[id]) :
          Online(user) /\ SessionOf(user).roomId = id
            <=> user \in DOMAIN players /\ players[user].roomId = id
    BY <1>2
  <2> QED
    BY <2>1, <2>2, <2>3 DEF RoomsMatchSessions, RoomsMatch
<1>5. BattlesMatchRooms <=> BattlesMatch(roomService, battles)
  BY DEF BattlesMatchRooms, BattlesMatch, GoesOn
<1>6. EloAgreesWithAccount <=> EloAgrees(players, accountRepository)
  BY <1>2 DEF EloAgreesWithAccount, EloAgrees, Registered
<1> QED
  BY <1>3, <1>4, <1>5, <1>6 DEF Agreement, TablesDoAgree, TablesAgree

-----------------------------------------------------------------------------
(* Every handler is one of those changes of the tables. *)

\* The sessions on the connections are the players, one for one.
LEMMA PlayersAreSessions ==
  ASSUME BaseInv
  PROVE  /\ SessionsOK(sessions)
         /\ \A user \in DOMAIN players :
              /\ user \in UserIds /\ players[user] \in Sessions(UserIds, Elo)
              /\ players[user].userId = user
              /\ HasSession(sessions, ConnectionOf(sessions, user))
              /\ SessionOn(sessions, ConnectionOf(sessions, user)) = players[user]
         /\ \A conn : HasSession(sessions, conn) =>
              /\ SessionOn(sessions, conn).userId \in DOMAIN players
              /\ SessionOn(sessions, conn) = players[SessionOn(sessions, conn).userId]
              /\ ConnectionOf(sessions, SessionOn(sessions, conn).userId) = conn
         /\ \A user : user \notin DOMAIN players => user \notin DOMAIN sessions.connectionByUserId
<1>1. SessionsOK(sessions)
  BY DEF BaseInv, TypeOK, SessionsInverse, SessionsOK, Elo
<1>2. \A conn : HasSession(sessions, conn) =>
        ConnectionOf(sessions, SessionOn(sessions, conn).userId) = conn
  BY <1>1 DEF SessionsOK, AreInverse, HasSession
<1> QED
  BY <1>1, <1>2, PlayersTyped DEF players, HasSession

\* A handler that writes none of the services lets time pass at most.
LEMMA QuietStep ==
  ASSUME BaseInv, UNCHANGED <<sessions, queue, roomService, battles, accountRepository>>,
         now' \in Nat, now <= now'
  PROVE  TablesStep
<1>1. UNCHANGED <<players, tickets>>
  BY DEF players, tickets
<1> QED
  BY <1>1 DEF TablesStep, Waits

\* handleLogin adds a player who was offline, or nothing.
LEMMA LoginStep ==
  ASSUME BaseInv, NEW conn \in Connections, NEW user, HandleLogin(conn, user)
  PROVE  TablesStep
<1> DEFINE session == NewSession(user, accountRepository.elo[user])
<1>0. now \in Nat
  BY DEF BaseInv, TypeOK
<1>1. CASE UNCHANGED sessions
  BY <1>0, <1>1, QuietStep DEF HandleLogin
<1>2. CASE user \in Registered(accountRepository) /\ CanBind(sessions, conn, user)
  <2>1. /\ user \in UserIds /\ user \in DOMAIN accountRepository.elo
        /\ session \in Sessions(UserIds, Elo) /\ session.userId = user
    BY <1>2 DEF BaseInv, TypeOK, IsLedger, IsTable, Registered, NewSession, Sessions,
                NoRoom, UserIds, Elo
  <2>2. sessions' = Bind(sessions, conn, session)
    BY <1>2 DEF HandleLogin
  <2> HIDE DEF session
  <2>3. PlayersOf(Bind(sessions, conn, session)) = Put(players, user, session)
    BY <1>2, <2>1, PlayersAreSessions, BindPlayers DEF players
  <2>4. players' = Put(players, user, session)
    BY <2>2, <2>3 DEF players
  <2>5. user \notin DOMAIN players
    BY <1>2 DEF CanBind, players, PlayersOf
  <2>6. UNCHANGED <<tickets, roomService, battles, accountRepository, now>>
    BY DEF HandleLogin, tickets
  <2> QED
    BY <2>1, <2>4, <2>5, <2>6 DEF TablesStep, LogsIn, session
<1> QED
  BY <1>1, <1>2 DEF HandleLogin

\* handleRegister adds an account under the next id, or nothing.
LEMMA RegisterStep ==
  ASSUME BaseInv, NEW conn, NEW newName, NEW saved, HandleRegister(conn, newName, saved)
  PROVE  TablesStep
<1>0. now \in Nat
  BY DEF BaseInv, TypeOK
<1>1. CASE UNCHANGED accountRepository
  BY <1>0, <1>1, QuietStep DEF HandleRegister
<1>2. CASE CanRegister(accountRepository, saved)
           /\ accountRepository' = Register(accountRepository)
  <2>1. UNCHANGED <<players, tickets>>
    BY DEF HandleRegister, players, tickets
  <2> QED
    BY <1>2, <2>1 DEF TablesStep, Registers, HandleRegister, CanRegister
<1> QED
  BY <1>1, <1>2 DEF HandleRegister

\* handleMatchJoin takes a player in from the lobby, with his present ELO.
LEMMA JoinStep ==
  ASSUME BaseInv, NEW conn, NEW wellFormed, HandleMatchJoin(conn, wellFormed)
  PROVE  TablesStep
<1> DEFINE session == SessionOn(sessions, conn)
           user    == session.userId
<1>0. now \in Nat
  BY DEF BaseInv, TypeOK
<1>1. CASE UNCHANGED queue
  BY <1>0, <1>1, QuietStep DEF HandleMatchJoin
<1>2. CASE /\ IsFree(conn) /\ ~IsQueued(queue, user)
           /\ queue' = Join(queue, Ticket(user, session.elo, now))
  <2>1. /\ user \in DOMAIN players /\ user \in UserIds
        /\ session = players[user] /\ players[user].roomId = NoRoom
    BY <1>2, PlayersAreSessions DEF IsFree
  <2>2. tickets' = Put(tickets, user, Ticket(user, session.elo, now))
    BY <1>2 DEF tickets, Join, Ticket
  <2>3. UNCHANGED <<players, roomService, battles, accountRepository, now>>
    BY DEF HandleMatchJoin, players
  <2>4. user \notin DOMAIN tickets
    BY <1>2 DEF IsQueued, tickets
  <2> HIDE DEF session, user
  <2>5. JoinsQueue(user)
    BY <2>1, <2>2, <2>3, <2>4 DEF JoinsQueue
  <2> QED
    BY <2>1, <2>5 DEF TablesStep
<1> QED
  BY <1>1, <1>2 DEF HandleMatchJoin

\* handleMatchCancel removes the ticket of the player who asks.
LEMMA CancelStep ==
  ASSUME BaseInv, NEW conn, NEW wellFormed, HandleMatchCancel(conn, wellFormed)
  PROVE  TablesStep
<1> DEFINE user == SessionOn(sessions, conn).userId
<1>0. now \in Nat
  BY DEF BaseInv, TypeOK
<1>1. CASE UNCHANGED queue
  BY <1>0, <1>1, QuietStep DEF HandleMatchCancel
<1>2. CASE IsFree(conn) /\ IsQueued(queue, user) /\ queue' = RemoveTicket(queue, user)
  <2>1. user \in UserIds /\ user \in DOMAIN tickets
    BY <1>2, PlayersAreSessions DEF IsFree, IsQueued, tickets
  <2>2. tickets' = Erase(tickets, user)
    BY <1>2 DEF tickets, RemoveTicket
  <2>3. UNCHANGED <<players, roomService, battles, accountRepository, now>>
    BY DEF HandleMatchCancel, players
  <2> HIDE DEF user
  <2> QED
    BY <2>1, <2>2, <2>3 DEF TablesStep, LeavesQueue
<1> QED
  BY <1>1, <1>2 DEF HandleMatchCancel

\* The best second of a player is somebody else: his key is not a neighbour of itself.
LEMMA SecondIsAnother ==
  ASSUME ContainersAgree(queue), NEW first \in DOMAIN tickets,
         NEW second \in BestSecond(queue, tickets[first], now)
  PROVE  second \in DOMAIN tickets /\ first # second
<1>1. second \in DOMAIN tickets
      /\ \E key \in Neighbours(queue, EloKey(tickets[first])) : key[2] = second
  BY DEF BestSecond, Candidates, tickets
<1>2. PICK key \in queue.ticketsByElo \ {EloKey(tickets[first])} : key[2] = second
  BY <1>1 DEF Neighbours
<1>3. PICK user \in DOMAIN tickets : key = EloKey(tickets[user])
  BY <1>2 DEF ContainersAgree, tickets
<1>4. tickets[user].userId = user
  BY DEF ContainersAgree, tickets
<1>5. second = user
  BY <1>2, <1>3, <1>4 DEF EloKey
<1> QED
  BY <1>1, <1>2, <1>3, <1>5

\* A tick pairs whoever it takes out of the queue: queued players are online, in no
\* room, and two.
LEMMA TickMeets ==
  ASSUME BaseInv, Agreement, TickMatch
  PROVE  \E first, second \in UserIds :
           /\ Meets(first, second)
           /\ (sessions').connectionByUserId = sessions.connectionByUserId
           /\ events' = Append(events, [roomId |-> roomService.nextRoomId,
                                       first |-> first, second |-> second])
<1>0. PICK first \in DOMAIN tickets : \E second \in BestSecond(queue, tickets[first], now) :
        Pair(first, second)
  BY DEF TickMatch, FirstMatchable, Matchable, tickets
<1>1. PICK second \in BestSecond(queue, tickets[first], now) : Pair(first, second)
  BY <1>0
<1>2. second \in DOMAIN tickets /\ first # second
  BY SecondIsAnother DEF BaseInv
<1>3. \A user \in {first, second} :
        /\ user \in DOMAIN players /\ players[user].roomId = NoRoom
        /\ user \in UserIds
  BY <1>2, AgreementOfTables, PlayersAreSessions DEF TablesDoAgree, TablesAgree, QueuedFree
<1>4. MayShareRoom(sessions, first, second)
  <2>1. first # 0 /\ second # 0
    BY <1>3 DEF UserIds
  <2> QED
    BY <1>2, <1>3, <2>1, PlayersAreSessions DEF MayShareRoom, CanCreate
<1> DEFINE id == roomService.nextRoomId
           S  == SetRoom(sessions, first, id)
<1>5. /\ queue' = RemovePair(queue, first, second)
      /\ roomService' = CreateRoom(roomService, first, second)
      /\ sessions' = SetRoom(S, second, id)
      /\ events' = Append(events, [roomId |-> id, first |-> first, second |-> second])
  BY <1>1, <1>4 DEF Pair, MarkInRoom
<1>6. id \in Nat
  BY DEF BaseInv, TypeOK, IsRoomService
<1>7. tickets' = Erase(Erase(tickets, first), second)
  <2> DEFINE Q == RemoveTicket(queue, first)
  <2>1. Q.ticketsByUserId = Erase(tickets, first)
    BY DEF RemoveTicket, IsQueued, tickets
  <2>2. second \in DOMAIN Q.ticketsByUserId
    BY <1>2, <2>1 DEF Erase, Restrict
  <2>3. queue' = RemoveTicket(Q, second)
    BY <1>5 DEF RemovePair
  <2> HIDE DEF Q
  <2> QED
    BY <2>1, <2>2, <2>3 DEF RemoveTicket, IsQueued, tickets
<1>8. players' = [[players EXCEPT ![first].roomId = id] EXCEPT ![second].roomId = id]
  <2>1. SessionsOK(S) /\ PlayersOf(S) = [players EXCEPT ![first].roomId = id]
    BY <1>6, PlayersAreSessions, SetRoomInverse, SetRoomPlayers DEF players
  <2> HIDE DEF S, id
  <2>2. PlayersOf(SetRoom(S, second, id)) = [PlayersOf(S) EXCEPT ![second].roomId = id]
    BY <1>6, <2>1, SetRoomPlayers
  <2>3. players' = PlayersOf(SetRoom(S, second, id))
    BY <1>5 DEF players, S
  <2> QED
    BY <2>1, <2>2, <2>3
<1>9. UNCHANGED <<battles, accountRepository, now>>
  BY DEF TickMatch
<1>10. (sessions').connectionByUserId = sessions.connectionByUserId
  <2>1. SessionsOK(S) /\ S.connectionByUserId = sessions.connectionByUserId
    BY <1>6, PlayersAreSessions, SetRoomInverse
  <2> HIDE DEF S, id
  <2> QED  BY <1>5, <1>6, <2>1, SetRoomInverse DEF S
<1> HIDE DEF S
<1>11. Meets(first, second)
  BY <1>2, <1>5, <1>7, <1>8, <1>9 DEF Meets
<1> QED
  BY <1>3, <1>5, <1>10, <1>11

LEMMA MatchStep ==
  ASSUME BaseInv, Agreement, TickMatch
  PROVE  TablesStep
BY TickMeets DEF TablesStep

\* A choice that is accepted is a member's, and the second one always starts a battle.
LEMMA HeroSelectStep ==
  ASSUME BaseInv, Agreement, NEW conn, NEW hero, HandleHeroSelect(conn, hero)
  PROVE  TablesStep
<1> DEFINE user   == SessionOn(sessions, conn).userId
           id     == SessionOn(sessions, conn).roomId
           chosen == SelectHero(roomService, id, user, hero)
<1>0. now \in Nat /\ now' = now
  BY DEF BaseInv, TypeOK, HandleHeroSelect
<1>1. CASE UNCHANGED <<roomService, battles>>
  BY <1>0, <1>1, QuietStep DEF HandleHeroSelect
<1>2. CASE ~UNCHANGED <<roomService, battles>>
  <2>1. /\ HasSession(sessions, conn)
        /\ CanSelectHero(roomService, id, user, hero)
        /\ roomService' = chosen
        /\ battles' = IF BothHeroesSelected(chosen, id) /\ CanStart(battles, id, chosen.rooms[id])
                        THEN StartBattle(battles, id, chosen.rooms[id]) ELSE battles
    BY <1>2 DEF HandleHeroSelect
  <2>2. user \in DOMAIN players
    BY <2>1, PlayersAreSessions
  <2>3. TablesAreTyped /\ TablesDoAgree
    BY TypedTables, AgreementOfTables
  <2> HIDE DEF user, id, chosen
  <2>4. BothHeroesSelected(chosen, id) => CanStart(battles, id, chosen.rooms[id])
    BY <2>1, <2>3, SelectHeroAgrees DEF TablesAreTyped, TablesDoAgree, chosen
  <2>5. UNCHANGED <<players, tickets, accountRepository, now>>
    BY DEF HandleHeroSelect, players, tickets
  <2>6. Chooses(id, user, hero)
    BY <2>1, <2>2, <2>4, <2>5 DEF Chooses, chosen
  <2> QED
    BY <2>6 DEF TablesStep
<1> QED
  BY <1>1, <1>2

-----------------------------------------------------------------------------
(* The end of a room. *)

\* finishBattle, when the battle is that of two players: it settles the stake for
\* both or for neither, and both return to the lobby with the ELOs of their accounts.
LEMMA FinishPlayers ==
  ASSUME BaseInv, Agreement, NEW state, NEW saved \in BOOLEAN,
         state.firstUserId \in DOMAIN players, state.secondUserId \in DOMAIN players,
         state.firstUserId # state.secondUserId,
         state.winnerUserId \in {state.firstUserId, state.secondUserId}
  PROVE  LET first   == state.firstUserId
             second  == state.secondUserId
             winner  == state.winnerUserId
             loser   == IF winner = first THEN second ELSE first
             settled == IF Settles(state, saved) THEN SettledAccounts(state)
                                                 ELSE accountRepository
         IN  /\ PlayersOf(FinishedSessions(state, saved))
                  = BackInLobby(players, {first, second}, settled)
             /\ \/ settled = accountRepository
                \/ settled = UpdateEloPair(accountRepository,
                               winner, EloUp(accountRepository.elo[winner]),
                               loser, EloDown(accountRepository.elo[loser]))
<1> DEFINE first   == state.firstUserId
           second  == state.secondUserId
           winner  == state.winnerUserId
           loser   == IF winner = first THEN second ELSE first
           A       == accountRepository
           settled == IF Settles(state, saved) THEN SettledAccounts(state) ELSE A
           S       == IF Settles(state, saved) THEN SettledSessions(state) ELSE sessions
           one     == NewFirstElo(state, A.elo[first])
           two     == NewSecondElo(state, A.elo[second])
<1>1. /\ SessionsOK(sessions)
      /\ \A user \in {first, second} :
           /\ HasSession(sessions, ConnectionOf(sessions, user))
           /\ SessionOn(sessions, ConnectionOf(sessions, user)) = players[user]
           /\ players[user] \in Sessions(UserIds, Elo)
           /\ players[user].userId = user
  BY PlayersAreSessions
<1>2. \A user \in DOMAIN players : user \in DOMAIN A.elo /\ players[user].elo = A.elo[user]
  BY AgreementOfTables DEF TablesDoAgree, TablesAgree, EloAgrees
<1>3. DOMAIN A = {"elo", "nextUserId"} /\ A.elo \in [DOMAIN A.elo -> Elo]
  BY DEF BaseInv, TypeOK, IsLedger, IsTable, Elo
<1>4. A.elo[first] \in Elo /\ A.elo[second] \in Elo
  BY <1>2, <1>3
<1>5. one \in Elo /\ two \in Elo
  BY <1>4, EloBounds
<1>6. SettledAccounts(state) = UpdateEloPair(A, first, one, second, two)
  BY <1>1, <1>2 DEF SettledAccounts
<1>7. UpdateEloPair(A, first, one, second, two)
        = UpdateEloPair(A, winner, EloUp(A.elo[winner]), loser, EloDown(A.elo[loser]))
  BY DEF UpdateEloPair, NewFirstElo, NewSecondElo
<1>8. SettledSessions(state) = SetElo(SetElo(sessions, first, one), second, two)
  BY <1>1, <1>2 DEF SettledSessions
<1>9. /\ SessionsOK(S)
      /\ DOMAIN PlayersOf(S) = DOMAIN players
      /\ \A user \in DOMAIN players \ {first, second} : PlayersOf(S)[user] = players[user]
      /\ \A user \in {first, second} :
           /\ PlayersOf(S)[user] \in Sessions(UserIds, Elo)
           /\ PlayersOf(S)[user].userId = user
           /\ PlayersOf(S)[user].elo = settled.elo[user]
  <2>1. CASE ~Settles(state, saved)
    BY <1>1, <1>2, <2>1 DEF players
  <2>2. CASE Settles(state, saved)
    <3> DEFINE T == SetElo(sessions, first, one)
    <3>1. SessionsOK(T) /\ PlayersOf(T) = [players EXCEPT ![first].elo = one]
      BY <1>1, <1>5, SetEloInverse, SetEloPlayers DEF players
    <3>2. T.connectionByUserId = sessions.connectionByUserId
      BY <1>1, <1>5, SetEloInverse
    <3>3. SessionsOK(S)
      BY <1>1, <2>2, SettledSessionsOK
    <3>4. S = SetElo(T, second, two)
      BY <1>8, <2>2
    <3> HIDE DEF T, S, one, two, first, second, settled
    <3>5. SessionsOK(T) /\ second \in DOMAIN PlayersOf(T)
      BY <3>1 DEF second
    <3>6. PlayersOf(SetElo(T, second, two)) = [PlayersOf(T) EXCEPT ![second].elo = two]
      BY <3>5, SetEloPlayers
    <3>7. PlayersOf(S) = [[players EXCEPT ![first].elo = one] EXCEPT ![second].elo = two]
      BY <3>1, <3>4, <3>6
    <3>8. settled.elo[first] = one /\ settled.elo[second] = two
      BY <1>2, <1>3, <1>6, <2>2 DEF UpdateEloPair, settled, first, second
    <3>9. /\ DOMAIN PlayersOf(S) = DOMAIN players
          /\ \A user \in DOMAIN players \ {first, second} : PlayersOf(S)[user] = players[user]
          /\ PlayersOf(S)[first] = [players[first] EXCEPT !.elo = one]
          /\ PlayersOf(S)[second] = [players[second] EXCEPT !.elo = two]
      BY <3>7 DEF first, second
    <3>10. one \in Elo /\ two \in Elo
      BY <1>5 DEF one, two
    <3>11. /\ PlayersOf(S)[first] \in Sessions(UserIds, Elo)
           /\ PlayersOf(S)[first].userId = first /\ PlayersOf(S)[first].elo = one
      BY <1>1, <3>9, <3>10 DEF Sessions
    <3>12. /\ PlayersOf(S)[second] \in Sessions(UserIds, Elo)
           /\ PlayersOf(S)[second].userId = second /\ PlayersOf(S)[second].elo = two
      BY <1>1, <3>9, <3>10 DEF Sessions
    <3> QED
      BY <3>3, <3>8, <3>9, <3>11, <3>12
  <2> QED
    BY <2>1, <2>2
<1> HIDE DEF S, settled, one, two, first, second
<1>10. PlayersOf(FinishedSessions(state, saved))
         = [[PlayersOf(S) EXCEPT ![first].roomId = NoRoom] EXCEPT ![second].roomId = NoRoom]
  <2> DEFINE T == SetRoom(S, first, NoRoom)
  <2>0. NoRoom \in Nat
    BY DEF NoRoom
  <2>1. SessionsOK(T) /\ PlayersOf(T) = [PlayersOf(S) EXCEPT ![first].roomId = NoRoom]
    BY <1>9, <2>0, SetRoomInverse, SetRoomPlayers
  <2> HIDE DEF T
  <2>2. PlayersOf(SetRoom(T, second, NoRoom)) = [PlayersOf(T) EXCEPT ![second].roomId = NoRoom]
    BY <2>0, <2>1, SetRoomPlayers
  <2>3. FinishedSessions(state, saved) = SetRoom(T, second, NoRoom)
    BY DEF FinishedSessions, ClearRoom, S, T, first, second
  <2> QED
    BY <2>1, <2>2, <2>3
<1>11. PlayersOf(FinishedSessions(state, saved)) = BackInLobby(players, {first, second}, settled)
  <2>1. \A user \in {first, second} :
          [PlayersOf(S)[user] EXCEPT !.roomId = NoRoom]
            = [userId |-> user, elo |-> settled.elo[user], roomId |-> NoRoom]
    BY <1>9 DEF Sessions
  <2> DEFINE N == PlayersOf(FinishedSessions(state, saved))
  <2>2. /\ DOMAIN N = DOMAIN players
        /\ \A user \in DOMAIN players \ {first, second} : N[user] = players[user]
        /\ \A user \in {first, second} : N[user] = [PlayersOf(S)[user] EXCEPT !.roomId = NoRoom]
    BY <1>9, <1>10 DEF first, second
  <2>3. N = [user \in DOMAIN N |-> N[user]]
    BY DEF PlayersOf
  <2> HIDE DEF N
  <2>4. N = BackInLobby(players, {first, second}, settled)
    BY <2>1, <2>2, <2>3 DEF BackInLobby
  <2> QED
    BY <2>4 DEF N
<1> QED
  BY <1>6, <1>7, <1>11 DEF settled, one, two, first, second

\* A battle that is over ends, and its room with it.
LEMMA FinishStep ==
  ASSUME BaseInv, Agreement, NEW id \in DOMAIN battles, NEW state, NEW saved \in BOOLEAN,
         state.firstUserId = battles[id].firstUserId,
         state.secondUserId = battles[id].secondUserId,
         NEW winner \in {state.firstUserId, state.secondUserId}, state.winnerUserId = winner,
         NEW leavers \in SUBSET ({state.firstUserId, state.secondUserId} \ {winner}),
         NEW open, NEW out, FinishBattle(id, state, saved, open, out),
         players' = Restrict(PlayersOf(FinishedSessions(state, saved)), DOMAIN players \ leavers),
         UNCHANGED <<tickets, now>>
  PROVE  TablesStep
<1> DEFINE room == roomService.rooms[id]
           loser == IF winner = state.firstUserId THEN state.secondUserId ELSE state.firstUserId
           settled == IF Settles(state, saved) THEN SettledAccounts(state)
                                               ELSE accountRepository
<1>1. /\ id \in DOMAIN roomService.rooms
      /\ state.firstUserId = room.firstUserId /\ state.secondUserId = room.secondUserId
      /\ room.firstUserId # room.secondUserId
      /\ room.firstUserId \in DOMAIN players /\ room.secondUserId \in DOMAIN players
  BY AgreementOfTables
     DEF TablesDoAgree, TablesAgree, BattlesMatch, GoesOn, RoomsMatch, HasRoom, Members
<1>2. /\ accountRepository' = settled
      /\ roomService' = RemoveRoom(roomService, id) /\ battles' = RemoveBattle(battles, id)
  BY DEF FinishBattle
<1>3. /\ PlayersOf(FinishedSessions(state, saved))
           = BackInLobby(players, {state.firstUserId, state.secondUserId}, settled)
      /\ \/ settled = accountRepository
         \/ settled = UpdateEloPair(accountRepository,
                        winner, EloUp(accountRepository.elo[winner]),
                        loser, EloDown(accountRepository.elo[loser]))
  BY <1>1, FinishPlayers
<1>4. Members(room) = {state.firstUserId, state.secondUserId} /\ Members(room) = {winner, loser}
  BY <1>1 DEF Members
<1>5. winner # loser /\ winner \in UserIds /\ loser \in UserIds
  BY <1>1, PlayersAreSessions
<1> HIDE DEF settled, room, loser
<1>6. Parts(id, leavers)
  BY <1>1, <1>2, <1>3, <1>4 DEF Parts, room
<1>7. EndsBattle(id, winner, loser, leavers)
  BY <1>2, <1>3, <1>4, <1>5, <1>6 DEF EndsBattle, HasBattle, room
<1> QED
  BY <1>5, <1>7 DEF TablesStep

\* handleBattleAttack is a blow, or the last one, which ends the battle for the attacker.
LEMMA AttackStep ==
  ASSUME BaseInv, Agreement, NEW conn, NEW saved \in BOOLEAN, HandleBattleAttack(conn, saved)
  PROVE  TablesStep
<1> DEFINE user  == SessionOn(sessions, conn).userId
           id    == SessionOn(sessions, conn).roomId
           state == Attack(battles, id, user)[id]
           open  == connections \ shutdown
           out   == SendBattleState(Silence, open, sessions, id, state)
<1>1. CanAttack(battles, id, user) /\ id \in DOMAIN battles
  BY DEF HandleBattleAttack, CanAttack, HasBattle
<1>2. UNCHANGED <<tickets, now>>
  BY DEF HandleBattleAttack, tickets
<1>3. CASE ~state.finished
  <2>1. battles' = Attack(battles, id, user)
        /\ UNCHANGED <<players, roomService, accountRepository>>
    BY <1>3 DEF HandleBattleAttack, players
  <2> HIDE DEF id, user
  <2>2. Strikes(id, user)
    BY <1>1, <1>2, <1>3, <2>1 DEF Strikes
  <2> QED
    BY <2>2 DEF TablesStep
<1>4. CASE state.finished
  <2>1. FinishBattle(id, state, saved, open, out) /\ sessions' = FinishedSessions(state, saved)
    BY <1>4 DEF HandleBattleAttack
  <2>2. /\ user \in {state.firstUserId, state.secondUserId} /\ state.winnerUserId = user
        /\ state.firstUserId = battles[id].firstUserId
        /\ state.secondUserId = battles[id].secondUserId
    <3>1. /\ battles[id] \in BattleStates(UserIds, SelectableHeroes)
          /\ ~battles[id].finished
          /\ user \in {battles[id].firstUserId, battles[id].secondUserId}
      BY <1>1 DEF BaseInv, TypeOK, IsTable, CanAttack
    <3>2. state = Hit(battles[id], user)
      BY <1>1 DEF Attack
    <3> HIDE DEF state, user, id
    <3> QED
      BY <1>4, <3>1, <3>2 DEF Hit, Won, BattleStates
  <2>3. players' = Restrict(PlayersOf(FinishedSessions(state, saved)), DOMAIN players \ {})
    <3>1. DOMAIN PlayersOf(FinishedSessions(state, saved)) = DOMAIN players
      BY PlayersAreSessions, FinishedSessionsOK DEF players, PlayersOf
    <3> HIDE DEF state
    <3> QED
      BY <2>1, <3>1 DEF Restrict, players, PlayersOf
  <2> HIDE DEF state, id, user, open, out
  <2> QED
    BY <1>1, <1>2, <2>1, <2>2, <2>3, FinishStep
<1> QED
  BY <1>3, <1>4

\* Without a ticket removeTicket() does nothing; with one it takes it away.
LEMMA TicketErased ==
  ASSUME BaseInv, NEW user, queue' = RemoveTicket(queue, user)
  PROVE  /\ tickets' = Erase(tickets, user)
         /\ user \notin DOMAIN tickets => UNCHANGED tickets
<1>1. tickets = [u \in DOMAIN tickets |-> tickets[u]]
  BY DEF BaseInv, TypeOK, IsMatchQueue, IsTable, tickets
<1>2. CASE ~IsQueued(queue, user)
  BY <1>1, <1>2 DEF RemoveTicket, IsQueued, Erase, Restrict, tickets
<1>3. CASE IsQueued(queue, user)
  BY <1>3 DEF RemoveTicket, IsQueued, tickets
<1> QED
  BY <1>2, <1>3

\* A player in a room who goes leaves his opponent in the lobby, winner of the battle if
\* there is one.
LEMMA LeaveRoomStep ==
  ASSUME BaseInv, Agreement, NEW conn, NEW saved \in BOOLEAN, NEW open,
         HasSession(sessions, conn), SessionOn(sessions, conn).roomId # NoRoom,
         LeaveRoom(conn, SessionOn(sessions, conn), saved, open),
         UNCHANGED <<tickets, now>>
  PROVE  TablesStep
<1> DEFINE session == SessionOn(sessions, conn)
           user == session.userId
           id   == session.roomId
           room == roomService.rooms[id]
<1>1. /\ user \in DOMAIN players /\ players[user] = session /\ user \in UserIds
      /\ ConnectionOf(sessions, user) = conn
      /\ session \in Sessions(UserIds, Elo) /\ SessionsOK(sessions)
  BY PlayersAreSessions
<1>2. /\ id \in DOMAIN roomService.rooms /\ user \in Members(room)
      /\ \A other \in Members(room) : other \in DOMAIN players /\ players[other].roomId = id
      /\ room.firstUserId # room.secondUserId
  BY <1>1, AgreementOfTables DEF TablesDoAgree, TablesAgree, RoomsMatch, HasRoom
<1>3. CASE HasBattle(battles, id)
  <2> DEFINE state == Forfeit(battles, id, user)[id]
             F == FinishedSessions(state, saved)
  <2>1. /\ id \in DOMAIN battles /\ ~battles[id].finished
        /\ battles[id].firstUserId = room.firstUserId
        /\ battles[id].secondUserId = room.secondUserId
        /\ battles[id] \in BattleStates(UserIds, SelectableHeroes)
    BY <1>3, AgreementOfTables
       DEF TablesDoAgree, TablesAgree, BattlesMatch, GoesOn, HasBattle, BaseInv, TypeOK, IsTable
  <2>2. CanForfeit(battles, id, user)
    BY <1>2, <1>3, <2>1 DEF CanForfeit, Members
  <2>3. FinishBattle(id, state, saved, open, Silence) /\ sessions' = RemoveSession(F, conn)
    BY <1>3, <2>2 DEF LeaveRoom
  <2>4. /\ state.firstUserId = battles[id].firstUserId
        /\ state.secondUserId = battles[id].secondUserId
        /\ state.winnerUserId
             = IF user = room.firstUserId THEN room.secondUserId ELSE room.firstUserId
    <3>1. state = Won(battles[id], IF user = battles[id].firstUserId
                                     THEN battles[id].secondUserId ELSE battles[id].firstUserId)
      BY <2>1 DEF Forfeit
    <3> HIDE DEF state, id, user
    <3> QED  BY <2>1, <3>1 DEF Won, BattleStates
  <2>5. /\ state.winnerUserId \in {state.firstUserId, state.secondUserId}
        /\ {user} \in SUBSET ({state.firstUserId, state.secondUserId} \ {state.winnerUserId})
    BY <1>2, <2>1, <2>4 DEF Members
  <2>6. players' = Restrict(PlayersOf(F), DOMAIN players \ {user})
    <3>1. /\ SessionsOK(F) /\ F.connectionByUserId = sessions.connectionByUserId
          /\ DOMAIN F.sessionsByConnection = DOMAIN sessions.sessionsByConnection
      BY <1>1, FinishedSessionsOK
    <3> HIDE DEF F
    <3>2. /\ HasSession(F, conn) /\ ConnectionOf(F, user) = conn
          /\ user \in DOMAIN F.connectionByUserId
      BY <1>1, <3>1 DEF HasSession, ConnectionOf, players, PlayersOf
    <3>3. SessionOn(F, conn).userId = user
      BY <3>1, <3>2 DEF SessionsOK, AreInverse
    <3>4. PlayersOf(RemoveSession(F, conn)) = Erase(PlayersOf(F), user)
      BY <3>1, <3>2, <3>3, RemovePlayers
    <3>5. DOMAIN PlayersOf(F) = DOMAIN players
      BY <3>1 DEF players, PlayersOf
    <3>6. players' = PlayersOf(RemoveSession(F, conn))
      BY <2>3 DEF players
    <3> QED
      BY <3>4, <3>5, <3>6 DEF Erase
  <2> HIDE DEF state, F, id, user, session, room
  <2> QED
    BY <2>1, <2>3, <2>4, <2>5, <2>6, FinishStep DEF F
<1>4. CASE ~HasBattle(battles, id)
  <2> DEFINE opponent == IF room.firstUserId = user THEN room.secondUserId ELSE room.firstUserId
             C == ClearRoom(sessions, opponent)
             N == [players EXCEPT ![opponent].roomId = NoRoom]
  <2>1. CloseRoom(conn, session, open)
    BY <1>2, <1>4 DEF LeaveRoom, HasRoom
  <2>2. /\ sessions' = RemoveSession(C, conn)
        /\ roomService' = RemoveRoom(roomService, id)
        /\ UNCHANGED <<battles, accountRepository>>
    BY <2>1 DEF CloseRoom
  <2>3. Members(room) = {user, opponent} /\ user # opponent
    BY <1>2 DEF Members
  <2> HIDE DEF opponent, room
  <2>4. /\ SessionsOK(C) /\ C.connectionByUserId = sessions.connectionByUserId
        /\ DOMAIN C.sessionsByConnection = DOMAIN sessions.sessionsByConnection
        /\ PlayersOf(C) = N
    BY <1>1, SetRoomInverse, SetRoomPlayers DEF ClearRoom, players, NoRoom
  <2> HIDE DEF C
  <2>5. PlayersOf(RemoveSession(C, conn)) = Erase(N, user)
    <3>1. /\ HasSession(C, conn) /\ ConnectionOf(C, user) = conn
          /\ user \in DOMAIN C.connectionByUserId
      BY <1>1, <2>4 DEF HasSession, ConnectionOf, players, PlayersOf
    <3>2. SessionOn(C, conn).userId = user
      BY <2>4, <3>1 DEF SessionsOK, AreInverse
    <3> QED
      BY <2>4, <3>1, <3>2, RemovePlayers
  <2>6. players' = Erase(N, user)
    BY <2>2, <2>5 DEF players
  <2>7. Erase(N, user) = Restrict(BackInLobby(players, {user, opponent}, accountRepository),
                                  DOMAIN players \ {user})
    <3>1. /\ opponent \in DOMAIN players
          /\ players[opponent] \in Sessions(UserIds, Elo) /\ players[opponent].userId = opponent
          /\ players[opponent].elo = accountRepository.elo[opponent]
      BY <1>2, <2>3, PlayersAreSessions, AgreementOfTables
         DEF TablesDoAgree, TablesAgree, EloAgrees
    <3>2. N[opponent] = [userId |-> opponent, elo |-> accountRepository.elo[opponent],
                         roomId |-> NoRoom]
      BY <3>1 DEF Sessions
    <3>3. DOMAIN N = DOMAIN players /\ \A other \in DOMAIN players \ {opponent} : N[other] = players[other]
      OBVIOUS
    <3> HIDE DEF N, user
    <3> QED
      BY <2>3, <3>2, <3>3 DEF BackInLobby, Erase, Restrict
  <2>8. RemoveBattle(battles, id) = battles
    BY <1>4 DEF RemoveBattle, HasBattle, Erase, Restrict, BaseInv, TypeOK, IsTable
  <2> HIDE DEF N, user, id, session
  <2>9. ClosesRoom(id, user)
    BY <1>2, <1>4, <2>2, <2>3, <2>6, <2>7, <2>8 DEF ClosesRoom, Parts, room
  <2> QED
    BY <1>1, <2>9 DEF TablesStep
<1> QED
  BY <1>3, <1>4

\* The end of a connection takes its player out of the queue or out of his room.
LEMMA DisconnectStep ==
  ASSUME BaseInv, Agreement, NEW conn, NEW saved \in BOOLEAN, Disconnect(conn, saved)
  PROVE  TablesStep
<1> DEFINE session == SessionOn(sessions, conn)
           user == session.userId
           open == (connections \ shutdown) \ {conn}
<1>0. now \in Nat /\ now' = now
  BY DEF BaseInv, TypeOK, Disconnect
<1>1. CASE ~HasSession(sessions, conn)
  <2>1. UNCHANGED <<sessions, queue, roomService, battles, accountRepository>>
    BY <1>1 DEF Disconnect, LeaveQuietly, RemoveSession
  <2> QED  BY <1>0, <2>1, QuietStep
<1>2. CASE HasSession(sessions, conn)
  <2>1. /\ user \in DOMAIN players /\ players[user] = session /\ user \in UserIds
        /\ SessionsOK(sessions)
    BY <1>2, PlayersAreSessions
  <2>2. /\ tickets' = Erase(tickets, user)
        /\ user \notin DOMAIN tickets => UNCHANGED tickets
    BY <1>2, TicketErased DEF Disconnect
  <2>3. CASE session.roomId = NoRoom
    <3>1. LeaveQuietly(conn)
      BY <2>3 DEF Disconnect
    <3>2. players' = Erase(players, user)
      BY <1>2, <2>1, <3>1, RemovePlayers DEF LeaveQuietly, players
    <3> HIDE DEF user, session
    <3>3. Departs(user)
      BY <1>0, <2>1, <2>2, <2>3, <3>1, <3>2 DEF Departs, LeaveQuietly
    <3> QED
      BY <2>1, <3>3 DEF TablesStep
  <2>4. CASE session.roomId # NoRoom
    <3>1. user \notin DOMAIN tickets
      BY <2>1, <2>4, AgreementOfTables DEF TablesDoAgree, TablesAgree, QueuedFree
    <3>2. LeaveRoom(conn, session, saved, open)
      BY <1>2, <2>4 DEF Disconnect
    <3> QED
      BY <1>0, <1>2, <2>2, <2>4, <3>1, <3>2, LeaveRoomStep
  <2> QED  BY <2>3, <2>4
<1> QED  BY <1>1, <1>2

\* Whatever the server does is one of these changes, or none.
LEMMA EveryStep ==
  ASSUME BaseInv, Agreement, [Next]_vars
  PROVE  TablesStep
<1>0. now \in Nat
  BY DEF BaseInv, TypeOK
<1>1. ASSUME NEW conn \in Connections, Request(conn)
      PROVE  TablesStep
  <2>1. CASE BadFrame(conn)
    BY <1>0, <2>1, QuietStep DEF BadFrame
  <2> QED
    BY <1>1, <2>1, LoginStep, RegisterStep, JoinStep, CancelStep, HeroSelectStep, AttackStep
       DEF Request
<1>2. ASSUME NEW conn \in Connections, Connect(conn)
      PROVE  TablesStep
  BY <1>0, <1>2, QuietStep DEF Connect
<1>3. CASE TickBegin \/ TickEnd
  BY <1>0, <1>3, QuietStep DEF TickBegin, TickEnd
<1>4. CASE Advance
  <2>1. now' \in Nat /\ now <= now'
    BY <1>0, <1>4, BoundsAssumption DEF Advance
  <2> QED  BY <1>4, <2>1, QuietStep DEF Advance
<1>5. CASE UNCHANGED vars
  BY <1>0, <1>5, QuietStep DEF vars
<1> QED
  BY <1>1, <1>2, <1>3, <1>4, <1>5, MatchStep, DisconnectStep DEF Next, Tick

-----------------------------------------------------------------------------
(* Every change of the tables keeps them in agreement. *)

\* A room that is closed leaves the tables in agreement, also when one of its
\* members, or neither, goes offline.
LEMMA PartsAgrees ==
  ASSUME TablesAreTyped, TablesDoAgree, NEW id, NEW leavers, Parts(id, leavers),
         leavers = {} \/ \E leaver : leavers = {leaver},
         DOMAIN (accountRepository').elo = DOMAIN accountRepository.elo,
         (accountRepository').nextUserId = accountRepository.nextUserId,
         \A user \in DOMAIN accountRepository.elo \ Members(roomService.rooms[id]) :
           (accountRepository').elo[user] = accountRepository.elo[user]
  PROVE  TablesAgree(players', tickets', roomService', battles', accountRepository', now')
<1> DEFINE members == Members(roomService.rooms[id])
           N == BackInLobby(players, members, accountRepository')
           R == RemoveRoom(roomService, id)
           B == RemoveBattle(battles, id)
<1>1. /\ id \in DOMAIN roomService.rooms /\ leavers \subseteq members
      /\ players' = Restrict(N, DOMAIN players \ leavers)
      /\ roomService' = R /\ battles' = B /\ tickets' = tickets /\ now' = now
  BY DEF Parts
<1>2. /\ DOMAIN N = DOMAIN players /\ N = [user \in DOMAIN N |-> N[user]]
      /\ \A user \in DOMAIN players \ members : N[user] = players[user]
  BY DEF BackInLobby
<1>3. \A user \in members : user \in DOMAIN players /\ players[user].roomId # NoRoom
  BY <1>1 DEF TablesAreTyped, TablesDoAgree, TablesTyped, TablesAgree, RoomsMatch,
              IsRoomService, IsTable, NoRoom
<1>4. \A user \in members : N[user].roomId = NoRoom /\ N[user].elo = (accountRepository').elo[user]
  BY <1>3 DEF BackInLobby
<1> HIDE DEF N
<1>5. TablesAgree(N, tickets, R, B, accountRepository', now)
  BY <1>1, <1>2, <1>4, PartAgrees DEF TablesAreTyped, TablesDoAgree
<1>6. CASE leavers = {}
  BY <1>1, <1>2, <1>5, <1>6 DEF Restrict
<1>7. ASSUME NEW leaver, leavers = {leaver}
      PROVE  TablesAgree(players', tickets', roomService', battles', accountRepository', now')
  <2>1. leaver \in DOMAIN N /\ N[leaver].roomId = NoRoom
    BY <1>1, <1>2, <1>3, <1>4, <1>7
  <2>2. NoRoom \notin DOMAIN R.rooms
    BY DEF TablesAreTyped, TablesTyped, IsRoomService, IsTable, NoRoom, RemoveRoom, Erase, Restrict
  <2>3. TablesAgree(Erase(N, leaver), Erase(tickets, leaver), R, B, accountRepository', now)
    BY <1>5, <2>1, <2>2, DepartAgrees
  <2>4. leaver \notin DOMAIN tickets
    BY <1>1, <1>3, <1>7 DEF TablesDoAgree, TablesAgree, QueuedFree
  <2>5. Erase(tickets, leaver) = tickets
    BY <2>4 DEF TablesAreTyped, TablesTyped, IsTable, Erase, Restrict
  <2>6. Erase(N, leaver) = players'
    BY <1>1, <1>2, <1>7 DEF Erase
  <2> QED
    BY <1>1, <2>3, <2>5, <2>6
<1> QED
  BY <1>6, <1>7

\* So does each of the changes.
LEMMA TablesKeepAgreeing ==
  ASSUME TablesAreTyped, TablesDoAgree, TablesStep
  PROVE  TablesAgree(players', tickets', roomService', battles', accountRepository', now')
<1> DEFINE Goal == TablesAgree(players', tickets', roomService', battles', accountRepository', now')
<1>0. /\ TablesTyped(players, tickets, roomService, battles, accountRepository, now)
      /\ TablesAgree(players, tickets, roomService, battles, accountRepository, now)
  BY DEF TablesAreTyped, TablesDoAgree
<1>1. CASE Waits
  <2>1. \A user \in DOMAIN tickets : tickets[user].joinedAt <= now => tickets[user].joinedAt <= now'
    BY <1>0, <1>1 DEF Waits, TablesTyped, IsTable, Tickets
  <2>2. QueuedFree(players, tickets, now')
    BY <1>0, <2>1 DEF TablesAgree, QueuedFree
  <2> QED  BY <1>0, <1>1, <2>2 DEF Waits, TablesAgree
<1>2. CASE Registers
  BY <1>0, <1>2, RegisterAgrees DEF Registers
<1>3. ASSUME NEW user, LogsIn(user) PROVE Goal
  BY <1>0, <1>3, LoginAgrees DEF LogsIn
<1>4. ASSUME NEW user, JoinsQueue(user) PROVE Goal
  <2>1. now \in Nat
    BY <1>0 DEF TablesTyped
  <2> QED  BY <1>0, <1>4, <2>1, JoinKeepsAgreement DEF JoinsQueue
<1>5. ASSUME NEW user, LeavesQueue(user) PROVE Goal
  BY <1>0, <1>5, LeaveQueueAgrees DEF LeavesQueue
<1>6. ASSUME NEW user, Departs(user) PROVE Goal
  <2>1. NoRoom \notin DOMAIN roomService.rooms
    BY <1>0 DEF TablesTyped, IsRoomService, IsTable, NoRoom
  <2> QED  BY <1>0, <1>6, <2>1, DepartAgrees DEF Departs
<1>7. ASSUME NEW first, NEW second, Meets(first, second) PROVE Goal
  <2> DEFINE id == roomService.nextRoomId
             N  == [[players EXCEPT ![first].roomId = id] EXCEPT ![second].roomId = id]
  <2>1. TablesAgree(N, Erase(Erase(tickets, first), second),
                    CreateRoom(roomService, first, second), battles, accountRepository, now)
    <3>1. first \in DOMAIN tickets /\ second \in DOMAIN tickets /\ first # second
      BY <1>7 DEF Meets
    <3> QED  BY <1>0, <3>1, MeetAgrees
  <2>2. players' = N
    BY <1>7 DEF Meets
  <2> HIDE DEF N
  <2> QED  BY <1>7, <2>1, <2>2 DEF Meets
<1>8. ASSUME NEW id, NEW user, NEW hero, Chooses(id, user, hero) PROVE Goal
  <2> DEFINE C == SelectHero(roomService, id, user, hero)
  <2>1. CanSelectHero(roomService, id, user, hero)
    BY <1>8 DEF Chooses
  <2>2. /\ roomService' = C
        /\ battles' = IF BothHeroesSelected(C, id) THEN StartBattle(battles, id, C.rooms[id])
                                                   ELSE battles
        /\ UNCHANGED <<players, tickets, accountRepository, now>>
    BY <1>8 DEF Chooses
  <2>3. /\ BothHeroesSelected(C, id) =>
             TablesAgree(players, tickets, C, StartBattle(battles, id, C.rooms[id]),
                         accountRepository, now)
        /\ ~BothHeroesSelected(C, id) =>
             TablesAgree(players, tickets, C, battles, accountRepository, now)
    BY <1>0, <2>1, SelectHeroAgrees
  <2> HIDE DEF C
  <2> QED  BY <2>2, <2>3
<1>9. ASSUME NEW id, NEW user, Strikes(id, user) PROVE Goal
  <2>1. TablesAgree(players, tickets, roomService, Attack(battles, id, user), accountRepository, now)
    BY <1>0, <1>9, StrikeAgrees DEF Strikes
  <2> QED  BY <1>9, <2>1 DEF Strikes
<1>10. ASSUME NEW id, NEW leaver, ClosesRoom(id, leaver) PROVE Goal
  BY <1>10, PartsAgrees DEF ClosesRoom
<1>11. ASSUME NEW id, NEW leavers, NEW winner, NEW loser, EndsBattle(id, winner, loser, leavers)
       PROVE  Goal
  <2>1. /\ Parts(id, leavers) /\ leavers \subseteq {winner, loser} /\ winner \notin leavers
        /\ Members(roomService.rooms[id]) = {winner, loser}
    BY <1>11 DEF EndsBattle, Parts
  <2>2. leavers = {} \/ leavers = {loser}
    BY <2>1
  <2>3. /\ DOMAIN (accountRepository').elo = DOMAIN accountRepository.elo
        /\ (accountRepository').nextUserId = accountRepository.nextUserId
        /\ \A user \in DOMAIN accountRepository.elo \ {winner, loser} :
             (accountRepository').elo[user] = accountRepository.elo[user]
    BY <1>0, <1>11 DEF EndsBattle, UpdateEloPair, TablesTyped, IsLedger
  <2> QED  BY <2>1, <2>2, <2>3, PartsAgrees
<1> QED
  BY <1>1, <1>2, <1>3, <1>4, <1>5, <1>6, <1>7, <1>8, <1>9, <1>10, <1>11 DEF TablesStep

-----------------------------------------------------------------------------
\* load() finds an id past all those in the file.
LEMMA LoadedIsNew == NextIdIsNew(Loaded(InitialElo))
BY InitialEloAssumption, NextUserIdBounded DEF NextIdIsNew, Loaded

\* At the start nobody is online, and the next id is new.
LEMMA AgreementInit == Init => Agreement
<1> SUFFICES ASSUME Init PROVE Agreement
  OBVIOUS
<1>1. /\ DOMAIN queue.ticketsByUserId = {} /\ DOMAIN roomService.rooms = {} /\ DOMAIN battles = {}
      /\ DOMAIN sessions.sessionsByConnection = {} /\ DOMAIN sessions.connectionByUserId = {}
  BY DEF Init, EmptyQueue, NoRooms, NoSessions
<1>2. NextIdIsNew(accountRepository)
  BY LoadedIsNew DEF Init
<1> QED
  BY <1>1, <1>2 DEF Agreement, QueuedPlayersAreFree, RoomsMatchSessions, BattlesMatchRooms,
                    EloAgreesWithAccount

\* ServerInv is inductive.
LEMMA ServerInvNext == ServerInv /\ [Next]_vars => ServerInv'
<1>1. ServerInv /\ [Next]_vars => BaseInv' /\ TablesDoAgree'
  <2> SUFFICES ASSUME ServerInv, [Next]_vars PROVE BaseInv' /\ TablesDoAgree'
    OBVIOUS
  <2>1. BaseInv /\ Agreement
    BY DEF ServerInv
  <2>2. BaseInv'
    BY <2>1, BaseInvNext
  <2>3. TablesAgree(players', tickets', roomService', battles', accountRepository', now')
    BY <2>1, EveryStep, TypedTables, AgreementOfTables, TablesKeepAgreeing
  <2>4. TablesDoAgree'
    BY <2>3 DEF TablesDoAgree
  <2> QED  BY <2>2, <2>4
<1>2. BaseInv' => (Agreement' <=> TablesDoAgree')
  BY AgreementOfTables, PTL
<1> QED
  BY <1>1, <1>2 DEF ServerInv

\* ServerInv holds whatever the clients send, in any order, and however saves fail.
LEMMA ServerInvariant == Spec => []ServerInv
<1>1. Init => ServerInv
  BY BaseInvInit, AgreementInit DEF ServerInv
<1> QED
  BY <1>1, ServerInvNext, PTL DEF Spec

\* Nobody waits in the queue who has gone, plays already, or whose ELO has changed since.
THEOREM QueuedPlayersAlwaysFree == Spec => []QueuedPlayersAreFree
<1>1. ServerInv => QueuedPlayersAreFree
  BY DEF ServerInv, Agreement
<1> QED
  BY <1>1, ServerInvariant, PTL

\* A room has two members, both online and marked with it, and nobody else is: whoever
\* leaves, and in whatever state, no session keeps the number of a room that is gone.
THEOREM RoomsAlwaysMatchSessions == Spec => []RoomsMatchSessions
<1>1. ServerInv => RoomsMatchSessions
  BY DEF ServerInv, Agreement
<1> QED
  BY <1>1, ServerInvariant, PTL

\* A battle is on if and only if both heroes of its room are chosen; it is fought by the
\* members of the room, both alive, and is gone once it is finished.
THEOREM BattlesAlwaysMatchRooms == Spec => []BattlesMatchRooms
<1>1. ServerInv => BattlesMatchRooms
  BY DEF ServerInv, Agreement
<1> QED
  BY <1>1, ServerInvariant, PTL

\* The ELO of a session is that of the account, however the save at the end of a battle
\* went: the copy never drifts, and no id is given twice.
THEOREM EloAlwaysAgrees == Spec => []EloAgreesWithAccount
<1>1. ServerInv => EloAgreesWithAccount
  BY DEF ServerInv, Agreement
<1> QED
  BY <1>1, ServerInvariant, PTL

=============================================================================
