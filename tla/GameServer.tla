----------------------------- MODULE GameServer -----------------------------
(***************************************************************************)
(* GameServer (src/server/game/GameServer.cc): the handlers that run, one  *)
(* at a time, on the main EventLoop. Each is an action that makes every    *)
(* call its C++ counterpart makes on the services it owns:                 *)
(*                                                                         *)
(*   sessions           SessionService          who is online, and where   *)
(*   queue              MatchQueue               who waits for an opponent *)
(*   roomService        RoomService              who plays whom            *)
(*   battles            BattleService            the duels in progress     *)
(*   accountRepository  AccountRepository        ids and ELO of record     *)
(*                                                                         *)
(* MatchmakingService::tick is a loop of tryMatch; here each iteration is  *)
(* a step, and `ticking` keeps every other handler out until it returns,   *)
(* as the single loop thread does. A connection id is never reused by      *)
(* TcpServer; here one that has closed may appear again, which is the same *)
(* as long as nothing remembers it (SessionsInverse).                      *)
(***************************************************************************)
EXTENDS SessionService, RoomService, BattleService, MatchQueue, AccountLedger,
        FiniteSets, SequencesExt

CONSTANTS
  Connections,      \* ids of TCP connections
  InitialElo,       \* accounts found in the file at start: user id -> ELO
  Heroes,           \* the heroes clients ask for
  TimeStep,         \* seconds between two readings of the clock
  MaxTime,          \* bound: the clock stops here
  MaxRoomId         \* bound: nobody joins the queue past this many rooms

ASSUME ConnectionsAssumption == NoConnection \notin Connections
ASSUME InitialEloAssumption ==
  /\ InitialElo \in [DOMAIN InitialElo -> 0..EloMax]
  /\ DOMAIN InitialElo \subseteq 1..MaxUserId
  /\ kInitialElo <= EloMax
ASSUME BoundsAssumption == TimeStep \in Nat \ {0} /\ MaxTime \in Nat /\ MaxRoomId \in Nat

VARIABLES
  connections,        \* connections_: the open connections
  shutdown,           \* of those, the ones on which shutdown() was called
  sessions,           \* sessionService_
  queue,              \* matchmakingService_.matchQueue_
  roomService,        \* roomService_
  battles,            \* battleService_.battles_
  accountRepository,  \* accountRepository_
  now,                \* MatchClock::now()
  ticking,            \* the loop is inside processMatchmakingTick
  events,             \* the MatchFoundEvents of the tick so far
  sent                \* what the last handler sent, by connection, in order

vars == <<connections, shutdown, sessions, queue, roomService, battles,
          accountRepository, now, ticking, events, sent>>

UserIds == 1..MaxUserId

Init ==
  /\ connections = {}
  /\ shutdown = {}
  /\ sessions = NoSessions
  /\ queue = EmptyQueue
  /\ roomService = NoRooms
  /\ battles = <<>>
  /\ accountRepository = Loaded(InitialElo)
  /\ now = 0
  /\ ticking = FALSE
  /\ events = <<>>
  /\ sent = [conn \in Connections |-> <<>>]

-----------------------------------------------------------------------------
(* Messages. *)

Silence == [conn \in Connections |-> <<>>]

\* sendToConnection: the message is lost unless the connection is registered
\* and still in state kConnected.
Send(out, open, conn, message) ==
  IF conn \in open THEN [out EXCEPT ![conn] = Append(@, message)] ELSE out

Reply(conn, message) == Send(Silence, connections \ shutdown, conn, message)

Response(type, accepted) == [type |-> type, accepted |-> accepted]

\* Both players get the same notification, each from his own side.
SendBoth(out, open, S, first, second, forFirst, forSecond) ==
  Send(Send(out, open, ConnectionOf(S, first), forFirst),
       open, ConnectionOf(S, second), forSecond)

SendBattleStart(out, open, S, id, room) ==
  LET Start(own, opponent) ==
        [type |-> "BATTLE_START_NTF", roomId |-> id, own |-> own, opponent |-> opponent]
  IN  SendBoth(out, open, S, room.firstUserId, room.secondUserId,
               Start(room.firstHero, room.secondHero),
               Start(room.secondHero, room.firstHero))

\* Faulty variant, to confirm that PlayersAreToldTheTruth can fail: the second
\* player gets the healths in the order of the first.
SendSameHealths(out, open, S, id, state) ==
  LET State(user) ==
        [type |-> "BATTLE_STATE_NTF", roomId |-> id, own |-> state.firstHealth,
         opponent |-> state.secondHealth, yourTurn |-> state.activeUserId = user]
  IN  SendBoth(out, open, S, state.firstUserId, state.secondUserId,
               State(state.firstUserId), State(state.secondUserId))

SendBattleState(out, open, S, id, state) ==
  LET State(own, opponent, user) ==
        [type |-> "BATTLE_STATE_NTF", roomId |-> id, own |-> own,
         opponent |-> opponent, yourTurn |-> state.activeUserId = user]
  IN  SendBoth(out, open, S, state.firstUserId, state.secondUserId,
               State(state.firstHealth, state.secondHealth, state.firstUserId),
               State(state.secondHealth, state.firstHealth, state.secondUserId))

SendBattleResult(out, open, S, id, state) ==
  LET To(o, user) ==
        LET conn == ConnectionOf(S, user) IN
        IF ~HasSession(S, conn) THEN o
        ELSE Send(o, open, conn,
                  [type |-> "BATTLE_RESULT_NTF", roomId |-> id,
                   won |-> state.winnerUserId = user, elo |-> SessionOn(S, conn).elo])
  IN  To(To(out, state.firstUserId), state.secondUserId)

SendMatchFound(out, S, event) ==
  LET first  == SessionOn(S, ConnectionOf(S, event.first))
      second == SessionOn(S, ConnectionOf(S, event.second))
      Found(opponent) ==
        [type |-> "MATCH_FOUND_NTF", roomId |-> event.roomId,
         opponent |-> opponent.userId, opponentElo |-> opponent.elo]
  IN  IF /\ HasSession(S, ConnectionOf(S, event.first))
         /\ HasSession(S, ConnectionOf(S, event.second))
      THEN SendBoth(out, connections \ shutdown, S, event.first, event.second,
                    Found(second), Found(first))
      ELSE out

-----------------------------------------------------------------------------
(* Connections and accounts. *)

Connect(conn) ==
  /\ ~ticking
  /\ conn \notin connections
  /\ connections' = connections \cup {conn}
  /\ sent' = Silence
  /\ UNCHANGED <<shutdown, sessions, queue, roomService, battles,
                 accountRepository, now, ticking, events>>

\* onMessage hands a request of this connection to its handler. After a frame
\* whose length is out of bounds it never does again: the bad header stays at
\* the front of the input buffer.
Receives(conn) == ~ticking /\ conn \in connections \ shutdown

BadFrame(conn) ==
  /\ Receives(conn)
  /\ shutdown' = shutdown \cup {conn}
  /\ sent' = Silence
  /\ UNCHANGED <<connections, sessions, queue, roomService, battles,
                 accountRepository, now, ticking, events>>

\* `user` is the account the credentials verify as, or 0 if they do not verify
\* or the request is malformed.
HandleLogin(conn, user) ==
  LET success == /\ user \in Registered(accountRepository)
                 /\ CanBind(sessions, conn, user)
      elo == accountRepository.elo[user]
  IN  /\ Receives(conn)
      /\ sessions' = IF success THEN Bind(sessions, conn, NewSession(user, elo))
                                ELSE sessions
      /\ sent' = Reply(conn, IF success
                               THEN [type |-> "LOGIN_RSP", accepted |-> TRUE,
                                     userId |-> user, elo |-> elo]
                               ELSE Response("LOGIN_RSP", FALSE))
      /\ UNCHANGED <<connections, shutdown, queue, roomService, battles,
                     accountRepository, now, ticking, events>>

\* `newName`: the request is well formed, valid, and names no account yet.
HandleRegister(conn, newName, saved) ==
  LET success == newName /\ CanRegister(accountRepository, saved) IN
  /\ Receives(conn)
  /\ accountRepository' = IF success THEN Register(accountRepository)
                                     ELSE accountRepository
  /\ sent' = Reply(conn, Response("REGISTER_RSP", success))
  /\ UNCHANGED <<connections, shutdown, sessions, queue, roomService, battles,
                 now, ticking, events>>

-----------------------------------------------------------------------------
(* Matchmaking. *)

\* Faulty variant, to confirm that QueuedPlayersAreFree can fail: a player in a
\* room may queue again.
IsLoggedIn(conn) == HasSession(sessions, conn)

\* The session a handler finds on a connection is in no room.
IsFree(conn) == HasSession(sessions, conn) /\ SessionOn(sessions, conn).roomId = NoRoom

HandleMatchJoin(conn, wellFormed) ==
  LET session  == SessionOn(sessions, conn)
      accepted == wellFormed /\ IsFree(conn) /\ ~IsQueued(queue, session.userId)
  IN  /\ Receives(conn)
      /\ accepted => roomService.nextRoomId <= MaxRoomId
      /\ queue' = IF accepted
                    THEN Join(queue, Ticket(session.userId, session.elo, now))
                    ELSE queue
      /\ sent' = Reply(conn, Response("MATCH_JOIN_RSP", accepted))
      /\ UNCHANGED <<connections, shutdown, sessions, roomService, battles,
                     accountRepository, now, ticking, events>>

HandleMatchCancel(conn, wellFormed) ==
  LET session  == SessionOn(sessions, conn)
      accepted == wellFormed /\ IsFree(conn) /\ IsQueued(queue, session.userId)
  IN  /\ Receives(conn)
      /\ queue' = IF accepted THEN RemoveTicket(queue, session.userId) ELSE queue
      /\ sent' = Reply(conn, Response("MATCH_CANCEL_RSP", accepted))
      /\ UNCHANGED <<connections, shutdown, sessions, roomService, battles,
                     accountRepository, now, ticking, events>>

TickBegin ==
  /\ ~ticking
  /\ ticking' = TRUE
  /\ events' = <<>>
  /\ sent' = Silence
  /\ UNCHANGED <<connections, shutdown, sessions, queue, roomService, battles,
                 accountRepository, now>>

\* tick() puts a pair in a room only if both sessions are there and free. The
\* tickets are gone either way.
MayShareRoom(S, first, second) ==
  LET Free(user) ==
        LET conn == ConnectionOf(S, user) IN
        HasSession(S, conn) /\ SessionOn(S, conn).roomId = NoRoom
  IN  Free(first) /\ Free(second) /\ CanCreate(first, second)

Pair(first, second) ==
  LET id == roomService.nextRoomId IN
  /\ queue' = RemovePair(queue, first, second)
  /\ IF MayShareRoom(sessions, first, second)
       THEN /\ roomService' = CreateRoom(roomService, first, second)
            /\ sessions' = MarkInRoom(MarkInRoom(sessions, first, id), second, id)
            /\ events' = Append(events,
                           [roomId |-> id, first |-> first, second |-> second])
       ELSE UNCHANGED <<roomService, sessions, events>>

\* One iteration of the loop in tick(), tryMatch having found a pair.
TickMatch ==
  /\ ticking
  /\ \E first \in FirstMatchable(queue, now) :
       \E second \in BestSecond(queue, queue.ticketsByUserId[first], now) :
         Pair(first, second)
  /\ sent' = Silence
  /\ UNCHANGED <<connections, shutdown, battles, accountRepository, now, ticking>>

\* After the tick, both players of each event hear of it.
MatchFoundMessages ==
  FoldLeft(LAMBDA out, event : SendMatchFound(out, sessions, event), Silence, events)

\* tryMatch found none: tick() returns.
TickEnd ==
  /\ ticking
  /\ Matchable(queue, now) = {}
  /\ ticking' = FALSE
  /\ events' = <<>>
  /\ sent' = MatchFoundMessages
  /\ UNCHANGED <<connections, shutdown, sessions, queue, roomService, battles,
                 accountRepository, now>>

\* Time passes between handlers; within one the clock is read once.
Advance ==
  /\ ~ticking
  /\ now + TimeStep <= MaxTime
  /\ now' = now + TimeStep
  /\ sent' = Silence
  /\ UNCHANGED <<connections, shutdown, sessions, queue, roomService, battles,
                 accountRepository, ticking, events>>

-----------------------------------------------------------------------------
(* Hero selection and battle. *)

\* `hero` is NoHero for a malformed request or a hero out of range.
HandleHeroSelect(conn, hero) ==
  LET session  == SessionOn(sessions, conn)
      id       == session.roomId
      accepted == /\ HasSession(sessions, conn)
                  /\ id # NoRoom
                  /\ CanSelectHero(roomService, id, session.userId, hero)
      chosen   == SelectHero(roomService, id, session.userId, hero)
      room     == chosen.rooms[id]
      starts   == BothHeroesSelected(chosen, id) /\ CanStart(battles, id, room)
      open     == connections \ shutdown
      replied  == Reply(conn, Response("HERO_SELECT_RSP", accepted))
  IN  /\ Receives(conn)
      /\ roomService' = IF accepted THEN chosen ELSE roomService
      /\ battles' = IF accepted /\ starts THEN StartBattle(battles, id, room)
                                          ELSE battles
      /\ sent' = IF accepted /\ starts
                   THEN SendBattleState(
                          SendBattleStart(replied, open, sessions, id, room),
                          open, sessions, id, NewBattle(room))
                   ELSE replied
      /\ UNCHANGED <<connections, shutdown, sessions, queue, accountRepository,
                     now, ticking, events>>

\* finishBattle, first half: with both players online the new ELOs go to the
\* accounts and, if that could be saved, to the sessions too.
Settles(state, saved) ==
  LET first  == ConnectionOf(sessions, state.firstUserId)
      second == ConnectionOf(sessions, state.secondUserId)
  IN  /\ HasSession(sessions, first) /\ HasSession(sessions, second)
      /\ CanUpdateEloPair(accountRepository, SessionOn(sessions, first).userId,
                          SessionOn(sessions, second).userId, saved)

\* Faulty variant, to confirm that EloAgreesWithAccount can fail: the session of
\* the second player keeps its old ELO.
SettledFirstSession(state) ==
  LET first == state.firstUserId IN
  SetElo(sessions, first,
         NewFirstElo(state, SessionOn(sessions, ConnectionOf(sessions, first)).elo))

SettledSessions(state) ==
  LET EloOf(user) == SessionOn(sessions, ConnectionOf(sessions, user)).elo
      first  == state.firstUserId
      second == state.secondUserId
  IN  SetElo(SetElo(sessions, first, NewFirstElo(state, EloOf(first))),
             second, NewSecondElo(state, EloOf(second)))

SettledAccounts(state) ==
  LET first  == SessionOn(sessions, ConnectionOf(sessions, state.firstUserId))
      second == SessionOn(sessions, ConnectionOf(sessions, state.secondUserId))
  IN  UpdateEloPair(accountRepository, first.userId, NewFirstElo(state, first.elo),
                    second.userId, NewSecondElo(state, second.elo))

\* Faulty variant, to confirm that RoomsMatchSessions can fail: only the first
\* player returns to the lobby.
FinishedFirstSession(state, saved) ==
  ClearRoom(IF Settles(state, saved) THEN SettledSessions(state) ELSE sessions,
            state.firstUserId)

\* What finishBattle leaves in the sessions.
FinishedSessions(state, saved) ==
  LET settled == IF Settles(state, saved) THEN SettledSessions(state) ELSE sessions
  IN  ClearRoom(ClearRoom(settled, state.firstUserId), state.secondUserId)

\* The rest of finishBattle. The sessions are left to the caller, for a
\* disconnect goes on to change them. `out` holds what the handler has sent
\* before.
FinishBattle(id, state, saved, open, out) ==
  /\ accountRepository' = IF Settles(state, saved) THEN SettledAccounts(state)
                                                   ELSE accountRepository
  /\ sent' = SendBattleResult(out, open,
               IF Settles(state, saved) THEN SettledSessions(state) ELSE sessions,
               id, state)
  /\ roomService' = RemoveRoom(roomService, id)
  /\ battles' = RemoveBattle(battles, id)

\* An attack out of turn, out of a battle or malformed is ignored without a
\* reply; it changes nothing and is no step here.
HandleBattleAttack(conn, saved) ==
  LET session == SessionOn(sessions, conn)
      id      == session.roomId
      state   == Attack(battles, id, session.userId)[id]
      open    == connections \ shutdown
      out     == SendBattleState(Silence, open, sessions, id, state)
  IN  /\ Receives(conn)
      /\ HasSession(sessions, conn)
      /\ id # NoRoom
      /\ CanAttack(battles, id, session.userId)
      /\ IF state.finished
           THEN /\ FinishBattle(id, state, saved, open, out)
                /\ sessions' = FinishedSessions(state, saved)
           ELSE /\ battles' = Attack(battles, id, session.userId)
                /\ sent' = out
                /\ UNCHANGED <<sessions, roomService, accountRepository>>
      /\ UNCHANGED <<connections, shutdown, queue, now, ticking, events>>

-----------------------------------------------------------------------------
(* Disconnect: onConnection of a connection that is no longer connected. *)

\* The room closes and the opponent returns to the lobby.
CloseRoom(conn, session, open) ==
  LET id       == session.roomId
      room     == roomService.rooms[id]
      opponent == IF room.firstUserId = session.userId THEN room.secondUserId
                                                       ELSE room.firstUserId
  IN  /\ sent' = Send(Silence, open, ConnectionOf(sessions, opponent),
                      [type |-> "ROOM_CLOSED_NTF", roomId |-> id])
      /\ sessions' = RemoveSession(ClearRoom(sessions, opponent), conn)
      /\ roomService' = RemoveRoom(roomService, id)
      /\ UNCHANGED <<battles, accountRepository>>

LeaveQuietly(conn) ==
  /\ sent' = Silence
  /\ sessions' = RemoveSession(sessions, conn)
  /\ UNCHANGED <<roomService, battles, accountRepository>>

\* A disconnect in a battle forfeits it; in a room before the battle it closes
\* the room; anywhere else only the session goes.
LeaveRoom(conn, session, saved, open) ==
  LET id    == session.roomId
      state == Forfeit(battles, id, session.userId)[id]
  IN  CASE HasBattle(battles, id) /\ CanForfeit(battles, id, session.userId) ->
             /\ FinishBattle(id, state, saved, open, Silence)
             /\ sessions' = RemoveSession(FinishedSessions(state, saved), conn)
        [] ~HasBattle(battles, id) /\ HasRoom(roomService, id) ->
             CloseRoom(conn, session, open)
        [] OTHER -> LeaveQuietly(conn)

Disconnect(conn, saved) ==
  LET session == SessionOn(sessions, conn)
      open    == (connections \ shutdown) \ {conn}
  IN  /\ ~ticking
      /\ conn \in connections
      /\ queue' = IF HasSession(sessions, conn)
                    THEN RemoveTicket(queue, session.userId) ELSE queue
      /\ IF HasSession(sessions, conn) /\ session.roomId # NoRoom
           THEN LeaveRoom(conn, session, saved, open)
           ELSE LeaveQuietly(conn)
      /\ connections' = connections \ {conn}
      /\ shutdown' = shutdown \ {conn}
      /\ UNCHANGED <<now, ticking, events>>

-----------------------------------------------------------------------------
Request(conn) ==
  \/ \E user \in Registered(accountRepository) \cup {0} : HandleLogin(conn, user)
  \/ \E newName, saved \in BOOLEAN : HandleRegister(conn, newName, saved)
  \/ \E wellFormed \in BOOLEAN : HandleMatchJoin(conn, wellFormed)
  \/ \E wellFormed \in BOOLEAN : HandleMatchCancel(conn, wellFormed)
  \/ \E hero \in Heroes \cup {NoHero} : HandleHeroSelect(conn, hero)
  \/ \E saved \in BOOLEAN : HandleBattleAttack(conn, saved)
  \/ BadFrame(conn)

Tick == TickBegin \/ TickMatch \/ TickEnd

Next ==
  \/ \E conn \in Connections :
       \/ Connect(conn)
       \/ Request(conn)
       \/ \E saved \in BOOLEAN : Disconnect(conn, saved)
  \/ Tick
  \/ Advance

Spec == Init /\ [][Next]_vars

-----------------------------------------------------------------------------
(* Invariants. *)

\* The state the handlers read has the shape the code declares for it.
TypeOK ==
  /\ connections \subseteq Connections
  /\ shutdown \subseteq connections
  /\ IsSessionService(sessions, Connections, UserIds, 0..EloMax)
  /\ IsMatchQueue(queue, UserIds, 0..EloMax)
  /\ IsRoomService(roomService, UserIds)
  /\ IsTable(battles, Nat \ {0}, BattleStates(UserIds, SelectableHeroes))
  /\ IsLedger(accountRepository, 0..EloMax)
  /\ now \in Nat
  /\ ticking \in BOOLEAN

\* The two tables of SessionService are inverse to each other and name open
\* connections only: an account is online on one connection at most, every
\* lookup by user that finds a connection finds that user's own session there,
\* and a connection that has closed is forgotten by both. handleLogin,
\* finishBattle and the tick all go through one table to reach the other.
SessionsInverse ==
  /\ AreInverse(sessions)
  /\ DOMAIN sessions.sessionsByConnection \subseteq connections

Online(user) == user \in DOMAIN sessions.connectionByUserId

SessionOf(user) == SessionOn(sessions, ConnectionOf(sessions, user))

\* A player in the queue is online, in no room, and waits with the ELO of his
\* session. A ticket that outlived its session, its ELO or a match
\* would let the tick pair a player twice or with a range he does not have.
QueuedPlayersAreFree ==
  \A user \in DOMAIN queue.ticketsByUserId :
    LET ticket == queue.ticketsByUserId[user] IN
    /\ Online(user)
    /\ SessionOf(user).roomId = NoRoom
    /\ ticket.elo = SessionOf(user).elo
    /\ ticket.joinedAt <= now

\* The rooms and the roomId_ of the sessions tell the same story: both members
\* of every room are online and in it, and a session is in a room only as one
\* of its members. Nobody is left alone in a room whose other member has gone,
\* and nobody is in a room that no longer exists.
RoomsMatchSessions ==
  /\ \A id \in DOMAIN roomService.rooms :
       /\ id < roomService.nextRoomId
       /\ Cardinality(Members(roomService.rooms[id])) = 2
       /\ \A user \in Members(roomService.rooms[id]) :
            Online(user) /\ SessionOf(user).roomId = id
  /\ \A conn \in DOMAIN sessions.sessionsByConnection :
       LET session == SessionOn(sessions, conn) IN
       session.roomId # NoRoom =>
         /\ HasRoom(roomService, session.roomId)
         /\ session.userId \in Members(roomService.rooms[session.roomId])

\* There is a battle exactly in the rooms where both heroes are chosen; it is
\* between the members of the room with those heroes, it is not over, one of
\* the two is to move, and both are alive. No handler leaves a finished battle
\* or one without its room behind, and none forgets to start one.
BattlesMatchRooms ==
  /\ \A id \in DOMAIN roomService.rooms :
       BothHeroesSelected(roomService, id) <=> HasBattle(battles, id)
  /\ \A id \in DOMAIN battles :
       LET state == battles[id] IN
       /\ HasRoom(roomService, id)
       /\ \A field \in {"firstUserId", "secondUserId", "firstHero", "secondHero"} :
            state[field] = roomService.rooms[id][field]
       /\ ~state.finished
       /\ state.activeUserId \in {state.firstUserId, state.secondUserId}
       /\ state.firstHealth > 0 /\ state.secondHealth > 0

\* The ELO a session was given at login follows that of the account, through
\* every battle, saved or not: tickets, notifications and the next battle are
\* computed from the session, the file from the account.
EloAgreesWithAccount ==
  \A user \in DOMAIN sessions.connectionByUserId :
    /\ user \in Registered(accountRepository)
    /\ SessionOf(user).elo = accountRepository.elo[user]

=============================================================================
