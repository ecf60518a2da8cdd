-------------------------- MODULE ArenaSystemProofs --------------------------
(***************************************************************************)
(* Two refinements. The server implements Arena, what the game promises    *)
(* its players; and the server among its clients does nothing that         *)
(* GameServer would not do with requests from anywhere. So the whole       *)
(* system keeps the promise, and what was proved of the server holds in    *)
(* it, for any number of clients, connections and messages. Then a proof   *)
(* that the messages the server sends leave every player with the truth.   *)
(* And one about what is on its way between the two: each client shows a   *)
(* picture, each queue towards it holds a story that leads from there to   *)
(* the tables, and each request was made of a picture on that path.        *)
(***************************************************************************)
EXTENDS ArenaSystem, ArenaRefinement, ClientView, GameServerProofs, SequenceTheorems
-----------------------------------------------------------------------------
(* What the players of Arena see of the tables. *)

StatusIn(P, T, B) ==
  [user \in UserIds |->
     IF user \notin DOMAIN P THEN "offline"
     ELSE IF user \in DOMAIN T THEN "queued"
     ELSE IF P[user].roomId = NoRoom THEN "lobby"
     ELSE IF P[user].roomId \in DOMAIN B THEN "fighting"
     ELSE "drafting"]

OpponentIn(P, R) ==
  [user \in UserIds |->
     IF user \notin DOMAIN P \/ P[user].roomId = NoRoom THEN A!Nobody
     ELSE LET room == R.rooms[P[user].roomId] IN
          IF room.firstUserId = user THEN room.secondUserId ELSE room.firstUserId]

arenaStatus == [user \in UserIds |-> StatusOf(user)]
arenaOpponent == [user \in UserIds |-> OpponentOf(user)]

TablesView ==
  /\ arenaStatus = StatusIn(players, tickets, battles)
  /\ arenaOpponent = OpponentIn(players, roomService)

\* What ArenaRefinement gathers from the services can be read off the tables.
LEMMA ArenaView == ServerInv => TablesView
<1> SUFFICES ASSUME ServerInv PROVE TablesView
  OBVIOUS
<1>1. /\ \A user : Online(user) <=> user \in DOMAIN players
      /\ \A user \in DOMAIN players : SessionOf(user) = players[user]
  BY PlayersAreSessions DEF ServerInv, Online, SessionOf, players, PlayersOf
<1>2. \A user \in DOMAIN tickets : user \in DOMAIN players /\ players[user].roomId = NoRoom
  BY AgreementOfTables DEF ServerInv, TablesDoAgree, TablesAgree, QueuedFree
<1>3. \A user \in UserIds : StatusOf(user) = StatusIn(players, tickets, battles)[user]
  BY <1>1 DEF StatusOf, StatusIn, IsQueued, HasBattle, tickets
<1>4. \A user \in UserIds : OpponentOf(user) = OpponentIn(players, roomService)[user]
  BY <1>1, <1>2, <1>3 DEF OpponentOf, OpponentIn, StatusIn, RoomOf, A!Nobody
<1> QED
  BY <1>3, <1>4 DEF TablesView, arenaStatus, arenaOpponent, StatusIn, OpponentIn

\* The opponent of whoever plays nobody is no player.
LEMMA NobodyIsNoUser == \A user \in UserIds : user # A!Nobody
BY DEF A!Nobody, UserIds

\* Both are tables of all user ids.
LEMMA ViewsAreTables ==
  ASSUME NEW P, NEW T, NEW R, NEW B
  PROVE  /\ StatusIn(P, T, B) = [user \in UserIds |-> StatusIn(P, T, B)[user]]
         /\ OpponentIn(P, R) = [user \in UserIds |-> OpponentIn(P, R)[user]]
BY DEF StatusIn, OpponentIn

\* A table that differs from another at two places is the other changed there.
LEMMA ChangedAtTwo ==
  ASSUME NEW D, NEW f, NEW g, f = [x \in D |-> f[x]], g = [x \in D |-> g[x]],
         NEW a \in D, NEW b \in D, a # b, \A x \in D \ {a, b} : g[x] = f[x]
  PROVE  g = [f EXCEPT ![a] = g[a], ![b] = g[b]]
<1> DEFINE h == [f EXCEPT ![a] = g[a], ![b] = g[b]]
<1>1. DOMAIN h = D /\ \A x \in D : h[x] = g[x]
  OBVIOUS
<1>2. h = [x \in DOMAIN h |-> h[x]]
  OBVIOUS
<1> HIDE DEF h
<1> QED
  <2>1. h = g
    BY <1>1, <1>2
  <2> QED  BY <2>1 DEF h

\* A table that differs from another at one place is the other changed there.
LEMMA ChangedAtOne ==
  ASSUME NEW D, NEW f, NEW g, f = [x \in D |-> f[x]], g = [x \in D |-> g[x]],
         NEW a \in D, \A x \in D \ {a} : g[x] = f[x]
  PROVE  g = [f EXCEPT ![a] = g[a]]
OBVIOUS

\* The room is shared by a and b.
Between(room, a, b) == Members(room) = {a, b} /\ a # b

\* a and b, of room id, are each other's opponents, in the same state.
Faces(s, o, B, id, a, b) ==
  /\ a \in UserIds /\ b \in UserIds
  /\ s[a] = IF id \in DOMAIN B THEN "fighting" ELSE "drafting"
  /\ s[b] = s[a] /\ o[a] = b /\ o[b] = a

\* The members of a room face each other.
MembersFace ==
  \A id \in DOMAIN roomService.rooms : \A a, b :
    Between(roomService.rooms[id], a, b) =>
      Faces(arenaStatus, arenaOpponent, battles, id, a, b)

\* Rooms that match the sessions have their members facing each other.
LEMMA MembersFaceEachOther == ServerInv => MembersFace
<1> SUFFICES ASSUME ServerInv,
                    NEW id \in DOMAIN roomService.rooms, NEW a, NEW b,
                    Between(roomService.rooms[id], a, b)
             PROVE  Faces(arenaStatus, arenaOpponent, battles, id, a, b)
  BY DEF MembersFace
<1> DEFINE P == players
           T == tickets
           R == roomService
           B == battles
<1>1. /\ TablesTyped(P, T, R, B, accountRepository, now)
      /\ TablesAgree(P, T, R, B, accountRepository, now)
  BY TypedTables, AgreementOfTables DEF ServerInv, TablesAreTyped, TablesDoAgree
<1>2. TablesView
  BY ArenaView
<1> HIDE DEF P, T
<1>3. id # NoRoom
  BY <1>1 DEF TablesTyped, IsRoomService, IsTable, NoRoom
<1>4. \A user \in {a, b} : user \in DOMAIN P /\ P[user].roomId = id /\ user \notin DOMAIN T
  BY <1>1, <1>3 DEF TablesAgree, RoomsMatch, QueuedFree, Between
<1>5. a \in UserIds /\ b \in UserIds
  BY <1>1, <1>4 DEF TablesTyped, IsTable
<1>6. \/ R.rooms[id].firstUserId = a /\ R.rooms[id].secondUserId = b /\ a # b
      \/ R.rooms[id].firstUserId = b /\ R.rooms[id].secondUserId = a /\ a # b
  BY DEF Between, Members
<1>7. Faces(StatusIn(P, T, B), OpponentIn(P, R), B, id, a, b)
  BY <1>3, <1>4, <1>5, <1>6 DEF StatusIn, OpponentIn, Faces
<1> QED
  BY <1>2, <1>7 DEF TablesView, P, T

\* After(user) is where a member goes when the room is closed and `leavers` go offline.
Parted(s, o, sAfter, oAfter, leavers, a, b) ==
  LET After(user) == IF user \in leavers THEN "offline" ELSE "lobby" IN
  /\ sAfter = [s EXCEPT ![a] = After(a), ![b] = After(b)]
  /\ oAfter = [o EXCEPT ![a] = A!Nobody, ![b] = A!Nobody]

\* When a room is removed its members part: whoever leaves is offline, whoever stays in
\* the lobby.
LEMMA PartView ==
  ASSUME TablesAreTyped, TablesDoAgree, NEW id, NEW leavers, Parts(id, leavers),
         NEW a, NEW b, Between(roomService.rooms[id], a, b)
  PROVE  Parted(StatusIn(players, tickets, battles), OpponentIn(players, roomService),
                StatusIn(players', tickets', battles'), OpponentIn(players', roomService'),
                leavers, a, b)
<1> DEFINE After(user) == IF user \in leavers THEN "offline" ELSE "lobby"
<1>m. Members(roomService.rooms[id]) = {a, b} /\ a # b
  BY DEF Between
<1>0. /\ TablesTyped(players, tickets, roomService, battles, accountRepository, now)
      /\ TablesAgree(players, tickets, roomService, battles, accountRepository, now)
  BY DEF TablesAreTyped, TablesDoAgree
<1>1. /\ id \in DOMAIN roomService.rooms /\ leavers \subseteq {a, b} /\ id # NoRoom
      /\ UNCHANGED tickets
      /\ DOMAIN players' = DOMAIN players \ leavers
      /\ \A user \in DOMAIN players' :
           players'[user] = IF user \in {a, b}
                              THEN [userId |-> user, elo |-> (accountRepository').elo[user],
                                    roomId |-> NoRoom]
                              ELSE players[user]
      /\ roomService' = RemoveRoom(roomService, id)
      /\ DOMAIN battles' = DOMAIN battles \ {id}
  BY <1>0, <1>m DEF Parts, Restrict, BackInLobby, RemoveBattle, Erase, TablesTyped, IsRoomService,
              IsTable, NoRoom
<1>2. \A user \in {a, b} : /\ user \in DOMAIN players /\ players[user].roomId = id
                           /\ user \notin DOMAIN tickets /\ user \in UserIds
  BY <1>0, <1>1, <1>m DEF TablesAgree, RoomsMatch, QueuedFree, TablesTyped, IsTable
<1>3. \A user \in DOMAIN players \ {a, b} :
        /\ players[user].roomId # id
        /\ players[user].roomId # NoRoom =>
             (roomService').rooms[players[user].roomId] = roomService.rooms[players[user].roomId]
  BY <1>0, <1>1, <1>m
     DEF TablesAgree, RoomsMatch, HasRoom, TablesTyped, IsRoomService, RemoveRoom, Erase, Restrict
<1>4. \A user \in UserIds \ {a, b} :
        /\ StatusIn(players', tickets', battles')[user] = StatusIn(players, tickets, battles)[user]
        /\ OpponentIn(players', roomService')[user] = OpponentIn(players, roomService)[user]
  BY <1>1, <1>3 DEF StatusIn, OpponentIn
<1>5. \A user \in {a, b} : /\ StatusIn(players', tickets', battles')[user] = After(user)
                           /\ OpponentIn(players', roomService')[user] = A!Nobody
  BY <1>1, <1>2 DEF StatusIn, OpponentIn
<1> HIDE DEF After
<1>6. StatusIn(players', tickets', battles')
        = [StatusIn(players, tickets, battles) EXCEPT
             ![a] = StatusIn(players', tickets', battles')[a],
             ![b] = StatusIn(players', tickets', battles')[b]]
  BY <1>2, <1>4, <1>m, ViewsAreTables, ChangedAtTwo
<1>7. OpponentIn(players', roomService')
        = [OpponentIn(players, roomService) EXCEPT ![a] = OpponentIn(players', roomService')[a],
                                                   ![b] = OpponentIn(players', roomService')[b]]
  BY <1>2, <1>4, <1>m, ViewsAreTables, ChangedAtTwo
<1> QED
  BY <1>5, <1>6, <1>7 DEF After, Parted

\* Every change of the tables is a change of Arena, or none.
LEMMA TablesStepIsArenaStep ==
  ASSUME TablesAreTyped, TablesDoAgree, TablesStep,
         TablesView, TablesView', MembersFace, MembersFace'
  PROVE  A!Next \/ UNCHANGED <<arenaStatus, arenaOpponent, accountRepository.elo>>
<1> DEFINE s == arenaStatus
           o == arenaOpponent
           e == accountRepository.elo
           Goal == A!Next \/ UNCHANGED <<s, o, e>>
<1>0. /\ TablesTyped(players, tickets, roomService, battles, accountRepository, now)
      /\ TablesAgree(players, tickets, roomService, battles, accountRepository, now)
  BY DEF TablesAreTyped, TablesDoAgree
<1>v. /\ s = StatusIn(players, tickets, battles)
      /\ o = OpponentIn(players, roomService)
      /\ s' = StatusIn(players', tickets', battles')
      /\ o' = OpponentIn(players', roomService')
  BY DEF TablesView
<1>a. /\ s = [user \in UserIds |-> s[user]] /\ s' = [user \in UserIds |-> s'[user]]
      /\ o = [user \in UserIds |-> o[user]] /\ o' = [user \in UserIds |-> o'[user]]
  BY <1>v, ViewsAreTables
<1>b. \A user \in DOMAIN tickets : user \in DOMAIN players /\ players[user].roomId = NoRoom
  BY <1>0 DEF TablesAgree, QueuedFree
<1>c. \A id \in DOMAIN battles : id \in DOMAIN roomService.rooms
  BY <1>0 DEF TablesAgree, BattlesMatch, HasRoom
\* A single player moves.
<1>d. ASSUME NEW p \in UserIds, NEW from, NEW to, s[p] \in from, s'[p] = to, s'[p] # s[p],
             \A user \in UserIds \ {p} : s'[user] = s[user], o' = o, e' = e
      PROVE  s' # s /\ A!Move(p, from, to)
  <2>1. s' = [s EXCEPT ![p] = to]
    BY <1>a, <1>d, ChangedAtOne
  <2>2. s' # s
    BY <1>d
  <2> QED
    BY <1>d, <2>1, <2>2 DEF A!Move, arenaStatus, arenaOpponent
\* Two players move together.
<1>e. ASSUME NEW p \in UserIds, NEW q \in UserIds, p # q,
             \A user \in UserIds \ {p, q} : s'[user] = s[user]
      PROVE  s' = [s EXCEPT ![p] = s'[p], ![q] = s'[q]]
  BY <1>a, <1>e, ChangedAtTwo
<1>f. ASSUME NEW p \in UserIds, NEW q \in UserIds, p # q,
             \A user \in UserIds \ {p, q} : o'[user] = o[user]
      PROVE  o' = [o EXCEPT ![p] = o'[p], ![q] = o'[q]]
  BY <1>a, <1>f, ChangedAtTwo
\* The members of a room face each other.
<1>g. ASSUME NEW id \in DOMAIN roomService.rooms, NEW p, NEW q,
             Between(roomService.rooms[id], p, q)
      PROVE  Faces(s, o, battles, id, p, q)
  BY <1>g DEF MembersFace
<1>h. ASSUME NEW id \in DOMAIN (roomService').rooms, NEW p, NEW q,
             Between((roomService').rooms[id], p, q)
      PROVE  Faces(s', o', battles', id, p, q)
  BY <1>h DEF MembersFace
<1>i. ASSUME NEW id, NEW leavers, Parts(id, leavers), NEW p, NEW q,
             Between(roomService.rooms[id], p, q)
      PROVE  Parted(s, o, s', o', leavers, p, q)
  BY <1>i, <1>v, PartView
<1>1. CASE Waits
  <2>1. s' = s /\ o' = o /\ e' = e
    BY <1>1, <1>v DEF Waits
  <2> QED  BY <2>1
<1>2. CASE Registers
  <2>1. accountRepository.nextUserId \in UserIds \ DOMAIN e
    BY <1>0, <1>2, MaxUserIdAssumption
       DEF Registers, TablesTyped, TablesAgree, IsLedger, IsTable, NextIdIsNew, UserIds
  <2>2. e' = A!Put(e, accountRepository.nextUserId, 1000)
    BY <1>2 DEF Registers, Register, Put, A!Put, kInitialElo
  <2>3. s' = s /\ o' = o
    BY <1>2, <1>v DEF Registers
  <2> QED  BY <2>1, <2>2, <2>3 DEF A!Next, A!Enroll, arenaStatus, arenaOpponent
<1>3. ASSUME NEW user \in UserIds, LogsIn(user) PROVE Goal
  <2>1. /\ user \in DOMAIN e \ DOMAIN players /\ DOMAIN players' = DOMAIN players \cup {user}
        /\ players'[user].roomId = NoRoom
        /\ \A other \in DOMAIN players : players'[other] = players[other]
        /\ UNCHANGED <<tickets, roomService, battles, accountRepository>>
    BY <1>3 DEF LogsIn, Put, NewSession
  <2>2. /\ s[user] = "offline" /\ s'[user] = "lobby"
        /\ \A other \in UserIds \ {user} : s'[other] = s[other]
    BY <1>v, <1>b, <2>1 DEF StatusIn
  <2>3. \A other \in UserIds : o'[other] = o[other]
    BY <1>v, <2>1 DEF OpponentIn
  <2>4. s' # s /\ A!Move(user, {"offline"}, "lobby")
    BY <1>a, <1>d, <2>1, <2>2, <2>3
  <2> QED  BY <2>1, <2>4 DEF A!Next, A!Enter, arenaStatus
<1>4. ASSUME NEW user \in UserIds, JoinsQueue(user) PROVE Goal
  <2>1. /\ user \in DOMAIN players \ DOMAIN tickets /\ players[user].roomId = NoRoom
        /\ DOMAIN tickets' = DOMAIN tickets \cup {user}
        /\ UNCHANGED <<players, roomService, battles, accountRepository>>
    BY <1>4 DEF JoinsQueue, Put
  <2>2. /\ s[user] = "lobby" /\ s'[user] = "queued" /\ o' = o
        /\ \A other \in UserIds \ {user} : s'[other] = s[other]
    BY <1>v, <2>1 DEF StatusIn
  <2>3. s' # s /\ A!Move(user, {"lobby"}, "queued")
    BY <1>d, <2>1, <2>2
  <2> QED  BY <2>3 DEF A!Next, A!Wait, arenaStatus
<1>5. ASSUME NEW user \in UserIds, LeavesQueue(user) PROVE Goal
  <2>1. /\ user \in DOMAIN tickets
        /\ DOMAIN tickets' = DOMAIN tickets \ {user}
        /\ UNCHANGED <<players, roomService, battles, accountRepository>>
    BY <1>5 DEF LeavesQueue, Erase, Restrict
  <2>2. /\ s[user] = "queued" /\ s'[user] = "lobby" /\ o' = o
        /\ \A other \in UserIds \ {user} : s'[other] = s[other]
    BY <1>v, <1>b, <2>1 DEF StatusIn
  <2>3. s' # s /\ A!Move(user, {"queued"}, "lobby")
    BY <1>d, <2>1, <2>2
  <2> QED  BY <2>3 DEF A!Next, A!Desist, arenaStatus
<1>6. ASSUME NEW user \in UserIds, Departs(user) PROVE Goal
  <2>1. /\ user \in DOMAIN players /\ players[user].roomId = NoRoom
        /\ DOMAIN players' = DOMAIN players \ {user}
        /\ \A other \in DOMAIN players' : players'[other] = players[other]
        /\ DOMAIN tickets' = DOMAIN tickets \ {user}
        /\ UNCHANGED <<roomService, battles, accountRepository>>
    BY <1>6 DEF Departs, Erase, Restrict
  <2>2. /\ s[user] \in {"lobby", "queued"} /\ s'[user] = "offline"
        /\ \A other \in UserIds \ {user} : s'[other] = s[other]
    BY <1>v, <2>1 DEF StatusIn
  <2>3. \A other \in UserIds : o'[other] = o[other]
    BY <1>v, <2>1 DEF OpponentIn
  <2>4. s' # s /\ A!Move(user, {"lobby", "queued"}, "offline")
    BY <1>a, <1>d, <2>1, <2>2, <2>3
  <2> QED  BY <2>4 DEF A!Next, A!Leave, arenaStatus
<1>7. ASSUME NEW first \in UserIds, NEW second \in UserIds, Meets(first, second) PROVE Goal
  <2> DEFINE id == roomService.nextRoomId
  <2>1. /\ first # second /\ first \in DOMAIN tickets /\ second \in DOMAIN tickets
        /\ DOMAIN tickets' = DOMAIN tickets \ {first, second}
        /\ roomService' = CreateRoom(roomService, first, second)
        /\ UNCHANGED <<battles, accountRepository>>
        /\ players' = [[players EXCEPT ![first].roomId = id] EXCEPT ![second].roomId = id]
    BY <1>7 DEF Meets, Erase, Restrict
  <2>2. /\ id \in Nat \ {0} /\ id \notin DOMAIN roomService.rooms
        /\ \A user \in DOMAIN players : players[user] \in Sessions(UserIds, Elo)
    BY <1>0 DEF TablesTyped, TablesAgree, RoomsMatch, IsRoomService, IsTable
  <2>3. /\ DOMAIN players' = DOMAIN players
        /\ \A user \in DOMAIN players \ {first, second} : players'[user] = players[user]
        /\ players'[first].roomId = id /\ players'[second].roomId = id
    <3> HIDE DEF id
    <3> QED  BY <1>b, <2>1, <2>2 DEF Sessions
  <2>4. /\ (roomService').rooms[id].firstUserId = first
        /\ (roomService').rooms[id].secondUserId = second
        /\ \A i \in DOMAIN roomService.rooms :
             (roomService').rooms[i] = roomService.rooms[i]
    BY <2>1, <2>2 DEF CreateRoom, Put
  <2>5. \A user \in DOMAIN players : players[user].roomId # NoRoom =>
          players[user].roomId \in DOMAIN roomService.rooms
    BY <1>0 DEF TablesAgree, RoomsMatch, HasRoom
  <2> HIDE DEF id
  <2>6. /\ s[first] = "queued" /\ s[second] = "queued"
        /\ s'[first] = "drafting" /\ s'[second] = "drafting"
        /\ \A user \in UserIds \ {first, second} : s'[user] = s[user]
    BY <1>v, <1>b, <1>c, <2>1, <2>2, <2>3 DEF StatusIn, NoRoom
  <2>7. /\ o'[first] = second /\ o'[second] = first
        /\ \A user \in UserIds \ {first, second} : o'[user] = o[user]
    BY <1>v, <1>b, <2>1, <2>2, <2>3, <2>4, <2>5 DEF OpponentIn, NoRoom
  <2>8. s' = [s EXCEPT ![first] = s'[first], ![second] = s'[second]]
    BY <1>e, <2>1, <2>6
  <2>9. o' = [o EXCEPT ![first] = o'[first], ![second] = o'[second]]
    BY <1>f, <2>1, <2>7
  <2>10. s' # s
    BY <2>6
  <2>11. A!Meet(first, second)
    BY <2>1, <2>6, <2>7, <2>8, <2>9 DEF A!Meet, arenaStatus, arenaOpponent
  <2> QED  BY <2>10, <2>11 DEF A!Next, arenaStatus
<1>8. ASSUME NEW id, NEW user, NEW hero, Chooses(id, user, hero) PROVE Goal
  <2> DEFINE R == roomService'
             first == R.rooms[id].firstUserId
             second == R.rooms[id].secondUserId
  <2>1. /\ id \in DOMAIN roomService.rooms
        /\ UNCHANGED <<players, tickets, accountRepository>>
        /\ DOMAIN R.rooms = DOMAIN roomService.rooms
        /\ \A i \in DOMAIN R.rooms :
             /\ R.rooms[i].firstUserId = roomService.rooms[i].firstUserId
             /\ R.rooms[i].secondUserId = roomService.rooms[i].secondUserId
    BY <1>0, <1>8 DEF Chooses, CanSelectHero, HasRoom, SelectHero, TablesTyped, IsRoomService,
                      IsTable, Rooms
  <2>2. DOMAIN battles' = DOMAIN battles \/ DOMAIN battles' = DOMAIN battles \cup {id}
    BY <1>8 DEF Chooses, StartBattle, Put
  <2>3. \A p \in DOMAIN players : players[p].roomId # NoRoom =>
          players[p].roomId \in DOMAIN roomService.rooms
    BY <1>0 DEF TablesAgree, RoomsMatch, HasRoom
  <2>4. o' = o
    <3>1. \A p \in UserIds : o'[p] = o[p]
      BY <1>v, <2>1, <2>3 DEF OpponentIn
    <3> QED  BY <1>a, <3>1
  <2>5. CASE DOMAIN battles' = DOMAIN battles
    <3>1. s' = s
      BY <1>v, <2>1, <2>5 DEF StatusIn
    <3> QED  BY <2>1, <2>4, <3>1
  <2>6. CASE id \notin DOMAIN battles /\ DOMAIN battles' = DOMAIN battles \cup {id}
    <3>1. Between(roomService.rooms[id], first, second) /\ Between(R.rooms[id], first, second)
      BY <1>0, <2>1 DEF Between, Members, TablesAgree, RoomsMatch
    <3>2. Members(roomService.rooms[id]) = {first, second} /\ first # second
      BY <3>1 DEF Between
    <3> HIDE DEF first, second
    <3>3. /\ first \in UserIds /\ second \in UserIds
          /\ s[first] = "drafting" /\ s[second] = "drafting"
          /\ o[first] = second /\ o[second] = first
      <4>1. Faces(s, o, battles, id, first, second)
        BY <1>g, <2>1, <3>1
      <4> QED  BY <2>6, <4>1 DEF Faces
    <3>4. s'[first] = "fighting" /\ s'[second] = "fighting"
      <4>1. Faces(s', o', battles', id, first, second)
        BY <1>h, <2>1, <3>1
      <4> QED  BY <2>6, <4>1 DEF Faces
    <3>5. \A p \in UserIds \ {first, second} : s'[p] = s[p]
      <4>1. \A p \in DOMAIN players \ {first, second} : players[p].roomId # id
        <5>1. id # NoRoom
          BY <1>0, <2>1 DEF TablesTyped, IsRoomService, IsTable, NoRoom
        <5> QED  BY <1>0, <3>2, <5>1 DEF TablesAgree, RoomsMatch
      <4> QED  BY <1>v, <2>1, <2>6, <4>1 DEF StatusIn
    <3>6. s' = [s EXCEPT ![first] = s'[first], ![second] = s'[second]]
      BY <1>e, <3>2, <3>3, <3>5
    <3>7. s' # s
      BY <3>3, <3>4
    <3>8. A!Fight(first)
      BY <2>1, <2>4, <3>3, <3>4, <3>6, NobodyIsNoUser DEF A!Fight, A!Facing, arenaStatus, arenaOpponent
    <3> QED  BY <3>3, <3>7, <3>8 DEF A!Next, arenaStatus
  <2> QED  BY <2>2, <2>5, <2>6
<1>9. ASSUME NEW id, NEW user, Strikes(id, user) PROVE Goal
  <2>1. /\ UNCHANGED <<players, tickets, roomService, accountRepository>>
        /\ DOMAIN battles' = DOMAIN battles
    BY <1>9 DEF Strikes, Attack
  <2>2. s' = s /\ o' = o
    BY <1>v, <2>1 DEF StatusIn
  <2> QED  BY <2>1, <2>2
<1>10. ASSUME NEW id, NEW leaver, ClosesRoom(id, leaver) PROVE Goal
  <2>1. /\ Parts(id, {leaver}) /\ id \in DOMAIN roomService.rooms /\ id \notin DOMAIN battles
        /\ leaver \in Members(roomService.rooms[id]) /\ e' = e
    BY <1>10 DEF ClosesRoom, Parts, HasBattle
  <2>2. PICK other : Between(roomService.rooms[id], leaver, other)
    <3> DEFINE room == roomService.rooms[id]
               mate == IF room.firstUserId = leaver THEN room.secondUserId ELSE room.firstUserId
    <3>1. room.firstUserId # room.secondUserId
      BY <1>0, <2>1 DEF TablesAgree, RoomsMatch
    <3>2. Between(room, leaver, mate)
      BY <2>1, <3>1 DEF Between, Members
    <3> QED  BY <3>2
  <2>3. /\ leaver \in UserIds /\ other \in UserIds
        /\ s[leaver] = "drafting" /\ s[other] = "drafting"
        /\ o[leaver] = other /\ o[other] = leaver
    <3>1. Faces(s, o, battles, id, leaver, other)
      BY <1>g, <2>1, <2>2
    <3> QED  BY <2>1, <3>1 DEF Faces
  <2>4. /\ s' = [s EXCEPT ![leaver] = "offline", ![other] = "lobby"]
        /\ o' = [o EXCEPT ![leaver] = A!Nobody, ![other] = A!Nobody]
    <3>1. Parted(s, o, s', o', {leaver}, leaver, other)
      BY <1>i, <2>1, <2>2
    <3> HIDE DEF s, o
    <3> QED  BY <2>2, <3>1 DEF Parted, Between
  <2>5. s' # s
    <3>1. s'[leaver] = "offline"
      BY <1>a, <2>2, <2>3, <2>4 DEF Between
    <3> QED  BY <2>3, <3>1
  <2>6. A!Abandon(leaver)
    BY <2>1, <2>3, <2>4, NobodyIsNoUser DEF A!Abandon, A!Facing, A!Part, arenaStatus, arenaOpponent
  <2> QED  BY <2>3, <2>5, <2>6 DEF A!Next, arenaStatus
<1>11. ASSUME NEW id, NEW leavers, NEW winner, NEW loser, EndsBattle(id, winner, loser, leavers)
       PROVE  Goal
  <2>1. /\ Parts(id, leavers) /\ id \in DOMAIN roomService.rooms /\ id \in DOMAIN battles
        /\ Between(roomService.rooms[id], winner, loser) /\ winner # loser
        /\ Members(roomService.rooms[id]) = {winner, loser} /\ winner \notin leavers
    BY <1>11 DEF EndsBattle, Parts, HasBattle, Between
  <2>2. /\ winner \in UserIds /\ loser \in UserIds
        /\ s[winner] = "fighting" /\ s[loser] = "fighting"
        /\ o[winner] = loser /\ o[loser] = winner
    BY <1>g, <2>1 DEF Faces
  <2> DEFINE to == IF loser \in leavers THEN "offline" ELSE "lobby"
  <2>3. /\ s' = [s EXCEPT ![winner] = "lobby", ![loser] = to]
        /\ o' = [o EXCEPT ![winner] = A!Nobody, ![loser] = A!Nobody]
    <3>1. Parted(s, o, s', o', leavers, winner, loser)
      BY <1>i, <2>1
    <3> HIDE DEF s, o
    <3> QED  BY <2>1, <3>1 DEF Parted
  <2>4. to \in {"lobby", "offline"}
    OBVIOUS
  <2> HIDE DEF to
  <2>5. s' # s
    <3>1. s'[winner] = "lobby"
      BY <1>a, <2>1, <2>2, <2>3
    <3> QED  BY <2>2, <3>1
  <2>6. \/ e' = e
        \/ e' = [e EXCEPT ![winner] = EloUp(@), ![loser] = EloDown(@)]
    BY <1>0, <1>11, <2>1 DEF EndsBattle, UpdateEloPair, TablesTyped, IsLedger
  <2>7. A!Conclude(winner)
    <3>1. EloDown(e[loser]) = IF e[loser] < 25 THEN 0 ELSE e[loser] - 25
      <4>1. e[loser] \in Nat
        <5>1. loser \in DOMAIN e
          BY <1>0, <2>1 DEF TablesAgree, RoomsMatch, EloAgrees
        <5> QED  BY <1>0, <5>1, EloMaxAssumption DEF TablesTyped, IsLedger, IsTable, Elo
      <4> HIDE DEF e
      <4> QED  BY <4>1 DEF EloDown, kEloStake
    <3>2. EloUp(e[winner]) = IF e[winner] > EloMax - 25 THEN EloMax ELSE e[winner] + 25
      BY DEF EloUp, kEloStake
    <3>3. \/ e' = e
          \/ e' = [e EXCEPT ![winner] = IF @ > EloMax - 25 THEN EloMax ELSE @ + 25,
                            ![o[winner]] = IF @ < 25 THEN 0 ELSE @ - 25]
      <4> HIDE DEF e
      <4> QED  BY <2>1, <2>2, <2>6, <3>1, <3>2
    <3>4. A!Facing(winner, "fighting")
      BY <2>2, NobodyIsNoUser DEF A!Facing, arenaStatus, arenaOpponent
    <3>5. A!Part(winner, "lobby", to)
      BY <2>2, <2>3 DEF A!Part, arenaStatus, arenaOpponent
    <3> QED
      BY <2>4, <3>3, <3>4, <3>5 DEF A!Conclude, arenaOpponent
  <2> QED  BY <2>2, <2>5, <2>7 DEF A!Next, arenaStatus
<1> QED
  BY <1>1, <1>2, <1>3, <1>4, <1>5, <1>6, <1>7, <1>8, <1>9, <1>10, <1>11 DEF TablesStep

\* The server starts where Arena does: everybody offline, the accounts as loaded.
LEMMA ArenaInit == Init => A!Init
<1> SUFFICES ASSUME Init PROVE A!Init
  OBVIOUS
<1>1. \A user : ~Online(user)
  BY DEF Init, NoSessions, Online, HasSession
<1>2. \A user \in UserIds : StatusOf(user) = "offline" /\ OpponentOf(user) = A!Nobody
  BY <1>1 DEF StatusOf, OpponentOf, A!Nobody
<1>3. accountRepository.elo = InitialElo
  BY DEF Init, Loaded
<1> QED
  BY <1>2, <1>3 DEF A!Init

\* Every step of the server is a step of Arena, or none.
LEMMA ArenaNext == ServerInv /\ ServerInv' /\ [Next]_vars => [A!Next]_(A!arenaVars)
<1>1. ServerInv => TablesView /\ MembersFace
  BY ArenaView, MembersFaceEachOther
<1>2. ServerInv' => TablesView' /\ MembersFace'
  BY <1>1, PTL
<1>3. ASSUME ServerInv, ServerInv', [Next]_vars
      PROVE  A!Next \/ UNCHANGED <<arenaStatus, arenaOpponent, accountRepository.elo>>
  <2>1. TablesAreTyped /\ TablesDoAgree /\ TablesStep
    BY <1>3, TypedTables, AgreementOfTables, EveryStep DEF ServerInv
  <2> QED
    BY <1>1, <1>2, <1>3, <2>1, TablesStepIsArenaStep
<1>4. (UNCHANGED <<arenaStatus, arenaOpponent, accountRepository.elo>>)
        => UNCHANGED A!arenaVars
  BY DEF A!arenaVars, arenaStatus, arenaOpponent
<1> QED
  BY <1>3, <1>4

\* The server implements Arena: for any number of players, however requests, ticks and
\* broken connections interleave, a player changes his state in the ways Arena lists and
\* in no other, both of a pair at once, and an ELO moves with its counterpart or not at all.
THEOREM ServerImplementsArena == Spec => ImplementsArena
<1> QED
  BY ArenaInit, ArenaNext, ServerInvariant, PTL DEF ImplementsArena, A!Spec, Spec

-----------------------------------------------------------------------------
(* The system implements the server. *)

\* Each of the players' clicks leaves the server alone.
LEMMA UsersLeaveServerAlone ==
  ASSUME NEW p \in Clients, User(p) \/ SendGarbage(p)
  PROVE  UNCHANGED vars
BY DEF User, SendGarbage, LoginOrRegister, PressMatch, SelectHeroOnScreen, PressConfirm,
       PressAttack, PressReturn, Click, ClickOnly

\* Of the network, only a new connection reaches the server at once.
LEMMA NetworkStep ==
  ASSUME NEW p \in Clients,
         Establish(p) \/ ConnectionRefused(p) \/ Break(p) \/ Restart(p) \/ ClientReads(p)
  PROVE  (\E conn \in Connections : Connect(conn)) \/ UNCHANGED vars
BY DEF Establish, ConnectionRefused, Break, Restart, ClientReads, EndOfConnection, ClickOnly

\* Whatever the message at the head of a queue is, the server takes it in a step of
\* GameServer.
LEMMA ServeStep ==
  ASSUME NEW conn \in Connections, NEW message, Serve(conn, message)
  PROVE  Request(conn) \/ \E saved \in BOOLEAN : Disconnect(conn, saved)
<1>1. CASE HandleLogin(conn, VerifiedAs(message.user))
  <2>1. VerifiedAs(message.user) \in Registered(accountRepository) \cup {0}
    BY DEF VerifiedAs
  <2> QED  BY <1>1, <2>1 DEF Request
<1>2. CASE \E saved \in BOOLEAN :
             HandleRegister(conn, message.user \notin Registered(accountRepository), saved)
  <2>1. (message.user \notin Registered(accountRepository)) \in BOOLEAN
    OBVIOUS
  <2> QED  BY <1>2, <2>1 DEF Request
<1>3. CASE HandleMatchJoin(conn, TRUE)
  BY <1>3 DEF Request
<1>4. CASE HandleMatchCancel(conn, TRUE)
  BY <1>4 DEF Request
<1>5. CASE HandleHeroSelect(conn, InRange(message.hero))
  <2>1. InRange(message.hero) \in Heroes \cup {NoHero}
    BY DEF InRange
  <2> QED  BY <1>5, <2>1 DEF Request
<1>6. CASE \E saved \in BOOLEAN : HandleBattleAttack(conn, saved)
  BY <1>6 DEF Request
<1>7. CASE BadFrame(conn)
  BY <1>7 DEF Request
<1>8. CASE \E saved \in BOOLEAN : Disconnect(conn, saved)
  BY <1>8
<1> QED
  BY <1>1, <1>2, <1>3, <1>4, <1>5, <1>6, <1>7, <1>8 DEF Serve

\* Whatever happens to the system is a step of the server, or none: queues, clients
\* and connection ids are all that changes otherwise.
LEMMA SystemStep == [SystemNext]_systemVars => [Next]_vars
<1> SUFFICES ASSUME [SystemNext]_systemVars PROVE [Next]_vars
  OBVIOUS
<1>1. CASE \E p \in Clients :
             User(p) \/ SendGarbage(p) \/ Establish(p) \/ ConnectionRefused(p) \/ Break(p)
               \/ Restart(p) \/ ClientReads(p)
  BY <1>1, UsersLeaveServerAlone, NetworkStep DEF Next
<1>2. CASE \E conn \in Connections : ServerReads(conn)
  BY <1>2, ServeStep DEF ServerReads, Next
<1>3. CASE \E conn \in Connections : ServerIgnores(conn)
  BY <1>3 DEF ServerIgnores
<1>4. CASE ServerTicks
  BY <1>4 DEF ServerTicks, Next
<1>5. CASE UNCHANGED systemVars
  BY <1>5 DEF systemVars
<1> QED
  BY <1>1, <1>2, <1>3, <1>4, <1>5 DEF SystemNext

\* The detailed system implements the server on its own: delays, restarts, broken
\* connections and stale requests give rise to no step of the server that is not
\* one of its handlers run on an open connection.
THEOREM SystemImplementsServer == SystemSpec => Spec
<1>1. SystemInit => Init
  BY DEF SystemInit
<1> QED
  BY <1>1, SystemStep, PTL DEF SystemSpec, Spec

\* So an account is online on one connection at most, also while the requests of a
\* client that has restarted overtake the end of its old connection.
THEOREM SystemSessionsInverse == SystemSpec => []SessionsInverse
BY SystemImplementsServer, SessionsAlwaysInverse

\* What the tables agree on they agree on in the whole system too, whatever requests
\* were on their way when a client broke down, restarted or was matched.
THEOREM SystemTablesAgree ==
  SystemSpec => [](QueuedPlayersAreFree /\ RoomsMatchSessions
                     /\ BattlesMatchRooms /\ EloAgreesWithAccount)
<1>1. ServerInv => /\ QueuedPlayersAreFree /\ RoomsMatchSessions
                   /\ BattlesMatchRooms /\ EloAgreesWithAccount
  BY DEF ServerInv, Agreement
<1> QED
  BY <1>1, SystemImplementsServer, ServerInvariant, PTL

\* The whole system, clients and network included, implements Arena.
THEOREM SystemImplementsArena == SystemSpec => ImplementsArena
BY SystemImplementsServer, ServerImplementsArena

-----------------------------------------------------------------------------
(* What a client shows that has read a sequence of messages. FoldLeft goes *)
(* through the subsets of the sequence's domain, from the greatest element *)
(* down: a function that does so exists, and so it is the one FoldLeft     *)
(* chooses.                                                                *)

\* A set of naturals in which every member has a smaller one is empty.
LEMMA NoneIsLeast ==
  ASSUME NEW T, T \subseteq Nat, \A k \in T : \E m \in T : m < k
  PROVE  T = {}
<1>1. ASSUME T # {} PROVE FALSE
  <2>1. PICK x \in T : \A y \in T : x <= y
    BY <1>1, LeastNatural
  <2>2. PICK y \in T : y < x
    OBVIOUS
  <2> QED  BY <2>1, <2>2
<1> QED
  BY <1>1

\* The greatest element of a set below n that holds n.
LEMMA GreatestOf ==
  ASSUME NEW n \in Nat, NEW s \in SUBSET (1..n), n \in s
  PROVE  Max(s) = n
<1>1. \A x \in s : n >= x
  OBVIOUS
<1>2. \A x \in s : (\A y \in s : x >= y) => x = n
  BY <1>1
<1>3. Max(s) \in s /\ \A y \in s : Max(s) >= y
  BY <1>1 DEF Max
<1> QED
  BY <1>2, <1>3

\* The two folds of ClientView and GameServer: a client reads messages, and a tick tells
\* the players of its events.
FoldStep(what, out, item) ==
  IF what = "reading" THEN Learn(out, item) ELSE SendMatchFound(out, sessions, item)

Folds(f, what, base, items, n) ==
  f = [s \in SUBSET (1..n) |->
         IF s = {} THEN base ELSE FoldStep(what, f[s \ {Max(s)}], items[Max(s)])]

\* The recursive function that FoldLeft chooses exists: by the least n for which it would not.
LEMMA FoldExists ==
  ASSUME NEW what, NEW base, NEW items, NEW n \in Nat
  PROVE  \E f : Folds(f, what, base, items, n)
<1> DEFINE T == {k \in Nat : ~\E f : Folds(f, what, base, items, k)}
<1>1. ASSUME NEW k \in T PROVE \E m \in T : m < k
  <2>1. k # 0
    <3> DEFINE f == [s \in SUBSET (1..0) |-> base]
    <3>1. f = [s \in SUBSET (1..0) |->
                 IF s = {} THEN base ELSE FoldStep(what, f[s \ {Max(s)}], items[Max(s)])]
      BY 1..0 = {}
    <3>2. Folds(f, what, base, items, 0)
      BY <3>1 DEF Folds
    <3> QED  BY <3>2
  <2>2. k - 1 \in Nat /\ k - 1 < k /\ 1..k = (1..(k - 1)) \cup {k} /\ k \notin 1..(k - 1)
    BY <2>1
  <2>3. ASSUME NEW f, Folds(f, what, base, items, k - 1) PROVE FALSE
    <3> DEFINE g == [s \in SUBSET (1..k) |->
                       IF k \in s THEN FoldStep(what, f[s \ {k}], items[k]) ELSE f[s]]
    <3>1. ASSUME NEW s \in SUBSET (1..k)
          PROVE  g[s] = IF s = {} THEN base ELSE FoldStep(what, g[s \ {Max(s)}], items[Max(s)])
      <4>1. CASE k \in s
        <5>1. Max(s) = k
          BY <4>1, GreatestOf
        <5>2. g[s \ {k}] = f[s \ {k}] /\ s # {}
          BY <4>1
        <5> HIDE DEF g
        <5>3. g[s] = FoldStep(what, f[s \ {k}], items[k])
          BY <4>1 DEF g
        <5> QED  BY <5>1, <5>2, <5>3
      <4>2. CASE k \notin s
        <5>1. s \in SUBSET (1..(k - 1)) /\ s \ {Max(s)} \in SUBSET (1..k)
              /\ k \notin s \ {Max(s)}
          BY <2>2, <4>2
        <5>2. g[s] = f[s] /\ g[s \ {Max(s)}] = f[s \ {Max(s)}]
          BY <4>2, <5>1
        <5> HIDE DEF g
        <5>3. f[s] = IF s = {} THEN base ELSE FoldStep(what, f[s \ {Max(s)}], items[Max(s)])
          BY <2>3, <5>1 DEF Folds
        <5> QED  BY <5>2, <5>3
      <4> QED  BY <4>1, <4>2
    <3>2. g = [s \in SUBSET (1..k) |-> g[s]]
      OBVIOUS
    <3> HIDE DEF g
    <3>3. Folds(g, what, base, items, k)
      BY <3>1, <3>2 DEF Folds
    <3> QED  BY <3>3
  <2> QED  BY <2>2, <2>3
<1>2. T = {}
  BY <1>1, NoneIsLeast
<1> QED
  BY <1>2

\* The function FoldLeft chooses goes up one item at a time.
GoesUp(R, what, base, items, n) ==
  /\ R[1..0] = base
  /\ \A k \in 1..n : R[1..k] = FoldStep(what, R[1..(k - 1)], items[k])

\* It takes the items in their order.
LEMMA FoldGoesUp ==
  ASSUME NEW R, NEW what, NEW base, NEW items, NEW n \in Nat, Folds(R, what, base, items, n)
  PROVE  GoesUp(R, what, base, items, n)
<1>1. \A s \in SUBSET (1..n) :
        R[s] = IF s = {} THEN base ELSE FoldStep(what, R[s \ {Max(s)}], items[Max(s)])
  BY DEF Folds
<1>2. ASSUME NEW k \in 1..n
      PROVE  R[1..k] = FoldStep(what, R[1..(k - 1)], items[k])
  <2>1. k \in Nat /\ 1..k \in SUBSET (1..n) /\ 1..k \in SUBSET (1..k) /\ k \in 1..k
        /\ (1..k) \ {k} = 1..(k - 1) /\ 1..k # {}
    OBVIOUS
  <2>2. Max(1..k) = k
    BY <2>1, GreatestOf
  <2> QED  BY <1>1, <2>1, <2>2
<1>3. 1..0 = {} /\ {} \in SUBSET (1..n)
  OBVIOUS
<1> QED
  BY <1>1, <1>2, <1>3 DEF GoesUp

\* What `v` becomes with the messages.
Learned(v, messages) == FoldLeft(Learn, v, messages)

Reads(f, v, messages, n) ==
  f = [s \in SUBSET (1..n) |->
         IF s = {} THEN v ELSE Learn(f[s \ {Max(s)}], messages[Max(s)])]

Reading(v, messages) == CHOOSE f : Reads(f, v, messages, Len(messages))

\* Reading is such a function, and what is learned is its value for the whole sequence.
LEMMA ReadToEnd ==
  ASSUME NEW v, NEW messages, NEW n \in Nat, Len(messages) = n, DOMAIN messages = 1..n
  PROVE  /\ Learned(v, messages) = Reading(v, messages)[1..n]
         /\ GoesUp(Reading(v, messages), "reading", v, messages, n)
<1>1. DOMAIN messages = 1..Len(messages)
  OBVIOUS
<1>2. Learned(v, messages) = Reading(v, messages)[1..Len(messages)]
  BY <1>1 DEF Learned, FoldLeft, MapThenFoldSet, Reading, Reads
<1>3. \A f : Reads(f, v, messages, n) <=> Folds(f, "reading", v, messages, n)
  BY DEF Reads, Folds, FoldStep
<1>4. Folds(Reading(v, messages), "reading", v, messages, n)
  BY <1>3, FoldExists DEF Reading
<1> QED
  BY <1>2, <1>4, FoldGoesUp

\* One message after the other.
LEMMA ReadNone == ASSUME NEW v PROVE Learned(v, <<>>) = v
<1>1. Len(<<>>) = 0 /\ DOMAIN <<>> = 1..0
  OBVIOUS
<1>2. Learned(v, <<>>) = Reading(v, <<>>)[1..0] /\ GoesUp(Reading(v, <<>>), "reading", v, <<>>, 0)
  BY <1>1, ReadToEnd
<1> QED
  BY <1>2 DEF GoesUp, FoldStep

\* One message is one change of the view.
LEMMA ReadOne == ASSUME NEW v, NEW m PROVE Learned(v, <<m>>) = Learn(v, m)
<1> DEFINE s == <<m>>
<1>1. Len(s) = 1 /\ DOMAIN s = 1..1 /\ s[1] = m
  OBVIOUS
<1> HIDE DEF s
<1>2. Learned(v, s) = Reading(v, s)[1..1] /\ GoesUp(Reading(v, s), "reading", v, s, 1)
  BY <1>1, ReadToEnd
<1>3. Learned(v, s) = Learn(v, m)
  BY <1>1, <1>2 DEF GoesUp, FoldStep
<1> QED
  BY <1>3 DEF s

\* Two messages, in their order.
LEMMA ReadTwo ==
  ASSUME NEW v, NEW m1, NEW m2
  PROVE  Learned(v, <<m1, m2>>) = Learn(Learn(v, m1), m2)
<1> DEFINE s == <<m1, m2>>
<1>1. Len(s) = 2 /\ DOMAIN s = 1..2 /\ s[1] = m1 /\ s[2] = m2
  OBVIOUS
<1> HIDE DEF s
<1>2. Learned(v, s) = Reading(v, s)[1..2] /\ GoesUp(Reading(v, s), "reading", v, s, 2)
  BY <1>1, ReadToEnd
<1>3. Learned(v, s) = Learn(Learn(v, m1), m2)
  BY <1>1, <1>2 DEF GoesUp, FoldStep
<1> QED
  BY <1>3 DEF s

\* Three messages, in their order.
LEMMA ReadThree ==
  ASSUME NEW v, NEW m1, NEW m2, NEW m3
  PROVE  Learned(v, <<m1, m2, m3>>) = Learn(Learn(Learn(v, m1), m2), m3)
<1> DEFINE s == <<m1, m2, m3>>
<1>1. Len(s) = 3 /\ DOMAIN s = 1..3 /\ s[1] = m1 /\ s[2] = m2 /\ s[3] = m3
  OBVIOUS
<1> HIDE DEF s
<1>2. Learned(v, s) = Reading(v, s)[1..3] /\ GoesUp(Reading(v, s), "reading", v, s, 3)
  BY <1>1, ReadToEnd
<1>3. Learned(v, s) = Learn(Learn(Learn(v, m1), m2), m3)
  BY <1>1, <1>2 DEF GoesUp, FoldStep
<1> QED
  BY <1>3 DEF s
-----------------------------------------------------------------------------
(* What the handlers send, connection by connection. *)

\* A message joins what goes to its connection, if that is open.
LEMMA SendIs ==
  ASSUME NEW out, DOMAIN out = Connections, NEW open, NEW conn, NEW m
  PROVE  /\ DOMAIN Send(out, open, conn, m) = Connections
         /\ \A c \in Connections :
              Send(out, open, conn, m)[c]
                = IF c = conn /\ c \in open THEN Append(out[c], m) ELSE out[c]
BY DEF Send

\* Nothing is sent to anybody.
LEMMA SilenceIs == DOMAIN Silence = Connections /\ \A c \in Connections : Silence[c] = <<>>
BY DEF Silence

\* A reply goes to whoever asked.
LEMMA ReplyIs ==
  ASSUME NEW conn \in connections \ shutdown, conn \in Connections, NEW m
  PROVE  /\ DOMAIN Reply(conn, m) = Connections
         /\ \A c \in Connections : Reply(conn, m)[c] = IF c = conn THEN <<m>> ELSE <<>>
<1>1. Append(<<>>, m) = <<m>>
  OBVIOUS
<1>2. /\ DOMAIN Send(Silence, connections \ shutdown, conn, m) = Connections
      /\ \A c \in Connections :
           Send(Silence, connections \ shutdown, conn, m)[c]
             = IF c = conn /\ c \in connections \ shutdown THEN Append(Silence[c], m)
                                                         ELSE Silence[c]
  BY SilenceIs, SendIs
<1> QED
  BY <1>1, <1>2, SilenceIs DEF Reply

\* The player on the connection.
PlaysOn(S, c, user) == HasSession(S, c) /\ SessionOn(S, c).userId = user

\* A message to a player goes to the connection his session is on.
LEMMA WhereIs ==
  ASSUME NEW S, SessionsOK(S), NEW user, user \in DOMAIN S.connectionByUserId
  PROVE  \A c : c = ConnectionOf(S, user) <=> PlaysOn(S, c, user)
BY DEF SessionsOK, AreInverse, PlaysOn, HasSession

\* Two messages to two players each go to the connection of its player.
LEMMA SendBothIs ==
  ASSUME NEW S, SessionsOK(S), NEW out, DOMAIN out = Connections, NEW open,
         NEW first, NEW second, first # second,
         first \in DOMAIN S.connectionByUserId, second \in DOMAIN S.connectionByUserId,
         NEW forFirst, NEW forSecond
  PROVE  LET new == SendBoth(out, open, S, first, second, forFirst, forSecond) IN
         /\ DOMAIN new = Connections
         /\ \A c \in Connections :
              new[c] = IF c \in open /\ PlaysOn(S, c, first) THEN Append(out[c], forFirst)
                       ELSE IF c \in open /\ PlaysOn(S, c, second) THEN Append(out[c], forSecond)
                       ELSE out[c]
<1> DEFINE c1 == ConnectionOf(S, first)
           c2 == ConnectionOf(S, second)
           mid == Send(out, open, c1, forFirst)
           new == Send(mid, open, c2, forSecond)
<1>1. /\ \A c : c = c1 <=> PlaysOn(S, c, first)
      /\ \A c : c = c2 <=> PlaysOn(S, c, second)
  BY WhereIs
<1>2. c1 # c2
  BY <1>1 DEF PlaysOn
<1> HIDE DEF c1, c2
<1>3. /\ DOMAIN mid = Connections
      /\ \A c \in Connections :
           mid[c] = IF c = c1 /\ c \in open THEN Append(out[c], forFirst) ELSE out[c]
  BY SendIs
<1> HIDE DEF mid
<1>4. /\ DOMAIN new = Connections
      /\ \A c \in Connections :
           new[c] = IF c = c2 /\ c \in open THEN Append(mid[c], forSecond) ELSE mid[c]
  BY <1>3, SendIs
<1> HIDE DEF new
<1>5. \A c \in Connections :
        new[c] = IF c \in open /\ PlaysOn(S, c, first) THEN Append(out[c], forFirst)
                 ELSE IF c \in open /\ PlaysOn(S, c, second) THEN Append(out[c], forSecond)
                 ELSE out[c]
  BY <1>1, <1>2, <1>3, <1>4
<1> QED
  BY <1>4, <1>5 DEF SendBoth, new, mid, c1, c2
\* What a player of the battle is sent, from his own side.
StartFor(id, room, user) ==
  IF user = room.firstUserId
    THEN [type |-> "BATTLE_START_NTF", roomId |-> id, own |-> room.firstHero,
          opponent |-> room.secondHero]
    ELSE [type |-> "BATTLE_START_NTF", roomId |-> id, own |-> room.secondHero,
          opponent |-> room.firstHero]

StateFor(id, state, user) ==
  IF user = state.firstUserId
    THEN [type |-> "BATTLE_STATE_NTF", roomId |-> id, own |-> state.firstHealth,
          opponent |-> state.secondHealth, yourTurn |-> state.activeUserId = user]
    ELSE [type |-> "BATTLE_STATE_NTF", roomId |-> id, own |-> state.secondHealth,
          opponent |-> state.firstHealth, yourTurn |-> state.activeUserId = user]

ResultFor(id, state, user, elo) ==
  [type |-> "BATTLE_RESULT_NTF", roomId |-> id, won |-> state.winnerUserId = user, elo |-> elo]

UserOn(S, c) == SessionOn(S, c).userId

\* `pair` is a room or a battle: the connection's player is one of the two.
Plays(S, c, pair) == HasSession(S, c) /\ UserOn(S, c) \in {pair.firstUserId, pair.secondUserId}

BothOnline(S, pair) ==
  /\ pair.firstUserId # pair.secondUserId
  /\ {pair.firstUserId, pair.secondUserId} \subseteq DOMAIN S.connectionByUserId

\* The start of a battle goes to both players, to each from his own side.
LEMMA BattleStartIs ==
  ASSUME NEW S, SessionsOK(S), NEW out, DOMAIN out = Connections, NEW open,
         NEW id, NEW room, BothOnline(S, room)
  PROVE  LET new == SendBattleStart(out, open, S, id, room) IN
         /\ DOMAIN new = Connections
         /\ \A c \in Connections :
              new[c] = IF c \in open /\ Plays(S, c, room)
                         THEN Append(out[c], StartFor(id, room, UserOn(S, c))) ELSE out[c]
<1> DEFINE Start(own, opponent) ==
             [type |-> "BATTLE_START_NTF", roomId |-> id, own |-> own, opponent |-> opponent]
           a == Start(room.firstHero, room.secondHero)
           b == Start(room.secondHero, room.firstHero)
           new == SendBoth(out, open, S, room.firstUserId, room.secondUserId, a, b)
<1>1. \A user : StartFor(id, room, user) = IF user = room.firstUserId THEN a ELSE b
  BY DEF StartFor
<1>2. new = SendBattleStart(out, open, S, id, room)
  BY DEF SendBattleStart
<1> HIDE DEF a, b
<1>3. /\ DOMAIN new = Connections
      /\ \A c \in Connections :
           new[c] = IF c \in open /\ PlaysOn(S, c, room.firstUserId) THEN Append(out[c], a)
                    ELSE IF c \in open /\ PlaysOn(S, c, room.secondUserId)
                           THEN Append(out[c], b)
                    ELSE out[c]
  BY SendBothIs DEF BothOnline
<1> HIDE DEF new
<1>4. \A c \in Connections :
        new[c] = IF c \in open /\ Plays(S, c, room)
                   THEN Append(out[c], StartFor(id, room, UserOn(S, c))) ELSE out[c]
  BY <1>1, <1>3 DEF PlaysOn, Plays, UserOn, BothOnline
<1> QED
  BY <1>2, <1>3, <1>4

\* So does the state of a battle.
LEMMA BattleStateIs ==
  ASSUME NEW S, SessionsOK(S), NEW out, DOMAIN out = Connections, NEW open,
         NEW id, NEW state, BothOnline(S, state)
  PROVE  LET new == SendBattleState(out, open, S, id, state) IN
         /\ DOMAIN new = Connections
         /\ \A c \in Connections :
              new[c] = IF c \in open /\ Plays(S, c, state)
                         THEN Append(out[c], StateFor(id, state, UserOn(S, c))) ELSE out[c]
<1> DEFINE State(own, opponent, user) ==
             [type |-> "BATTLE_STATE_NTF", roomId |-> id, own |-> own,
              opponent |-> opponent, yourTurn |-> state.activeUserId = user]
           a == State(state.firstHealth, state.secondHealth, state.firstUserId)
           b == State(state.secondHealth, state.firstHealth, state.secondUserId)
           new == SendBoth(out, open, S, state.firstUserId, state.secondUserId, a, b)
<1>1. /\ StateFor(id, state, state.firstUserId) = a
      /\ state.firstUserId # state.secondUserId => StateFor(id, state, state.secondUserId) = b
  BY DEF StateFor
<1>2. new = SendBattleState(out, open, S, id, state)
  BY DEF SendBattleState
<1> HIDE DEF a, b
<1>3. /\ DOMAIN new = Connections
      /\ \A c \in Connections :
           new[c] = IF c \in open /\ PlaysOn(S, c, state.firstUserId) THEN Append(out[c], a)
                    ELSE IF c \in open /\ PlaysOn(S, c, state.secondUserId)
                           THEN Append(out[c], b)
                    ELSE out[c]
  BY SendBothIs DEF BothOnline
<1> HIDE DEF new
<1>4. \A c \in Connections :
        new[c] = IF c \in open /\ Plays(S, c, state)
                   THEN Append(out[c], StateFor(id, state, UserOn(S, c))) ELSE out[c]
  BY <1>1, <1>3 DEF PlaysOn, Plays, UserOn, BothOnline
<1> QED
  BY <1>2, <1>3, <1>4

\* So does the result, with the ELO of the session at that moment.
LEMMA BattleResultIs ==
  ASSUME NEW S, SessionsOK(S), NEW out, DOMAIN out = Connections, NEW open,
         NEW id, NEW state, BothOnline(S, state)
  PROVE  LET new == SendBattleResult(out, open, S, id, state) IN
         /\ DOMAIN new = Connections
         /\ \A c \in Connections :
              new[c] = IF c \in open /\ Plays(S, c, state)
                         THEN Append(out[c], ResultFor(id, state, UserOn(S, c),
                                                       SessionOn(S, c).elo)) ELSE out[c]
<1> DEFINE first == state.firstUserId
           second == state.secondUserId
           c1 == ConnectionOf(S, first)
           c2 == ConnectionOf(S, second)
           a == ResultFor(id, state, first, SessionOn(S, c1).elo)
           b == ResultFor(id, state, second, SessionOn(S, c2).elo)
           new == SendBoth(out, open, S, first, second, a, b)
<1>1. /\ \A c : c = c1 <=> PlaysOn(S, c, first)
      /\ \A c : c = c2 <=> PlaysOn(S, c, second)
  BY WhereIs DEF BothOnline
<1>2. HasSession(S, c1) /\ HasSession(S, c2)
  BY <1>1 DEF PlaysOn
<1>3. new = SendBattleResult(out, open, S, id, state)
  BY <1>2 DEF SendBattleResult, SendBoth, ResultFor
<1> HIDE DEF a, b, c1, c2
<1>4. /\ DOMAIN new = Connections
      /\ \A c \in Connections :
           new[c] = IF c \in open /\ PlaysOn(S, c, first) THEN Append(out[c], a)
                    ELSE IF c \in open /\ PlaysOn(S, c, second) THEN Append(out[c], b)
                    ELSE out[c]
  BY SendBothIs DEF BothOnline
<1> HIDE DEF new
<1>5. \A c \in Connections :
        new[c] = IF c \in open /\ Plays(S, c, state)
                   THEN Append(out[c], ResultFor(id, state, UserOn(S, c), SessionOn(S, c).elo))
                   ELSE out[c]
  BY <1>1, <1>4 DEF PlaysOn, Plays, UserOn, BothOnline, a, b
<1> QED
  BY <1>3, <1>4, <1>5
-----------------------------------------------------------------------------
(* What the end of a tick sends. *)

Posting == CHOOSE f : Folds(f, "telling", Silence, events, Len(events))

\* The fold of processMatchmakingTick goes through the events in their order.
LEMMA PostingIs ==
  ASSUME NEW n \in Nat, Len(events) = n, DOMAIN events = 1..n
  PROVE  MatchFoundMessages = Posting[1..n] /\ GoesUp(Posting, "telling", Silence, events, n)
<1> DEFINE Posts(f) ==
      f = [s \in SUBSET (1..Len(events)) |->
             IF s = {} THEN Silence
             ELSE SendMatchFound(f[s \ {Max(s)}], sessions, events[Max(s)])]
<1>1. DOMAIN events = 1..Len(events)
  OBVIOUS
<1>2. MatchFoundMessages = (CHOOSE f : Posts(f))[1..Len(events)]
  BY <1>1 DEF MatchFoundMessages, FoldLeft, MapThenFoldSet
<1>3. \A f : Posts(f) <=> Folds(f, "telling", Silence, events, Len(events))
  BY DEF Folds, FoldStep
<1> HIDE DEF Posts
<1>4. (CHOOSE f : Posts(f)) = Posting
  BY <1>3 DEF Posting
<1>5. Folds(Posting, "telling", Silence, events, n)
  BY FoldExists DEF Posting
<1> QED
  BY <1>2, <1>4, <1>5, FoldGoesUp

\* The room of an event is as the tick made it.
JustMet(event, R) ==
  LET room == R.rooms[event.roomId] IN
  /\ event.roomId \in DOMAIN R.rooms
  /\ room.firstUserId = event.first /\ room.secondUserId = event.second
  /\ room.firstHero = NoHero /\ room.secondHero = NoHero

\* The events of a tick are about different rooms, in which nothing has happened yet.
EventsMatch ==
  /\ events \in Seq([roomId : Nat, first : UserIds, second : UserIds])
  /\ ~ticking => events = <<>>
  /\ \A i \in DOMAIN events : JustMet(events[i], roomService)
  /\ \A i, j \in DOMAIN events : events[i].roomId = events[j].roomId => i = j

\* The player of the session has been put in a room by this tick.
Invited(session) == \E i \in DOMAIN events : events[i].roomId = session.roomId

InvitedBy(n, session) == \E i \in 1..n : events[i].roomId = session.roomId

\* On the way to whoever has been invited is one notification, and nothing else.
InvitationsSent(out, n) ==
  /\ DOMAIN out = Connections
  /\ \A c \in Connections :
       IF /\ c \in connections \ shutdown /\ HasSession(sessions, c)
          /\ InvitedBy(n, SessionOn(sessions, c))
         THEN \E m : /\ out[c] = <<m>> /\ m.type = "MATCH_FOUND_NTF"
                     /\ m.roomId = SessionOn(sessions, c).roomId
         ELSE out[c] = <<>>

\* Who is in a room is a member of it, and a member is on a connection of his own.
LEMMA InTheRoom ==
  ASSUME BaseInv, Agreement, NEW id \in DOMAIN roomService.rooms
  PROVE  LET room == roomService.rooms[id] IN
         /\ id # NoRoom /\ BothOnline(sessions, room)
         /\ \A c : Plays(sessions, c, room)
                     <=> HasSession(sessions, c) /\ SessionOn(sessions, c).roomId = id
<1> DEFINE room == roomService.rooms[id]
<1>1. id # NoRoom
  BY DEF BaseInv, TypeOK, IsRoomService, IsTable, NoRoom
<1>2. /\ room.firstUserId # room.secondUserId
      /\ \A user \in {room.firstUserId, room.secondUserId} :
           user \in DOMAIN players /\ players[user].roomId = id
      /\ \A user \in DOMAIN players : players[user].roomId = id =>
           user \in {room.firstUserId, room.secondUserId}
  BY <1>1, AgreementOfTables DEF TablesDoAgree, TablesAgree, RoomsMatch, Members
<1>3. \A c : HasSession(sessions, c) =>
        /\ SessionOn(sessions, c).userId \in DOMAIN players
        /\ SessionOn(sessions, c) = players[SessionOn(sessions, c).userId]
  BY PlayersAreSessions
<1> HIDE DEF room
<1>4. \A c : Plays(sessions, c, room)
               <=> HasSession(sessions, c) /\ SessionOn(sessions, c).roomId = id
  BY <1>2, <1>3 DEF Plays, UserOn
<1>5. BothOnline(sessions, room)
  BY <1>2 DEF BothOnline, players, PlayersOf
<1> QED
  BY <1>1, <1>4, <1>5 DEF room

\* One event more.
LEMMA OneInvitation ==
  ASSUME BaseInv, Agreement, EventsMatch, NEW k \in 1..Len(events),
         NEW out, InvitationsSent(out, k - 1)
  PROVE  InvitationsSent(SendMatchFound(out, sessions, events[k]), k)
<1> DEFINE e == events[k]
           room == roomService.rooms[e.roomId]
           open == connections \ shutdown
           Found(user) == [type |-> "MATCH_FOUND_NTF", roomId |-> e.roomId,
                           opponent |-> SessionOn(sessions, ConnectionOf(sessions, user)).userId,
                           opponentElo |-> SessionOn(sessions, ConnectionOf(sessions, user)).elo]
           a == Found(e.second)
           b == Found(e.first)
           new == SendBoth(out, open, sessions, e.first, e.second, a, b)
<1>1. /\ e.roomId \in DOMAIN roomService.rooms
      /\ room.firstUserId = e.first /\ room.secondUserId = e.second
      /\ \A i \in 1..(k - 1) : events[i].roomId # e.roomId
  BY DEF EventsMatch, JustMet
<1>2. /\ BothOnline(sessions, room) /\ SessionsOK(sessions)
      /\ \A c : Plays(sessions, c, room)
                  <=> HasSession(sessions, c) /\ SessionOn(sessions, c).roomId = e.roomId
  BY <1>1, InTheRoom, PlayersAreSessions
<1>3. /\ a.type = "MATCH_FOUND_NTF" /\ a.roomId = e.roomId
      /\ b.type = "MATCH_FOUND_NTF" /\ b.roomId = e.roomId
  OBVIOUS
<1>4. new = SendMatchFound(out, sessions, e)
  <2>1. /\ HasSession(sessions, ConnectionOf(sessions, e.first))
        /\ HasSession(sessions, ConnectionOf(sessions, e.second))
    BY <1>1, <1>2, WhereIs DEF BothOnline, PlaysOn
  <2> QED  BY <2>1 DEF SendMatchFound
<1> HIDE DEF a, b
<1>5. /\ DOMAIN new = Connections
      /\ \A c \in Connections :
           new[c] = IF c \in open /\ PlaysOn(sessions, c, e.first) THEN Append(out[c], a)
                    ELSE IF c \in open /\ PlaysOn(sessions, c, e.second) THEN Append(out[c], b)
                    ELSE out[c]
  <2>1. /\ e.first # e.second /\ DOMAIN out = Connections
        /\ e.first \in DOMAIN sessions.connectionByUserId
        /\ e.second \in DOMAIN sessions.connectionByUserId
    BY <1>1, <1>2 DEF BothOnline, InvitationsSent
  <2> QED  BY <1>2, <2>1, SendBothIs
<1> HIDE DEF new, e, room
<1>6. ASSUME NEW c \in Connections
      PROVE  IF /\ c \in open /\ HasSession(sessions, c)
                /\ InvitedBy(k, SessionOn(sessions, c))
               THEN \E m : /\ new[c] = <<m>> /\ m.type = "MATCH_FOUND_NTF"
                           /\ m.roomId = SessionOn(sessions, c).roomId
               ELSE new[c] = <<>>
  <2>1. InvitedBy(k, SessionOn(sessions, c))
          <=> \/ InvitedBy(k - 1, SessionOn(sessions, c))
              \/ e.roomId = SessionOn(sessions, c).roomId
    <3>1. k \in Nat /\ 1..k = (1..(k - 1)) \cup {k}
      BY DEF EventsMatch
    <3> QED  BY <3>1 DEF InvitedBy, e
  <2>2. Append(<<>>, a) = <<a>> /\ Append(<<>>, b) = <<b>>
    OBVIOUS
  <2>3. CASE c \in open /\ HasSession(sessions, c) /\ e.roomId = SessionOn(sessions, c).roomId
    <3>1. ~InvitedBy(k - 1, SessionOn(sessions, c))
      BY <1>1, <2>3 DEF InvitedBy
    <3>2. out[c] = <<>>
      BY <3>1 DEF InvitationsSent
    <3>3. PlaysOn(sessions, c, e.first) \/ PlaysOn(sessions, c, e.second)
      BY <1>1, <1>2, <2>3 DEF Plays, PlaysOn, UserOn
    <3>4. new[c] = <<a>> \/ new[c] = <<b>>
      BY <1>5, <2>2, <2>3, <3>2, <3>3
    <3> QED
      BY <1>3, <2>1, <2>3, <3>4
  <2>4. CASE ~(c \in open /\ HasSession(sessions, c) /\ e.roomId = SessionOn(sessions, c).roomId)
    <3>1. ~(c \in open /\ (PlaysOn(sessions, c, e.first) \/ PlaysOn(sessions, c, e.second)))
      BY <1>1, <1>2, <2>4 DEF Plays, PlaysOn, UserOn
    <3>2. new[c] = out[c]
      BY <1>5, <3>1
    <3> QED
      BY <2>1, <2>4, <3>2 DEF InvitationsSent
  <2> QED
    BY <2>3, <2>4
<1> QED
  BY <1>4, <1>5, <1>6 DEF InvitationsSent, e

\* At the end of the tick both players of each event have been sent their invitation.
LEMMA InvitationsAreSent ==
  ASSUME BaseInv, Agreement, EventsMatch
  PROVE  InvitationsSent(MatchFoundMessages, Len(events))
<1> DEFINE n == Len(events)
           T == {k \in Nat : k <= n /\ ~InvitationsSent(Posting[1..k], k)}
<1>1. n \in Nat /\ DOMAIN events = 1..n
  BY DEF EventsMatch
<1>2. MatchFoundMessages = Posting[1..n] /\ GoesUp(Posting, "telling", Silence, events, n)
  BY <1>1, PostingIs
<1> HIDE DEF n
<1>3. ASSUME NEW k \in T PROVE \E m \in T : m < k
  <2>1. k # 0
    <3>1. 1..0 = {} /\ Posting[1..0] = Silence
      BY <1>2 DEF GoesUp
    <3>2. InvitationsSent(Silence, 0)
      BY <3>1, SilenceIs DEF InvitationsSent, InvitedBy
    <3> QED  BY <3>1, <3>2
  <2>2. k - 1 \in Nat /\ k - 1 < k /\ k \in 1..n
    BY <1>1, <2>1
  <2>3. Posting[1..k] = SendMatchFound(Posting[1..(k - 1)], sessions, events[k])
    BY <1>2, <2>2 DEF GoesUp, FoldStep
  <2>4. InvitationsSent(Posting[1..(k - 1)], k - 1) => InvitationsSent(Posting[1..k], k)
    BY <2>2, <2>3, OneInvitation DEF n
  <2> QED  BY <1>1, <2>2, <2>4
<1>4. T = {}
  BY <1>3, NoneIsLeast
<1> QED
  BY <1>1, <1>2, <1>4 DEF n

-----------------------------------------------------------------------------
(* What a player should see, and what he is told. *)

Shown(scene, id, elo, health, turn) ==
  [scene |-> scene, roomId |-> id, elo |-> elo, health |-> health, yourTurn |-> turn]

Calm(scene, id, elo) == Shown(scene, id, elo, <<0, 0>>, FALSE)

OwnHero(s, R) ==
  IF s.userId = R.rooms[s.roomId].firstUserId THEN R.rooms[s.roomId].firstHero
                                              ELSE R.rooms[s.roomId].secondHero

Fight(s, state) ==
  Shown("battle", s.roomId, s.elo,
        IF s.userId = state.firstUserId THEN <<state.firstHealth, state.secondHealth>>
                                        ELSE <<state.secondHealth, state.firstHealth>>,
        state.activeUserId = s.userId)

\* The screen that goes with a session. A player whom the present tick has put in a
\* room does not know it yet.
PictureIn(s, invited, T, R, B) ==
  IF invited \/ s.userId \in DOMAIN T THEN Calm("queued", NoRoom, s.elo)
  ELSE IF s.roomId = NoRoom THEN Calm("lobby", NoRoom, s.elo)
  ELSE IF s.roomId \in DOMAIN B THEN Fight(s, B[s.roomId])
  ELSE IF OwnHero(s, R) = NoHero THEN Calm("heroSelect", s.roomId, s.elo)
  ELSE Calm("heroConfirmed", s.roomId, s.elo)

Picture(c) ==
  IF HasSession(sessions, c)
    THEN PictureIn(SessionOn(sessions, c), Invited(SessionOn(sessions, c)),
                   tickets, roomService, battles)
    ELSE LoggedOut

\* A message the server may send to one who sees P.
May(P, m) ==
  \/ m.type = "REGISTER_RSP"
  \/ m.type = "LOGIN_RSP" /\ (m.accepted => P.scene = "login")
  \/ m.type = "MATCH_JOIN_RSP" /\ (m.accepted => P.scene = "lobby")
  \/ m.type = "MATCH_CANCEL_RSP" /\ (m.accepted <=> P.scene = "queued")
  \/ m.type = "HERO_SELECT_RSP" /\ (m.accepted => P.scene = "heroSelect")
  \/ m.type = "MATCH_FOUND_NTF" /\ P.scene = "queued"
  \/ /\ m.type = "ROOM_CLOSED_NTF" /\ m.roomId = P.roomId
     /\ P.scene \in {"heroSelect", "heroConfirmed"}
  \/ m.type = "BATTLE_START_NTF" /\ m.roomId = P.roomId /\ P.scene = "heroConfirmed"
  \/ /\ m.type = "BATTLE_STATE_NTF" /\ m.roomId = P.roomId /\ P.scene = "battle"
     /\ m.yourTurn \in BOOLEAN /\ (m.yourTurn => ~P.yourTurn)
  \/ m.type = "BATTLE_RESULT_NTF" /\ m.roomId = P.roomId /\ P.scene = "battle"

\* The notification of what others do. Nobody else moves while it is his turn.
News(P, m) ==
  /\ m.type \in {"MATCH_FOUND_NTF", "ROOM_CLOSED_NTF", "BATTLE_START_NTF",
                 "BATTLE_STATE_NTF", "BATTLE_RESULT_NTF"}
  /\ m.type = "BATTLE_STATE_NTF" => ~P.yourTurn
  /\ May(P, m)

\* The first message that answers a request: a response, or the blow on the screen.
Answers(request, P, m) ==
  IF request = "malformed"
    THEN m.type \in {"MATCH_JOIN_RSP", "MATCH_CANCEL_RSP"} /\ ~m.accepted
    ELSE /\ \/ request = "REGISTER_REQ" /\ m.type = "REGISTER_RSP"
            \/ request = "LOGIN_REQ" /\ m.type = "LOGIN_RSP"
            \/ request = "MATCH_JOIN_REQ" /\ m.type = "MATCH_JOIN_RSP"
            \/ request = "MATCH_CANCEL_REQ" /\ m.type = "MATCH_CANCEL_RSP"
            \/ request = "HERO_SELECT_REQ" /\ m.type = "HERO_SELECT_RSP"
            \/ request = "BATTLE_ATTACK_REQ" /\ m.type = "BATTLE_STATE_NTF" /\ P.yourTurn
         /\ May(P, m)

Opens(request, P, m) == IF request = "none" THEN News(P, m) ELSE Answers(request, P, m)

\* The messages lead from P to Q; `request` is what they answer.
Story1(request, P, ms, Q) ==
  \E m : ms = <<m>> /\ Opens(request, P, m) /\ Q = Learn(P, m)
Story2(request, P, ms, Q) ==
  \E m, n : LET X == Learn(P, m) IN
    ms = <<m, n>> /\ Opens(request, P, m) /\ News(X, n) /\ Q = Learn(X, n)
Story3(request, P, ms, Q) ==
  \E m, n, o : LET X == Learn(P, m)
                   Y == Learn(X, n)
               IN  /\ ms = <<m, n, o>> /\ Opens(request, P, m)
                   /\ News(X, n) /\ News(Y, o) /\ Q = Learn(Y, o)
Story(request, P, ms, Q) ==
  \/ request = "none" /\ ms = <<>> /\ Q = P
  \/ Story1(request, P, ms, Q) \/ Story2(request, P, ms, Q) \/ Story3(request, P, ms, Q)

\* What the step changes for the player on c he is told, if his connection is open.
Tells(request, c) ==
  \E ms : /\ Story(request, Picture(c), ms, Picture(c)')
          /\ sent'[c] = IF c \in connections \ shutdown THEN ms ELSE <<>>

\* One message.
LEMMA TellsOne ==
  ASSUME NEW request, NEW c, NEW m, Opens(request, Picture(c), m),
         Picture(c)' = Learn(Picture(c), m),
         sent'[c] = IF c \in connections \ shutdown THEN <<m>> ELSE <<>>
  PROVE  Tells(request, c)
BY DEF Tells, Story, Story1

\* A response and a notification, or two notifications.
LEMMA TellsTwo ==
  ASSUME NEW request, NEW c, NEW m, NEW n, NEW X, Opens(request, Picture(c), m),
         X = Learn(Picture(c), m), News(X, n), Picture(c)' = Learn(X, n),
         sent'[c] = IF c \in connections \ shutdown THEN <<m, n>> ELSE <<>>
  PROVE  Tells(request, c)
BY DEF Tells, Story, Story2

\* The same and one notification more.
LEMMA TellsThree ==
  ASSUME NEW request, NEW c, NEW m, NEW n, NEW o, NEW X, NEW Y,
         Opens(request, Picture(c), m), X = Learn(Picture(c), m), News(X, n),
         Y = Learn(X, n), News(Y, o), Picture(c)' = Learn(Y, o),
         sent'[c] = IF c \in connections \ shutdown THEN <<m, n, o>> ELSE <<>>
  PROVE  Tells(request, c)
BY DEF Tells, Story, Story3

\* What the messages of a story do, read one after the other.
LEMMA StoryIsRead ==
  ASSUME NEW request, NEW P, NEW ms, NEW Q, Story(request, P, ms, Q)
  PROVE  Learned(P, ms) = Q
BY ReadNone, ReadOne, ReadTwo, ReadThree DEF Story, Story1, Story2, Story3

\* A match: the choice of heroes in the room named.
LEMMA SeeFound ==
  ASSUME NEW scene, NEW id, NEW elo, NEW m, m.type = "MATCH_FOUND_NTF"
  PROVE  Learn(Calm(scene, id, elo), m) = Calm("heroSelect", m.roomId, elo)
BY DEF Learn, Shown, Calm, InLobby

\* A closed room: the lobby.
LEMMA SeeClosed ==
  ASSUME NEW scene, NEW id, NEW elo, NEW m, m.type = "ROOM_CLOSED_NTF"
  PROVE  Learn(Calm(scene, id, elo), m) = Calm("lobby", NoRoom, elo)
BY DEF Learn, Shown, Calm, InLobby

\* The start of a battle: its scene, but no figures yet.
LEMMA SeeStart ==
  ASSUME NEW scene, NEW id, NEW elo, NEW m, m.type = "BATTLE_START_NTF"
  PROVE  Learn(Calm(scene, id, elo), m) = Calm("battle", m.roomId, elo)
BY DEF Learn, Shown, Calm, InLobby

\* A login: the lobby, with the ELO of the account.
LEMMA SeeLogin ==
  ASSUME NEW scene, NEW id, NEW elo, NEW m, m.type = "LOGIN_RSP", m.accepted
  PROVE  Learn(Calm(scene, id, elo), m) = Calm("lobby", NoRoom, m.elo)
BY DEF Learn, Shown, Calm, InLobby

\* The queue.
LEMMA SeeJoin ==
  ASSUME NEW scene, NEW id, NEW elo, NEW m, m.type = "MATCH_JOIN_RSP", m.accepted
  PROVE  Learn(Calm(scene, id, elo), m) = Calm("queued", id, elo)
BY DEF Learn, Shown, Calm, InLobby

\* The lobby again.
LEMMA SeeCancel ==
  ASSUME NEW scene, NEW id, NEW elo, NEW m, m.type = "MATCH_CANCEL_RSP", m.accepted
  PROVE  Learn(Calm(scene, id, elo), m) = Calm("lobby", id, elo)
BY DEF Learn, Shown, Calm, InLobby

\* The hero confirmed.
LEMMA SeeHero ==
  ASSUME NEW scene, NEW id, NEW elo, NEW m, m.type = "HERO_SELECT_RSP", m.accepted
  PROVE  Learn(Calm(scene, id, elo), m) = Calm("heroConfirmed", id, elo)
BY DEF Learn, Shown, Calm, InLobby

\* The figures of a battle, the first time.
LEMMA SeeFight ==
  ASSUME NEW s, NEW state
  PROVE  Learn(Calm("battle", s.roomId, s.elo), StateFor(s.roomId, state, s.userId)) = Fight(s, state)
BY DEF Learn, Shown, Calm, Fight, StateFor

\* The figures later.
LEMMA SeeBlow ==
  ASSUME NEW s, NEW old, NEW state
  PROVE  Learn(Fight(s, old), StateFor(s.roomId, state, s.userId)) = Fight(s, state)
BY DEF Learn, Shown, Fight, StateFor

\* The result: the lobby, with the new ELO.
LEMMA SeeResult ==
  ASSUME NEW s, NEW state, NEW m, m.type = "BATTLE_RESULT_NTF"
  PROVE  Learn(Fight(s, state), m) = Calm("lobby", NoRoom, m.elo)
BY DEF Learn, Shown, Calm, Fight, InLobby

\* A refusal changes nothing.
LEMMA LearnNothing ==
  ASSUME NEW P, NEW m,
         \/ m.type = "REGISTER_RSP"
         \/ /\ m.type \in {"LOGIN_RSP", "MATCH_JOIN_RSP", "MATCH_CANCEL_RSP", "HERO_SELECT_RSP"}
            /\ ~m.accepted
  PROVE  Learn(P, m) = P
BY DEF Learn

\* Nothing in the tables that the player's screen depends on changes.
Stands(c) ==
  LET s == SessionOn(sessions, c) IN
  /\ HasSession(sessions', c) <=> HasSession(sessions, c)
  /\ HasSession(sessions, c) =>
       /\ SessionOn(sessions', c) = s
       /\ s.userId \in DOMAIN tickets' <=> s.userId \in DOMAIN tickets
       /\ s.roomId # NoRoom =>
            /\ OwnHero(s, roomService') = OwnHero(s, roomService)
            /\ s.roomId \in DOMAIN battles' <=> s.roomId \in DOMAIN battles
            /\ s.roomId \in DOMAIN battles => battles'[s.roomId] = battles[s.roomId]

\* Then the screen stands still too.
LEMMA Onlooker ==
  ASSUME NEW c, Stands(c),
         HasSession(sessions, c) =>
           ((\E i \in DOMAIN events' : events'[i].roomId = SessionOn(sessions, c).roomId)
              <=> Invited(SessionOn(sessions, c)))
  PROVE  Picture(c)' = Picture(c)
<1>1. CASE ~HasSession(sessions, c)
  BY <1>1 DEF Picture, Stands
<1>2. CASE HasSession(sessions, c)
  <2> DEFINE s == SessionOn(sessions, c)
  <2>1. HasSession(sessions', c) /\ SessionOn(sessions', c) = s
    BY <1>2 DEF Stands
  <2>2. (\E i \in DOMAIN events' : events'[i].roomId = s.roomId) <=> Invited(s)
    BY <1>2
  <2>3. PictureIn(s, Invited(s), tickets', roomService', battles')
          = PictureIn(s, Invited(s), tickets, roomService, battles)
    BY <1>2 DEF Stands, PictureIn, OwnHero
  <2>4. Picture(c)' = PictureIn(s, (\E i \in DOMAIN events' : events'[i].roomId = s.roomId),
                                tickets', roomService', battles')
    BY <2>1 DEF Picture, Invited
  <2> HIDE DEF s
  <2> QED  BY <1>2, <2>2, <2>3, <2>4 DEF Picture, s, PictureIn
<1> QED
  BY <1>1, <1>2

\* Who sees no change and is sent nothing has nothing to be told.
LEMMA Bystander ==
  ASSUME NEW c, Stands(c), UNCHANGED events, sent'[c] = <<>>
  PROVE  Tells("none", c)
<1>1. Picture(c)' = Picture(c)
  BY Onlooker DEF Invited
<1> QED
  BY <1>1 DEF Tells, Story

\* A handler that writes no table concerns nobody.
LEMMA TablesStand ==
  ASSUME UNCHANGED <<sessions, queue, roomService, battles>>, NEW c
  PROVE  Stands(c)
BY DEF Stands, tickets, OwnHero

\* Between ticks nobody is invited.
LEMMA NobodyIsInvited == ASSUME EventsMatch, ~ticking PROVE \A s : ~Invited(s)
<1>1. events = <<>> /\ DOMAIN <<>> = {}
  BY DEF EventsMatch
<1> QED
  BY <1>1 DEF Invited

\* The picture after a step outside the tick.
LEMMA PictureAfter ==
  ASSUME NEW c, EventsMatch, ~ticking, UNCHANGED events,
         HasSession(sessions', c), NEW s, s = SessionOn(sessions', c)
  PROVE  Picture(c)' = PictureIn(s, FALSE, tickets', roomService', battles')
<1>1. ~\E i \in DOMAIN events' : events'[i].roomId = s.roomId
  BY NobodyIsInvited DEF Invited
<1>2. Picture(c)' = PictureIn(s, (\E i \in DOMAIN events' : events'[i].roomId = s.roomId),
                              tickets', roomService', battles')
  BY DEF Picture, Invited
<1> QED
  BY <1>1, <1>2 DEF PictureIn

\* The picture before it.
LEMMA PictureBefore ==
  ASSUME NEW c, EventsMatch, ~ticking, HasSession(sessions, c)
  PROVE  Picture(c) = PictureIn(SessionOn(sessions, c), FALSE, tickets, roomService, battles)
<1>1. ~Invited(SessionOn(sessions, c))
  BY NobodyIsInvited
<1> QED
  BY <1>1 DEF Picture, PictureIn

\* Everybody is told; what the player on `conn` is told answers his request.
Everybody(request, conn) ==
  \A c \in Connections : Tells(IF c = conn THEN request ELSE "none", c)

\* A handler that answers a request tells its sender alone.
LEMMA AnswerSent ==
  ASSUME NEW conn \in Connections, Receives(conn), NEW m, sent' = Reply(conn, m)
  PROVE  /\ \A c \in Connections : sent'[c] = IF c = conn THEN <<m>> ELSE <<>>
         /\ conn \in connections \ shutdown
BY ReplyIs DEF Receives

\* Who asks and is refused, or registers, sees what he saw.
LEMMA RefusalTells ==
  ASSUME NEW conn \in Connections, Receives(conn), NEW request, request # "none",
         NEW m, sent' = Reply(conn, m), Answers(request, Picture(conn), m),
         Learn(Picture(conn), m) = Picture(conn),
         UNCHANGED <<sessions, queue, roomService, battles, events>>
  PROVE  Everybody(request, conn)
<1> SUFFICES ASSUME NEW c \in Connections
             PROVE  Tells(IF c = conn THEN request ELSE "none", c)
  BY DEF Everybody
<1>1. /\ sent'[c] = IF c = conn THEN <<m>> ELSE <<>>
      /\ conn \in connections \ shutdown
  BY AnswerSent
<1>2. CASE c # conn
  BY <1>1, <1>2, TablesStand, Bystander
<1>3. CASE c = conn
  <2>1. Stands(c) /\ UNCHANGED events
    BY TablesStand
  <2>2. Picture(c)' = Picture(c)
    BY <2>1, Onlooker DEF Invited
  <2> QED  BY <1>1, <1>3, <2>2, TellsOne DEF Opens
<1> QED
  BY <1>2, <1>3

\* handleLogin: the player sees the lobby with his ELO, or what he saw before.
LEMMA LoginTells ==
  ASSUME BaseInv, Agreement, EventsMatch, NEW conn \in Connections, NEW user,
         HandleLogin(conn, user)
  PROVE  Everybody("LOGIN_REQ", conn)
<1> DEFINE elo == accountRepository.elo[user]
           m == [type |-> "LOGIN_RSP", accepted |-> TRUE, userId |-> user, elo |-> elo]
           success == user \in Registered(accountRepository) /\ CanBind(sessions, conn, user)
<1>1. CASE ~success
  <2> DEFINE no == Response("LOGIN_RSP", FALSE)
  <2>1. sent' = Reply(conn, no) /\ Receives(conn)
        /\ UNCHANGED <<sessions, queue, roomService, battles, events>>
    BY <1>1 DEF HandleLogin
  <2>2. Answers("LOGIN_REQ", Picture(conn), no)
    BY DEF Answers, May, Response
  <2>3. Learn(Picture(conn), no) = Picture(conn)
    BY LearnNothing DEF Response
  <2> HIDE DEF no
  <2> QED  BY <2>1, <2>2, <2>3, RefusalTells
<1>2. CASE success
  <2>1. /\ sent' = Reply(conn, m) /\ Receives(conn)
        /\ sessions' = Bind(sessions, conn, NewSession(user, elo))
        /\ UNCHANGED <<queue, roomService, battles, events>>
    BY <1>2 DEF HandleLogin
  <2> SUFFICES ASSUME NEW c \in Connections
               PROVE  Tells(IF c = conn THEN "LOGIN_REQ" ELSE "none", c)
    BY DEF Everybody
  <2>2. /\ sent'[c] = IF c = conn THEN <<m>> ELSE <<>>
        /\ conn \in connections \ shutdown
    BY <2>1, AnswerSent
  <2>3. CASE c # conn
    <3>1. Stands(c)
      BY <2>1, <2>3 DEF Bind, Put, Stands, HasSession, SessionOn, tickets
    <3> QED  BY <2>1, <2>2, <2>3, <3>1, Bystander
  <2>4. CASE c = conn
    <3> DEFINE s == NewSession(user, elo)
    <3>1. HasSession(sessions', c) /\ SessionOn(sessions', c) = s /\ ~HasSession(sessions, c)
      BY <1>2, <2>1, <2>4 DEF Bind, Put, HasSession, SessionOn, CanBind
    <3>2. user \notin DOMAIN tickets /\ tickets' = tickets
      <4>1. user \notin DOMAIN players
        BY <1>2 DEF CanBind, players, PlayersOf
      <4> QED
        BY <2>1, <4>1, AgreementOfTables DEF TablesDoAgree, TablesAgree, QueuedFree, tickets
    <3>3. Picture(c) = Calm("login", NoRoom, 0)
      BY <3>1 DEF Picture, LoggedOut, Calm, Shown
    <3>4. Picture(c)' = PictureIn(s, FALSE, tickets', roomService', battles')
      BY <2>1, <3>1, PictureAfter DEF Receives
    <3>5. Picture(c)' = Calm("lobby", NoRoom, elo)
      BY <3>2, <3>4 DEF PictureIn, NewSession
    <3>6. m.type = "LOGIN_RSP" /\ m.accepted /\ m.elo = elo
      OBVIOUS
    <3> HIDE DEF m
    <3>7. Learn(Picture(c), m) = Calm("lobby", NoRoom, elo)
      BY <3>3, <3>6, SeeLogin
    <3>8. Opens("LOGIN_REQ", Picture(c), m)
      BY <3>3, <3>6 DEF Opens, Answers, May, Calm, Shown
    <3> QED  BY <2>2, <2>4, <3>5, <3>7, <3>8, TellsOne
  <2> QED  BY <2>3, <2>4
<1> QED
  BY <1>1, <1>2

\* handleRegister changes no screen but for the text of a label.
LEMMA RegisterTells ==
  ASSUME NEW conn \in Connections, NEW newName \in BOOLEAN, NEW saved \in BOOLEAN,
         HandleRegister(conn, newName, saved)
  PROVE  Everybody("REGISTER_REQ", conn)
<1> DEFINE m == Response("REGISTER_RSP", newName /\ CanRegister(accountRepository, saved))
<1>1. sent' = Reply(conn, m) /\ Receives(conn)
      /\ UNCHANGED <<sessions, queue, roomService, battles, events>>
  BY DEF HandleRegister
<1>2. m.type = "REGISTER_RSP"
  BY DEF Response
<1> HIDE DEF m
<1>3. Learn(Picture(conn), m) = Picture(conn)
  BY <1>2, LearnNothing
<1>4. Answers("REGISTER_REQ", Picture(conn), m)
  BY <1>2 DEF Answers, May
<1> QED
  BY <1>1, <1>3, <1>4, RefusalTells

\* A session is that of the player it names.
LEMMA SessionsArePlayers ==
  ASSUME NEW S, SessionsOK(S)
  PROVE  \A c : HasSession(S, c) =>
           /\ UserOn(S, c) \in DOMAIN PlayersOf(S)
           /\ PlayersOf(S)[UserOn(S, c)] = SessionOn(S, c)
           /\ ConnectionOf(S, UserOn(S, c)) = c
           /\ \A d : HasSession(S, d) /\ UserOn(S, c) = UserOn(S, d) => c = d
<1> SUFFICES ASSUME NEW c, HasSession(S, c)
             PROVE  /\ UserOn(S, c) \in DOMAIN PlayersOf(S)
                    /\ PlayersOf(S)[UserOn(S, c)] = SessionOn(S, c)
                    /\ ConnectionOf(S, UserOn(S, c)) = c
                    /\ \A d : HasSession(S, d) /\ UserOn(S, c) = UserOn(S, d) => c = d
  OBVIOUS
<1>1. /\ \A d : HasSession(S, d) => ConnectionOf(S, UserOn(S, d)) = d
      /\ c \in Connections /\ NoConnection \notin Connections
  BY ConnectionsAssumption DEF SessionsOK, AreInverse, UserOn, HasSession, IsSessionService, IsTable
<1>2. UserOn(S, c) \in DOMAIN S.connectionByUserId
  BY <1>1 DEF ConnectionOf
<1> QED
  BY <1>1, <1>2 DEF PlayersOf

\* Nobody moves to another connection: the sessions are those of the players there were.
LEMMA SameConnections ==
  ASSUME NEW S, SessionsOK(S), NEW T, SessionsOK(T), T.connectionByUserId = S.connectionByUserId
  PROVE  \A c : /\ HasSession(T, c) <=> HasSession(S, c)
                /\ HasSession(S, c) => /\ UserOn(T, c) = UserOn(S, c)
                                       /\ SessionOn(T, c) = PlayersOf(T)[UserOn(S, c)]
<1>1. ASSUME NEW U, SessionsOK(U), NEW c, HasSession(U, c)
      PROVE  /\ UserOn(U, c) \in DOMAIN U.connectionByUserId
             /\ U.connectionByUserId[UserOn(U, c)] = c
  BY <1>1, SessionsArePlayers DEF PlayersOf, ConnectionOf
<1>2. ASSUME NEW U, SessionsOK(U), NEW user \in DOMAIN U.connectionByUserId
      PROVE  HasSession(U, U.connectionByUserId[user])
             /\ UserOn(U, U.connectionByUserId[user]) = user
  BY <1>2 DEF SessionsOK, AreInverse, ConnectionOf, UserOn
<1>3. \A c : HasSession(S, c) => HasSession(T, c) /\ UserOn(T, c) = UserOn(S, c)
  BY <1>1, <1>2
<1>4. \A c : HasSession(T, c) => HasSession(S, c)
  BY <1>1, <1>2
<1>5. \A c : HasSession(T, c) => SessionOn(T, c) = PlayersOf(T)[UserOn(T, c)]
  BY SessionsArePlayers
<1> QED
  BY <1>3, <1>4, <1>5

\* A player in the lobby who joins or leaves the queue.
LEMMA QueueTells ==
  ASSUME BaseInv, EventsMatch, NEW conn \in Connections, Receives(conn), IsFree(conn),
         NEW request, NEW type, sent' = Reply(conn, Response(type, TRUE)),
         UNCHANGED <<sessions, roomService, battles, events>>,
         DOMAIN tickets' \ {UserOn(sessions, conn)} = DOMAIN tickets \ {UserOn(sessions, conn)},
         \/ /\ request = "MATCH_JOIN_REQ" /\ type = "MATCH_JOIN_RSP"
            /\ UserOn(sessions, conn) \notin DOMAIN tickets
            /\ UserOn(sessions, conn) \in DOMAIN tickets'
         \/ /\ request = "MATCH_CANCEL_REQ" /\ type = "MATCH_CANCEL_RSP"
            /\ UserOn(sessions, conn) \in DOMAIN tickets
            /\ UserOn(sessions, conn) \notin DOMAIN tickets'
  PROVE  Everybody(request, conn)
<1> DEFINE s == SessionOn(sessions, conn)
           m == Response(type, TRUE)
<1> SUFFICES ASSUME NEW c \in Connections
             PROVE  Tells(IF c = conn THEN request ELSE "none", c)
  BY DEF Everybody
<1>1. HasSession(sessions, conn) /\ s.roomId = NoRoom
  BY DEF IsFree
<1>2. /\ sent'[c] = IF c = conn THEN <<m>> ELSE <<>>
      /\ conn \in connections \ shutdown
  BY AnswerSent
<1>3. CASE c # conn
  <2>1. HasSession(sessions, c) => SessionOn(sessions, c).userId # UserOn(sessions, conn)
    BY <1>1, <1>3, PlayersAreSessions, SessionsArePlayers DEF UserOn
  <2>2. Stands(c)
    BY <2>1 DEF Stands, OwnHero
  <2> QED  BY <1>2, <1>3, <2>2, Bystander
<1>4. CASE c = conn
  <2> DEFINE scene(T) == IF UserOn(sessions, conn) \in DOMAIN T THEN "queued" ELSE "lobby"
  <2>1. Picture(c) = Calm(scene(tickets), NoRoom, s.elo)
    <3>1. Picture(c) = PictureIn(s, FALSE, tickets, roomService, battles)
      BY <1>1, <1>4, PictureBefore DEF Receives
    <3> QED  BY <1>1, <3>1 DEF PictureIn, UserOn
  <2>2. Picture(c)' = Calm(scene(tickets'), NoRoom, s.elo)
    <3>1. Picture(c)' = PictureIn(s, FALSE, tickets', roomService', battles')
      BY <1>1, <1>4, PictureAfter DEF Receives
    <3> QED  BY <1>1, <3>1 DEF PictureIn, UserOn
  <2>3. m.type = type /\ m.accepted = TRUE
    BY DEF Response
  <2> HIDE DEF m, s
  <2>4. Opens(request, Picture(c), m)
    BY <2>1, <2>3 DEF Opens, Answers, May, Calm, Shown
  <2>5. Learn(Picture(c), m) = Picture(c)'
    BY <2>1, <2>2, <2>3, SeeJoin, SeeCancel
  <2> QED  BY <1>2, <1>4, <2>4, <2>5, TellsOne
<1> QED
  BY <1>3, <1>4

\* handleMatchJoin.
LEMMA JoinTells ==
  ASSUME BaseInv, EventsMatch, NEW conn \in Connections, NEW wellFormed \in BOOLEAN,
         HandleMatchJoin(conn, wellFormed)
  PROVE  Everybody("MATCH_JOIN_REQ", conn)
<1> DEFINE s == SessionOn(sessions, conn)
           accepted == wellFormed /\ IsFree(conn) /\ ~IsQueued(queue, s.userId)
<1>1. Receives(conn) /\ UNCHANGED <<sessions, roomService, battles, events>>
  BY DEF HandleMatchJoin
<1>2. CASE ~accepted
  <2> DEFINE m == Response("MATCH_JOIN_RSP", FALSE)
  <2>1. UNCHANGED queue /\ sent' = Reply(conn, m)
    BY <1>2 DEF HandleMatchJoin
  <2>2. Learn(Picture(conn), m) = Picture(conn)
    BY LearnNothing DEF Response
  <2>3. Answers("MATCH_JOIN_REQ", Picture(conn), m)
    BY DEF Answers, May, Response
  <2> HIDE DEF m
  <2> QED  BY <1>1, <2>1, <2>2, <2>3, RefusalTells
<1>3. CASE accepted
  <2>1. /\ sent' = Reply(conn, Response("MATCH_JOIN_RSP", TRUE)) /\ IsFree(conn)
        /\ queue' = Join(queue, Ticket(s.userId, s.elo, now))
        /\ UserOn(sessions, conn) \notin DOMAIN tickets
    BY <1>3 DEF HandleMatchJoin, IsQueued, tickets, UserOn
  <2>2. DOMAIN tickets' = DOMAIN tickets \cup {UserOn(sessions, conn)}
    BY <2>1 DEF Join, Ticket, Put, tickets, UserOn
  <2> QED  BY <1>1, <2>1, <2>2, QueueTells
<1> QED
  BY <1>2, <1>3

\* handleMatchCancel.
LEMMA CancelTells ==
  ASSUME BaseInv, Agreement, EventsMatch, NEW conn \in Connections, NEW wellFormed \in BOOLEAN,
         HandleMatchCancel(conn, wellFormed)
  PROVE  Everybody(IF wellFormed THEN "MATCH_CANCEL_REQ" ELSE "malformed", conn)
<1> DEFINE user == SessionOn(sessions, conn).userId
           accepted == wellFormed /\ IsFree(conn) /\ IsQueued(queue, user)
<1>1. Receives(conn) /\ UNCHANGED <<sessions, roomService, battles, events>>
  BY DEF HandleMatchCancel
<1>2. CASE ~accepted
  <2> DEFINE m == Response("MATCH_CANCEL_RSP", FALSE)
             request == IF wellFormed THEN "MATCH_CANCEL_REQ" ELSE "malformed"
  <2>1. UNCHANGED queue /\ sent' = Reply(conn, m)
    BY <1>2 DEF HandleMatchCancel
  <2>2. Learn(Picture(conn), m) = Picture(conn)
    BY LearnNothing DEF Response
  <2>3. m.type = "MATCH_CANCEL_RSP" /\ m.accepted = FALSE
    BY DEF Response
  <2>4. wellFormed => Picture(conn).scene # "queued"
    <3>1. CASE ~HasSession(sessions, conn)
      BY <3>1 DEF Picture, LoggedOut
    <3>2. CASE HasSession(sessions, conn)
      <4> DEFINE s == SessionOn(sessions, conn)
      <4>1. Picture(conn) = PictureIn(s, FALSE, tickets, roomService, battles)
        BY <1>1, <3>2, PictureBefore DEF Receives
      <4>2. wellFormed => user \notin DOMAIN tickets
        <5>1. user \in DOMAIN tickets => s.roomId = NoRoom
          BY <3>2, PlayersAreSessions, AgreementOfTables DEF TablesDoAgree, TablesAgree, QueuedFree
        <5> QED  BY <1>2, <3>2, <5>1 DEF IsFree, IsQueued, tickets
      <4> QED  BY <4>1, <4>2 DEF PictureIn, Calm, Shown, Fight
    <3> QED  BY <3>1, <3>2
  <2> HIDE DEF m
  <2>5. Answers(request, Picture(conn), m) /\ request # "none"
    BY <2>3, <2>4 DEF Answers, May
  <2> QED  BY <1>1, <2>1, <2>2, <2>5, RefusalTells
<1>3. CASE accepted
  <2>1. /\ sent' = Reply(conn, Response("MATCH_CANCEL_RSP", TRUE)) /\ IsFree(conn)
        /\ queue' = RemoveTicket(queue, user) /\ UserOn(sessions, conn) \in DOMAIN tickets
    BY <1>3 DEF HandleMatchCancel, IsQueued, tickets, UserOn
  <2>2. DOMAIN tickets' = DOMAIN tickets \ {UserOn(sessions, conn)}
    <3>1. tickets' = Erase(tickets, user)
      BY <2>1, TicketErased
    <3> QED  BY <3>1 DEF Erase, Restrict, UserOn
  <2>3. Everybody("MATCH_CANCEL_REQ", conn)
    BY <1>1, <2>1, <2>2, QueueTells
  <2> QED  BY <1>3, <2>3
<1> QED
  BY <1>2, <1>3

\* Whoever is in a room is in no queue.
LEMMA InARoom ==
  ASSUME BaseInv, Agreement, NEW c, HasSession(sessions, c)
  PROVE  LET s == SessionOn(sessions, c) IN
         s.roomId # NoRoom =>
           /\ s.userId \notin DOMAIN tickets /\ s.roomId \in DOMAIN roomService.rooms
           /\ Plays(sessions, c, roomService.rooms[s.roomId])
<1> DEFINE s == SessionOn(sessions, c)
<1>1. s.userId \in DOMAIN players /\ s = players[s.userId]
  BY PlayersAreSessions
<1>2. s.roomId # NoRoom => s.userId \notin DOMAIN tickets
  BY <1>1, AgreementOfTables DEF TablesDoAgree, TablesAgree, QueuedFree
<1>3. s.roomId # NoRoom =>
        s.roomId \in DOMAIN roomService.rooms /\ s.userId \in Members(roomService.rooms[s.roomId])
  BY <1>1, AgreementOfTables DEF TablesDoAgree, TablesAgree, RoomsMatch, HasRoom
<1> QED
  BY <1>2, <1>3 DEF Plays, UserOn, Members

\* A message at the end of the few that were sent.
LEMMA Appended ==
  ASSUME NEW a, NEW b, NEW c
  PROVE  /\ Append(<<>>, a) = <<a>> /\ Append(<<a>>, b) = <<a, b>>
         /\ Append(<<a, b>>, c) = <<a, b, c>>
<1>1. Append(<<>>, a) = <<a>>
  OBVIOUS
<1> DEFINE S == {a, b, c}
<1>2. Append(<<a>>, b) = <<a, b>>
  <2> DEFINE s == Append(<<a>>, b)
             t == <<a, b>>
  <2>1. s \in Seq(S) /\ t \in Seq(S)
    OBVIOUS
  <2>2. Len(s) = 2 /\ s[1] = a /\ s[2] = b
    OBVIOUS
  <2>3. Len(t) = 2 /\ t[1] = a /\ t[2] = b
    OBVIOUS
  <2> HIDE DEF s, t
  <2>4. \A i \in 1..Len(s) : s[i] = t[i]
    BY <2>2, <2>3
  <2>5. s = t
    BY <2>1, <2>2, <2>3, <2>4, SeqEqual
  <2> QED  BY <2>5 DEF s, t
<1>3. Append(<<a, b>>, c) = <<a, b, c>>
  <2> DEFINE s == Append(<<a, b>>, c)
             t == <<a, b, c>>
  <2>1. s \in Seq(S) /\ t \in Seq(S)
    OBVIOUS
  <2>2. Len(s) = 3 /\ s[1] = a /\ s[2] = b /\ s[3] = c
    OBVIOUS
  <2>3. Len(t) = 3 /\ t[1] = a /\ t[2] = b /\ t[3] = c
    OBVIOUS
  <2> HIDE DEF s, t
  <2>4. \A i \in 1..Len(s) : s[i] = t[i]
    BY <2>2, <2>3
  <2>5. s = t
    BY <2>1, <2>2, <2>3, <2>4, SeqEqual
  <2> QED  BY <2>5 DEF s, t
<1> QED
  BY <1>1, <1>2, <1>3

\* Before the battle a player in a room sees the choice of heroes, his own made or not.
LEMMA ChoosingPicture ==
  ASSUME BaseInv, Agreement, EventsMatch, ~ticking, NEW c, HasSession(sessions, c),
         NEW s, s = SessionOn(sessions, c), s.roomId # NoRoom, s.roomId \notin DOMAIN battles
  PROVE  Picture(c) = Calm(IF OwnHero(s, roomService) = NoHero THEN "heroSelect" ELSE "heroConfirmed",
                           s.roomId, s.elo)
<1>1. Picture(c) = PictureIn(s, FALSE, tickets, roomService, battles) /\ s.userId \notin DOMAIN tickets
  BY PictureBefore, InARoom
<1> QED
  BY <1>1 DEF PictureIn

\* In a battle he sees the battle.
LEMMA FightingPicture ==
  ASSUME BaseInv, Agreement, EventsMatch, ~ticking, NEW c, HasSession(sessions, c),
         NEW s, s = SessionOn(sessions, c), s.roomId # NoRoom, s.roomId \in DOMAIN battles
  PROVE  Picture(c) = Fight(s, battles[s.roomId])
<1>1. Picture(c) = PictureIn(s, FALSE, tickets, roomService, battles) /\ s.userId \notin DOMAIN tickets
  BY PictureBefore, InARoom
<1> QED
  BY <1>1 DEF PictureIn

\* The first of the two to choose: only his own screen changes.
LEMMA ChoiceTells ==
  ASSUME BaseInv, Agreement, EventsMatch, NEW conn \in Connections, Receives(conn),
         HasSession(sessions, conn), NEW s, s = SessionOn(sessions, conn), s.roomId # NoRoom,
         NEW hero, CanSelectHero(roomService, s.roomId, s.userId, hero),
         roomService' = SelectHero(roomService, s.roomId, s.userId, hero),
         sent' = Reply(conn, Response("HERO_SELECT_RSP", TRUE)),
         UNCHANGED <<sessions, queue, battles, events>>
  PROVE  Everybody("HERO_SELECT_REQ", conn)
<1> DEFINE id == s.roomId
           R == roomService
           C == SelectHero(R, id, s.userId, hero)
           m == Response("HERO_SELECT_RSP", TRUE)
<1> SUFFICES ASSUME NEW c \in Connections
             PROVE  Tells(IF c = conn THEN "HERO_SELECT_REQ" ELSE "none", c)
  BY DEF Everybody
<1>1. /\ sent'[c] = IF c = conn THEN <<m>> ELSE <<>>
      /\ conn \in connections \ shutdown
  BY AnswerSent
<1>2. id \in DOMAIN R.rooms /\ R.rooms[id].firstUserId # R.rooms[id].secondUserId
  BY InARoom, InTheRoom DEF BothOnline
<1>3. /\ OwnHero(s, C) = hero /\ OwnHero(s, R) = NoHero
      /\ \A t : t.userId # s.userId /\ t.userId \in {R.rooms[id].firstUserId, R.rooms[id].secondUserId}
                  /\ t.roomId = id => OwnHero(t, C) = OwnHero(t, R)
      /\ \A t : t.roomId # id => OwnHero(t, C) = OwnHero(t, R)
  <2>1. R.rooms \in [DOMAIN R.rooms -> Rooms(UserIds)] /\ DOMAIN R = {"nextRoomId", "rooms"}
    BY DEF BaseInv, TypeOK, IsRoomService, IsTable
  <2> QED  BY <1>2, <2>1 DEF SelectHero, OwnHero, CanSelectHero, Rooms
<1>4. CASE c # conn
  <2>1. HasSession(sessions, c) =>
          /\ SessionOn(sessions, c).userId # s.userId
          /\ SessionOn(sessions, c).roomId = id => Plays(sessions, c, R.rooms[id])
    BY <1>2, <1>4, InARoom, PlayersAreSessions, SessionsArePlayers DEF UserOn
  <2>2. HasSession(sessions, c) => OwnHero(SessionOn(sessions, c), C) = OwnHero(SessionOn(sessions, c), R)
    BY <1>3, <2>1 DEF Plays, UserOn
  <2>3. Stands(c)
    BY <2>2 DEF Stands, tickets
  <2> QED  BY <1>1, <1>4, <2>3, Bystander
<1>5. CASE c = conn
  <2>1. id \notin DOMAIN battles
    BY <1>2, AgreementOfTables
       DEF TablesDoAgree, TablesAgree, BattlesMatch, BothHeroesSelected, HasBattle, CanSelectHero
  <2>2. Picture(c) = Calm("heroSelect", id, s.elo)
    BY <1>3, <1>5, <2>1, ChoosingPicture DEF Receives
  <2>3. s.userId \notin DOMAIN tickets /\ tickets' = tickets /\ hero # NoHero
    BY InARoom DEF tickets, CanSelectHero, SelectableHeroes, NoHero
  <2>4. Picture(c)' = PictureIn(s, FALSE, tickets', roomService', battles')
    BY <1>5, PictureAfter DEF Receives
  <2>5. Picture(c)' = Calm("heroConfirmed", id, s.elo)
    BY <1>3, <2>1, <2>3, <2>4 DEF PictureIn
  <2>6. m.type = "HERO_SELECT_RSP" /\ m.accepted
    BY DEF Response
  <2> HIDE DEF m
  <2>7. Learn(Picture(c), m) = Picture(c)'
    BY <2>2, <2>5, <2>6, SeeHero
  <2>8. Opens("HERO_SELECT_REQ", Picture(c), m)
    BY <2>2, <2>6 DEF Opens, Answers, May, Calm, Shown
  <2> QED  BY <1>1, <1>5, <2>7, <2>8, TellsOne
<1> QED
  BY <1>4, <1>5

\* The second of the two to choose: the battle begins on both screens.
LEMMA BeginningTells ==
  ASSUME BaseInv, Agreement, EventsMatch, NEW conn \in Connections, Receives(conn),
         HasSession(sessions, conn), NEW s, s = SessionOn(sessions, conn),
         NEW id, id = s.roomId, NEW room, id \in DOMAIN roomService.rooms,
         room.firstUserId = roomService.rooms[id].firstUserId,
         room.secondUserId = roomService.rooms[id].secondUserId,
         \A i \in DOMAIN roomService.rooms \ {id} : (roomService').rooms[i] = roomService.rooms[i],
         id \notin DOMAIN battles,
         \A c : HasSession(sessions, c) /\ SessionOn(sessions, c).roomId = id =>
                  (OwnHero(SessionOn(sessions, c), roomService) = NoHero <=> c = conn),
         battles' = StartBattle(battles, id, room),
         sent' = LET open == connections \ shutdown
                     replied == Reply(conn, Response("HERO_SELECT_RSP", TRUE))
                 IN  SendBattleState(SendBattleStart(replied, open, sessions, id, room),
                                     open, sessions, id, NewBattle(room)),
         UNCHANGED <<sessions, queue, events>>
  PROVE  Everybody("HERO_SELECT_REQ", conn)
<1> DEFINE open == connections \ shutdown
           m == Response("HERO_SELECT_RSP", TRUE)
           replied == Reply(conn, m)
           started == SendBattleStart(replied, open, sessions, id, room)
           state == NewBattle(room)
<1> SUFFICES ASSUME NEW c \in Connections
             PROVE  Tells(IF c = conn THEN "HERO_SELECT_REQ" ELSE "none", c)
  BY DEF Everybody
<1> DEFINE start == StartFor(id, room, UserOn(sessions, c))
           begun == StateFor(id, state, UserOn(sessions, c))
<1>1. /\ BothOnline(sessions, room) /\ BothOnline(sessions, state)
      /\ \A d : Plays(sessions, d, room) <=> HasSession(sessions, d) /\ SessionOn(sessions, d).roomId = id
      /\ \A d : Plays(sessions, d, state) <=> Plays(sessions, d, room)
      /\ id # NoRoom
  BY InTheRoom DEF BothOnline, Plays, NewBattle
<1>2. /\ DOMAIN replied = Connections /\ conn \in open
      /\ replied[c] = IF c = conn THEN <<m>> ELSE <<>>
  <2> HIDE DEF m
  <2>1. conn \in connections \ shutdown
    BY DEF Receives
  <2>2. /\ DOMAIN Reply(conn, m) = Connections
        /\ \A d \in Connections : Reply(conn, m)[d] = IF d = conn THEN <<m>> ELSE <<>>
    BY <2>1, ReplyIs
  <2> QED  BY <2>1, <2>2
<1>3. SessionsOK(sessions)
  BY PlayersAreSessions
<1> HIDE DEF m, replied, state
<1>4. /\ DOMAIN started = Connections
      /\ started[c] = IF c \in open /\ Plays(sessions, c, room) THEN Append(replied[c], start)
                                                              ELSE replied[c]
  BY <1>1, <1>2, <1>3, BattleStartIs
<1> HIDE DEF started
<1>5. sent' = SendBattleState(started, open, sessions, id, state)
  BY DEF started, replied, state, m
<1>6. sent'[c] = IF c \in open /\ Plays(sessions, c, room) THEN Append(started[c], begun)
                                                         ELSE started[c]
  <2>1. LET new == SendBattleState(started, open, sessions, id, state) IN
          \A d \in Connections :
            new[d] = IF d \in open /\ Plays(sessions, d, state)
                       THEN Append(started[d], StateFor(id, state, UserOn(sessions, d)))
                       ELSE started[d]
    BY <1>1, <1>3, <1>4, BattleStateIs
  <2> QED  BY <1>1, <1>5, <2>1
<1>7. DOMAIN battles' = DOMAIN battles \cup {id} /\ battles'[id] = state
      /\ \A i \in DOMAIN battles \ {id} : battles'[i] = battles[i]
  BY DEF StartBattle, Put, state
<1>8. /\ start.type = "BATTLE_START_NTF" /\ start.roomId = id
      /\ begun.type = "BATTLE_STATE_NTF" /\ begun.roomId = id /\ begun.yourTurn \in BOOLEAN
  BY DEF StartFor, StateFor
<1>9. CASE ~Plays(sessions, c, room)
  <2>1. c # conn
    BY <1>1, <1>9
  <2>2. sent'[c] = <<>>
    BY <1>2, <1>4, <1>6, <1>9, <2>1
  <2>3. HasSession(sessions, c) /\ SessionOn(sessions, c).roomId # NoRoom =>
          /\ SessionOn(sessions, c).roomId \in DOMAIN roomService.rooms \ {id}
    BY <1>1, <1>9, InARoom
  <2>4. Stands(c)
    BY <1>7, <2>3 DEF Stands, OwnHero, tickets
  <2> QED  BY <2>1, <2>2, <2>4, Bystander
<1>10. CASE Plays(sessions, c, room)
  <2> DEFINE t == SessionOn(sessions, c)
             P == Picture(c)
             X == Calm("heroConfirmed", id, t.elo)
             Y == Calm("battle", id, t.elo)
  <2>1. t.roomId = id /\ HasSession(sessions, c)
    BY <1>1, <1>10
  <2>2. P = IF c = conn THEN Calm("heroSelect", id, t.elo) ELSE X
    BY <1>1, <2>1, ChoosingPicture DEF Receives
  <2>3. Picture(c)' = Fight(t, state)
    <3>1. Picture(c)' = PictureIn(t, FALSE, tickets', roomService', battles')
      BY <2>1, PictureAfter DEF Receives
    <3>2. t.userId \notin DOMAIN tickets /\ tickets' = tickets
      BY <1>1, <2>1, InARoom DEF tickets
    <3> QED  BY <1>1, <1>7, <2>1, <3>1, <3>2 DEF PictureIn
  <2>4. Learn(X, start) = Y
    <3> HIDE DEF start
    <3> QED  BY <1>8, SeeStart
  <2>5. Learn(Y, begun) = Fight(t, state)
    BY <2>1, SeeFight DEF UserOn
  <2> HIDE DEF start, begun
  <2>6. News(X, start) /\ News(Y, begun)
    BY <1>8 DEF News, May, Calm, Shown
  <2>7. CASE c = conn
    <3>1. sent'[c] = IF c \in open THEN <<m, start, begun>> ELSE <<>>
      <4>1. Append(Append(<<m>>, start), begun) = <<m, start, begun>>
        BY Appended
      <4> QED  BY <1>2, <1>4, <1>6, <1>10, <2>7, <4>1
    <3>2. m.type = "HERO_SELECT_RSP" /\ m.accepted
      BY DEF Response, m
    <3>3. Opens("HERO_SELECT_REQ", P, m)
      BY <2>2, <2>7, <3>2 DEF Opens, Answers, May, Calm, Shown
    <3>4. Learn(P, m) = X
      BY <2>2, <2>7, <3>2, SeeHero
    <3> HIDE DEF t, X, Y
    <3> QED  BY <2>3, <2>4, <2>5, <2>6, <2>7, <3>1, <3>3, <3>4, TellsThree
  <2>8. CASE c # conn
    <3>1. sent'[c] = IF c \in open THEN <<start, begun>> ELSE <<>>
      <4>1. Append(Append(<<>>, start), begun) = <<start, begun>>
        BY Appended
      <4> QED  BY <1>2, <1>4, <1>6, <1>10, <2>8, <4>1
    <3>2. P = X
      BY <2>2, <2>8
    <3> HIDE DEF t, X, Y
    <3>3. Opens("none", P, start)
      BY <2>6, <3>2 DEF Opens
    <3> QED  BY <2>3, <2>4, <2>5, <2>6, <2>8, <3>1, <3>2, <3>3, TellsTwo
  <2> QED  BY <2>7, <2>8
<1> QED
  BY <1>9, <1>10

\* handleHeroSelect: refused, the first of the two, or the second.
LEMMA HeroSelectTells ==
  ASSUME BaseInv, Agreement, EventsMatch, NEW conn \in Connections, NEW hero,
         HandleHeroSelect(conn, hero)
  PROVE  Everybody("HERO_SELECT_REQ", conn)
<1> DEFINE s == SessionOn(sessions, conn)
           id == s.roomId
           R == roomService
           C == SelectHero(roomService, id, s.userId, hero)
           room == C.rooms[id]
           accepted == /\ HasSession(sessions, conn) /\ id # NoRoom
                       /\ CanSelectHero(roomService, id, s.userId, hero)
           starts == BothHeroesSelected(C, id) /\ CanStart(battles, id, room)
           open == connections \ shutdown
           replied == Reply(conn, Response("HERO_SELECT_RSP", accepted))
<1>1. Receives(conn) /\ UNCHANGED <<connections, shutdown, sessions, queue, events>>
  BY DEF HandleHeroSelect
<1>2. CASE ~accepted
  <2> DEFINE m == Response("HERO_SELECT_RSP", FALSE)
  <2>1. UNCHANGED <<roomService, battles>> /\ sent' = Reply(conn, m)
    BY <1>2 DEF HandleHeroSelect
  <2>2. Learn(Picture(conn), m) = Picture(conn)
    BY LearnNothing DEF Response
  <2>3. Answers("HERO_SELECT_REQ", Picture(conn), m)
    BY DEF Answers, May, Response
  <2> HIDE DEF m
  <2> QED  BY <1>1, <2>1, <2>2, <2>3, RefusalTells
<1>3. CASE accepted /\ ~starts
  <2>1. /\ roomService' = C /\ UNCHANGED battles
        /\ sent' = Reply(conn, Response("HERO_SELECT_RSP", TRUE))
    BY <1>3 DEF HandleHeroSelect
  <2> HIDE DEF starts
  <2> QED  BY <1>1, <1>3, <2>1, ChoiceTells
<1>4. CASE accepted /\ starts
  <2>1. /\ roomService' = C /\ battles' = StartBattle(battles, id, room)
        /\ sent' = SendBattleState(SendBattleStart(Reply(conn, Response("HERO_SELECT_RSP", TRUE)),
                                                   open, sessions, id, room),
                                   open, sessions, id, NewBattle(room))
    BY <1>4 DEF HandleHeroSelect
  <2>2. /\ id \in DOMAIN R.rooms
        /\ room.firstUserId = R.rooms[id].firstUserId
        /\ room.secondUserId = R.rooms[id].secondUserId
        /\ \A i \in DOMAIN R.rooms \ {id} : C.rooms[i] = R.rooms[i]
        /\ IF s.userId = R.rooms[id].firstUserId THEN room.secondHero = R.rooms[id].secondHero
                                                ELSE room.firstHero = R.rooms[id].firstHero
    <3>1. /\ R.rooms \in [DOMAIN R.rooms -> Rooms(UserIds)]
          /\ DOMAIN R = {"nextRoomId", "rooms"} /\ id \in DOMAIN R.rooms
      BY <1>4 DEF BaseInv, TypeOK, IsRoomService, IsTable, CanSelectHero, HasRoom
    <3> QED  BY <3>1 DEF SelectHero, Rooms
  <2>3. id \notin DOMAIN battles /\ room.firstHero # NoHero /\ room.secondHero # NoHero
    BY <1>4 DEF CanStart, HasBattle, BothHeroesSelected
  <2>4. /\ R.rooms[id].firstUserId # R.rooms[id].secondUserId
        /\ \A c : HasSession(sessions, c) /\ SessionOn(sessions, c).roomId = id =>
             SessionOn(sessions, c).userId \in {R.rooms[id].firstUserId, R.rooms[id].secondUserId}
    BY <2>2, InTheRoom DEF BothOnline, Plays, UserOn
  <2>5. \A c : HasSession(sessions, c) /\ c # conn => SessionOn(sessions, c).userId # s.userId
    BY <1>4, PlayersAreSessions, SessionsArePlayers DEF UserOn
  <2>6. OwnHero(s, R) = NoHero
    BY <1>4, <2>2, <2>4 DEF OwnHero, CanSelectHero
  <2>7. s.userId \in {R.rooms[id].firstUserId, R.rooms[id].secondUserId}
    BY <1>4 DEF CanSelectHero
  <2>8. \A c : HasSession(sessions, c) /\ SessionOn(sessions, c).roomId = id =>
          (OwnHero(SessionOn(sessions, c), R) = NoHero <=> c = conn)
    <3> SUFFICES ASSUME NEW c, HasSession(sessions, c), SessionOn(sessions, c).roomId = id, c # conn
                 PROVE  OwnHero(SessionOn(sessions, c), R) # NoHero
      BY <2>6
    <3> HIDE DEF room, C, s
    <3> QED  BY <2>2, <2>3, <2>4, <2>5, <2>7 DEF OwnHero
  <2> HIDE DEF room, C, starts
  <2> QED  BY <1>1, <1>4, <2>1, <2>2, <2>3, <2>8, BeginningTells
<1> QED
  BY <1>2, <1>3, <1>4

\* A blow leaves the players what they are, and gives the turn away; the last one is
\* the winner's.
LEMMA HitKeepsPlayers ==
  ASSUME NEW state \in BattleStates(UserIds, SelectableHeroes), ~state.finished,
         state.firstUserId # state.secondUserId,
         NEW user \in {state.firstUserId, state.secondUserId}
  PROVE  /\ Hit(state, user).firstUserId = state.firstUserId
         /\ Hit(state, user).secondUserId = state.secondUserId
         /\ Hit(state, user).activeUserId # user
         /\ Hit(state, user).finished => Hit(state, user).winnerUserId = user
<1>1. user # 0 /\ user \in UserIds
  BY DEF BattleStates, UserIds
<1> QED
  BY <1>1 DEF Hit, Won, BattleStates

\* Both players of a battle are online and marked with its room.
LEMMA InTheBattle ==
  ASSUME BaseInv, Agreement, NEW id \in DOMAIN battles, NEW state,
         state.firstUserId = battles[id].firstUserId, state.secondUserId = battles[id].secondUserId
  PROVE  /\ id # NoRoom /\ BothOnline(sessions, state)
         /\ \A c : Plays(sessions, c, state)
                     <=> HasSession(sessions, c) /\ SessionOn(sessions, c).roomId = id
<1> DEFINE room == roomService.rooms[id]
<1>1. /\ id \in DOMAIN roomService.rooms
      /\ state.firstUserId = room.firstUserId /\ state.secondUserId = room.secondUserId
  BY AgreementOfTables DEF TablesDoAgree, TablesAgree, BattlesMatch, GoesOn, HasRoom
<1>2. /\ id # NoRoom /\ BothOnline(sessions, room)
      /\ \A c : Plays(sessions, c, room)
                  <=> HasSession(sessions, c) /\ SessionOn(sessions, c).roomId = id
  BY <1>1, InTheRoom
<1> QED
  BY <1>1, <1>2 DEF BothOnline, Plays

\* The news of a blow: the attacker loses the turn he had, the other did not have it.
LEMMA BlowIsNews ==
  ASSUME BaseInv, Agreement, EventsMatch, ~ticking, NEW id \in DOMAIN battles, NEW state,
         state.firstUserId = battles[id].firstUserId, state.secondUserId = battles[id].secondUserId,
         NEW conn, HasSession(sessions, conn), SessionOn(sessions, conn).roomId = id,
         battles[id].activeUserId = UserOn(sessions, conn),
         state.activeUserId # UserOn(sessions, conn),
         NEW c, Plays(sessions, c, state)
  PROVE  LET s == SessionOn(sessions, c)
             m == StateFor(id, state, UserOn(sessions, c))
         IN  /\ Opens(IF c = conn THEN "BATTLE_ATTACK_REQ" ELSE "none", Picture(c), m)
             /\ Learn(Picture(c), m) = Fight(s, state)
<1> DEFINE s == SessionOn(sessions, c)
           m == StateFor(id, state, UserOn(sessions, c))
<1>1. HasSession(sessions, c) /\ s.roomId = id /\ id # NoRoom
  BY InTheBattle
<1>2. Picture(c) = Fight(s, battles[id])
  BY <1>1, FightingPicture
<1>3. c # conn => s.userId # UserOn(sessions, conn)
  BY <1>1, PlayersAreSessions, SessionsArePlayers DEF UserOn
<1>4. /\ m.type = "BATTLE_STATE_NTF" /\ m.roomId = id
      /\ m.yourTurn = (state.activeUserId = s.userId)
  BY DEF StateFor, UserOn
<1>5. Learn(Picture(c), m) = Fight(s, state)
  BY <1>1, <1>2, SeeBlow DEF UserOn
<1> HIDE DEF m
<1>6. /\ Picture(c).scene = "battle" /\ Picture(c).roomId = id
      /\ Picture(c).yourTurn = (battles[id].activeUserId = s.userId)
  BY <1>1, <1>2 DEF Fight, Shown
<1> HIDE DEF s
<1>7. c = conn => Picture(c).yourTurn /\ ~m.yourTurn
  BY <1>4, <1>6 DEF s, UserOn
<1>8. c # conn => ~Picture(c).yourTurn
  BY <1>3, <1>6
<1>9. m.yourTurn \in BOOLEAN
  BY <1>4
<1>10. Opens(IF c = conn THEN "BATTLE_ATTACK_REQ" ELSE "none", Picture(c), m)
  BY <1>4, <1>6, <1>7, <1>8, <1>9 DEF Opens, Answers, News, May
<1> QED
  BY <1>5, <1>10 DEF m, s

\* The blow is on both screens.
LEMMA BlowTells ==
  ASSUME BaseInv, Agreement, EventsMatch, ~ticking, NEW id \in DOMAIN battles, NEW state,
         state.firstUserId = battles[id].firstUserId, state.secondUserId = battles[id].secondUserId,
         NEW conn, HasSession(sessions, conn), SessionOn(sessions, conn).roomId = id,
         battles[id].activeUserId = UserOn(sessions, conn),
         state.activeUserId # UserOn(sessions, conn),
         battles' = [battles EXCEPT ![id] = state],
         sent' = SendBattleState(Silence, connections \ shutdown, sessions, id, state),
         UNCHANGED <<sessions, queue, roomService, events>>
  PROVE  Everybody("BATTLE_ATTACK_REQ", conn)
<1> DEFINE open == connections \ shutdown
<1> SUFFICES ASSUME NEW c \in Connections
             PROVE  Tells(IF c = conn THEN "BATTLE_ATTACK_REQ" ELSE "none", c)
  BY DEF Everybody
<1> DEFINE blow == StateFor(id, state, UserOn(sessions, c))
<1>1. /\ BothOnline(sessions, state) /\ id # NoRoom /\ SessionsOK(sessions)
      /\ \A d : Plays(sessions, d, state) <=> HasSession(sessions, d) /\ SessionOn(sessions, d).roomId = id
  BY InTheBattle, PlayersAreSessions
<1>2. LET new == SendBattleState(Silence, open, sessions, id, state) IN
        \A d \in Connections :
          new[d] = IF d \in open /\ Plays(sessions, d, state)
                     THEN Append(Silence[d], StateFor(id, state, UserOn(sessions, d)))
                     ELSE Silence[d]
  BY <1>1, BattleStateIs, SilenceIs
<1>3. sent'[c] = IF c \in open /\ Plays(sessions, c, state) THEN <<blow>> ELSE <<>>
  BY <1>2, Appended, SilenceIs
<1>4. CASE ~Plays(sessions, c, state)
  <2>1. sent'[c] = <<>>
    BY <1>3, <1>4
  <2>2. HasSession(sessions, c) => SessionOn(sessions, c).roomId # id
    BY <1>1, <1>4
  <2>3. Stands(c)
    BY <2>2 DEF Stands, tickets
  <2> QED  BY <1>1, <1>4, <2>1, <2>3, Bystander
<1>5. CASE Plays(sessions, c, state)
  <2> DEFINE s == SessionOn(sessions, c)
  <2>1. HasSession(sessions, c) /\ s.roomId = id /\ s.userId \notin DOMAIN tickets /\ tickets' = tickets
    BY <1>1, <1>5, InARoom DEF tickets
  <2>2. Picture(c)' = Fight(s, state)
    <3>1. Picture(c)' = PictureIn(s, FALSE, tickets', roomService', battles')
      BY <2>1, PictureAfter
    <3> QED  BY <1>1, <2>1, <3>1 DEF PictureIn
  <2>3. /\ Opens(IF c = conn THEN "BATTLE_ATTACK_REQ" ELSE "none", Picture(c), blow)
        /\ Learn(Picture(c), blow) = Fight(s, state)
    BY <1>5, BlowIsNews
  <2> HIDE DEF blow, s
  <2> QED  BY <1>3, <1>5, <2>2, <2>3, TellsOne
<1> QED
  BY <1>4, <1>5

Settled(state, saved) == IF Settles(state, saved) THEN SettledSessions(state) ELSE sessions
\* To leave a room costs no ELO.
LEMMA ClearKeepsElo ==
  ASSUME NEW S, SessionsOK(S), NEW user
  PROVE  \A c : HasSession(S, c) => SessionOn(ClearRoom(S, user), c).elo = SessionOn(S, c).elo
BY DEF ClearRoom, SetRoom, SessionsOK, IsSessionService, IsTable, Sessions, HasSession, SessionOn

\* After finishBattle the two are in the lobby, with the ELO the result names.
LEMMA FinishedOn ==
  ASSUME BaseInv, Agreement, NEW state, NEW saved \in BOOLEAN, BothOnline(sessions, state),
         state.winnerUserId \in {state.firstUserId, state.secondUserId}
  PROVE  LET F == FinishedSessions(state, saved)
             G == Settled(state, saved)
         IN  /\ SessionsOK(G) /\ BothOnline(G, state)
             /\ \A c : /\ HasSession(F, c) <=> HasSession(sessions, c)
                       /\ HasSession(G, c) <=> HasSession(sessions, c)
                       /\ HasSession(sessions, c) =>
                            /\ UserOn(G, c) = UserOn(sessions, c)
                            /\ UserOn(F, c) = UserOn(sessions, c)
                            /\ SessionOn(F, c).elo = SessionOn(G, c).elo
                            /\ IF Plays(sessions, c, state)
                                 THEN SessionOn(F, c).roomId = NoRoom
                                 ELSE SessionOn(F, c) = SessionOn(sessions, c)
<1> DEFINE F == FinishedSessions(state, saved)
           G == Settled(state, saved)
           first == state.firstUserId
           second == state.secondUserId
           settled == IF Settles(state, saved) THEN SettledAccounts(state) ELSE accountRepository
<1>1. SessionsOK(sessions) /\ first \in DOMAIN players /\ second \in DOMAIN players /\ first # second
  BY PlayersAreSessions DEF BothOnline, players, PlayersOf
<1>2. SessionsOK(G) /\ G.connectionByUserId = sessions.connectionByUserId
  BY <1>1, SettledSessionsOK DEF Settled, Settles
<1>3. SessionsOK(F) /\ F.connectionByUserId = sessions.connectionByUserId
  BY <1>1, FinishedSessionsOK
<1>4. PlayersOf(F) = BackInLobby(players, {first, second}, settled)
  BY <1>1, FinishPlayers
<1>5. F = ClearRoom(ClearRoom(G, first), second)
  BY DEF FinishedSessions, Settled
<1> HIDE DEF F, G, settled
<1>6. \A c : /\ HasSession(F, c) <=> HasSession(sessions, c)
             /\ HasSession(sessions, c) => /\ UserOn(F, c) = UserOn(sessions, c)
                                           /\ SessionOn(F, c) = PlayersOf(F)[UserOn(sessions, c)]
  BY <1>1, <1>3, SameConnections
<1>7. \A c : /\ HasSession(G, c) <=> HasSession(sessions, c)
             /\ HasSession(sessions, c) => UserOn(G, c) = UserOn(sessions, c)
  BY <1>1, <1>2, SameConnections
<1>8. \A c : HasSession(G, c) => SessionOn(F, c).elo = SessionOn(G, c).elo
  <2> DEFINE H == ClearRoom(G, first)
  <2>1. SessionsOK(H) /\ \A c : HasSession(G, c) => HasSession(H, c)
    BY <1>2, SetRoomInverse DEF ClearRoom, NoRoom, HasSession
  <2>2. \A c : HasSession(G, c) => SessionOn(H, c).elo = SessionOn(G, c).elo
    BY <1>2, ClearKeepsElo
  <2> HIDE DEF H
  <2>3. \A c : HasSession(H, c) => SessionOn(F, c).elo = SessionOn(H, c).elo
    BY <1>5, <2>1, ClearKeepsElo DEF H
  <2> QED  BY <2>1, <2>2, <2>3
<1>9. \A c : HasSession(sessions, c) =>
        IF Plays(sessions, c, state) THEN SessionOn(F, c).roomId = NoRoom
                                     ELSE SessionOn(F, c) = SessionOn(sessions, c)
  <2> SUFFICES ASSUME NEW c, HasSession(sessions, c)
               PROVE  IF Plays(sessions, c, state) THEN SessionOn(F, c).roomId = NoRoom
                                                   ELSE SessionOn(F, c) = SessionOn(sessions, c)
    OBVIOUS
  <2> DEFINE user == UserOn(sessions, c)
  <2>1. user \in DOMAIN players /\ players[user] = SessionOn(sessions, c)
    BY PlayersAreSessions DEF UserOn
  <2>2. SessionOn(F, c) = BackInLobby(players, {first, second}, settled)[user]
    BY <1>4, <1>6
  <2>3. Plays(sessions, c, state) <=> user \in {first, second}
    BY DEF Plays
  <2> HIDE DEF user, first, second
  <2> QED  BY <2>1, <2>2, <2>3 DEF BackInLobby
<1>10. BothOnline(G, state)
  BY <1>2 DEF BothOnline
<1> QED
  BY <1>2, <1>6, <1>7, <1>8, <1>9, <1>10 DEF F, G

\* Whoever stays when a room is over: its members are in the lobby, the others where
\* they were.
LEMMA PartingPicture ==
  ASSUME BaseInv, Agreement, EventsMatch, ~ticking, NEW id, id # NoRoom, NEW c,
         HasSession(sessions', c) <=> HasSession(sessions, c), NEW elo,
         HasSession(sessions, c) =>
           /\ UserOn(sessions', c) = UserOn(sessions, c)
           /\ IF SessionOn(sessions, c).roomId = id
                THEN SessionOn(sessions', c).roomId = NoRoom /\ SessionOn(sessions', c).elo = elo
                ELSE SessionOn(sessions', c) = SessionOn(sessions, c),
         roomService' = RemoveRoom(roomService, id), battles' = RemoveBattle(battles, id),
         UNCHANGED <<tickets, events>>
  PROVE  Picture(c)' = IF HasSession(sessions, c) /\ SessionOn(sessions, c).roomId = id
                         THEN Calm("lobby", NoRoom, elo) ELSE Picture(c)
<1>1. CASE HasSession(sessions, c) /\ SessionOn(sessions, c).roomId = id
  <2> PICK s : s = SessionOn(sessions', c)
    OBVIOUS
  <2>1. /\ HasSession(sessions', c) /\ s.roomId = NoRoom /\ s.elo = elo
        /\ s.userId = UserOn(sessions, c)
    BY <1>1 DEF UserOn
  <2>2. UserOn(sessions, c) \notin DOMAIN tickets
    BY <1>1, InARoom DEF UserOn
  <2>3. Picture(c)' = PictureIn(s, FALSE, tickets', roomService', battles')
    BY <2>1, PictureAfter
  <2> QED  BY <1>1, <2>1, <2>2, <2>3 DEF PictureIn
<1>2. CASE ~(HasSession(sessions, c) /\ SessionOn(sessions, c).roomId = id)
  <2>1. /\ \A i \in DOMAIN roomService.rooms \ {id} : (roomService').rooms[i] = roomService.rooms[i]
        /\ DOMAIN battles' = DOMAIN battles \ {id}
        /\ \A i \in DOMAIN battles' : battles'[i] = battles[i]
    BY DEF RemoveRoom, RemoveBattle, Erase, Restrict, BaseInv, TypeOK, IsRoomService
  <2>2. HasSession(sessions, c) /\ SessionOn(sessions, c).roomId # NoRoom =>
          SessionOn(sessions, c).roomId \in DOMAIN roomService.rooms \ {id}
    BY <1>2, InARoom
  <2>3. Stands(c)
    BY <1>2, <2>1, <2>2 DEF Stands, OwnHero
  <2> QED  BY <1>2, <2>3, Onlooker DEF Invited
<1> QED
  BY <1>1, <1>2

\* The players of a battle that is over hear the result, with their new ELO.
LEMMA ResultTells ==
  ASSUME BaseInv, Agreement, EventsMatch, ~ticking, NEW id \in DOMAIN battles,
         NEW state, state.firstUserId = battles[id].firstUserId,
         state.secondUserId = battles[id].secondUserId,
         state.winnerUserId \in {state.firstUserId, state.secondUserId},
         NEW saved \in BOOLEAN, NEW open, NEW out, DOMAIN out = Connections,
         FinishBattle(id, state, saved, open, out),
         NEW c \in Connections, c \in open <=> c \in connections \ shutdown,
         HasSession(sessions', c) <=> HasSession(sessions, c),
         HasSession(sessions, c) =>
           SessionOn(sessions', c) = SessionOn(FinishedSessions(state, saved), c),
         NEW request, NEW m,
         \/ request = "none" /\ out[c] = <<>>
         \/ /\ Plays(sessions, c, state) /\ out[c] = (IF c \in open THEN <<m>> ELSE <<>>)
            /\ Opens(request, Picture(c), m)
            /\ Learn(Picture(c), m) = Fight(SessionOn(sessions, c), state),
         UNCHANGED <<tickets, events>>
  PROVE  Tells(request, c)
<1> DEFINE F == FinishedSessions(state, saved)
           G == Settled(state, saved)
           result == ResultFor(id, state, UserOn(G, c), SessionOn(G, c).elo)
<1>1. /\ BothOnline(sessions, state) /\ id # NoRoom
      /\ \A d : Plays(sessions, d, state) <=> HasSession(sessions, d) /\ SessionOn(sessions, d).roomId = id
  BY InTheBattle
<1>2. /\ SessionsOK(G) /\ BothOnline(G, state)
      /\ HasSession(G, c) <=> HasSession(sessions, c)
      /\ HasSession(sessions, c) =>
           /\ UserOn(G, c) = UserOn(sessions, c) /\ UserOn(F, c) = UserOn(sessions, c)
           /\ SessionOn(F, c).elo = SessionOn(G, c).elo
           /\ IF Plays(sessions, c, state) THEN SessionOn(F, c).roomId = NoRoom
                                           ELSE SessionOn(F, c) = SessionOn(sessions, c)
  BY <1>1, FinishedOn
<1>3. /\ sent' = SendBattleResult(out, open, G, id, state)
      /\ roomService' = RemoveRoom(roomService, id) /\ battles' = RemoveBattle(battles, id)
  BY DEF FinishBattle, Settled
<1> HIDE DEF F, G
<1>4. Plays(G, c, state) <=> Plays(sessions, c, state)
  BY <1>2 DEF Plays
<1>5. LET new == SendBattleResult(out, open, G, id, state) IN
        \A d \in Connections :
          new[d] = IF d \in open /\ Plays(G, d, state)
                     THEN Append(out[d], ResultFor(id, state, UserOn(G, d), SessionOn(G, d).elo))
                     ELSE out[d]
  BY <1>2, BattleResultIs
<1>6. sent'[c] = IF c \in open /\ Plays(sessions, c, state) THEN Append(out[c], result) ELSE out[c]
  BY <1>3, <1>4, <1>5
<1>7. PICK elo : elo = SessionOn(G, c).elo
  OBVIOUS
<1>8. HasSession(sessions, c) =>
         /\ UserOn(sessions', c) = UserOn(sessions, c)
         /\ IF SessionOn(sessions, c).roomId = id
              THEN SessionOn(sessions', c).roomId = NoRoom /\ SessionOn(sessions', c).elo = elo
              ELSE SessionOn(sessions', c) = SessionOn(sessions, c)
  BY <1>1, <1>2, <1>7 DEF UserOn, F
<1>9. Picture(c)' = IF HasSession(sessions, c) /\ SessionOn(sessions, c).roomId = id
                      THEN Calm("lobby", NoRoom, elo) ELSE Picture(c)
  BY <1>1, <1>3, <1>8, PartingPicture
<1>10. result.type = "BATTLE_RESULT_NTF" /\ result.roomId = id /\ result.elo = elo
  BY <1>7 DEF ResultFor
<1> HIDE DEF result
<1>11. CASE ~Plays(sessions, c, state)
  <2>1. request = "none" /\ sent'[c] = <<>> /\ Picture(c)' = Picture(c)
    BY <1>1, <1>6, <1>9, <1>11
  <2> QED  BY <2>1 DEF Tells, Story
<1>12. CASE Plays(sessions, c, state)
  <2> DEFINE s == SessionOn(sessions, c)
  <2>1. s.roomId = id /\ HasSession(sessions, c) /\ Picture(c)' = Calm("lobby", NoRoom, elo)
    BY <1>1, <1>9, <1>12
  <2>2. Picture(c) = Fight(s, battles[id])
    BY <1>1, <2>1, FightingPicture
  <2>3. \A old : News(Fight(s, old), result) /\ Learn(Fight(s, old), result) = Calm("lobby", NoRoom, elo)
    <3> TAKE old
    <3>1. News(Fight(s, old), result)
      BY <1>10, <2>1 DEF News, May, Fight, Shown
    <3> QED  BY <1>10, <3>1, SeeResult
  <2>4. CASE request = "none" /\ out[c] = <<>>
    <3>1. sent'[c] = IF c \in connections \ shutdown THEN <<result>> ELSE <<>>
      BY <1>6, <1>12, <2>4, Appended
    <3>2. Opens(request, Picture(c), result)
      BY <2>2, <2>3, <2>4 DEF Opens
    <3> QED  BY <2>1, <2>2, <2>3, <3>1, <3>2, TellsOne
  <2>5. CASE /\ out[c] = (IF c \in open THEN <<m>> ELSE <<>>)
             /\ Opens(request, Picture(c), m) /\ Learn(Picture(c), m) = Fight(s, state)
    <3>1. sent'[c] = IF c \in connections \ shutdown THEN <<m, result>> ELSE <<>>
      <4>1. Append(<<m>>, result) = <<m, result>>
        BY Appended
      <4> QED  BY <1>6, <1>12, <2>5, <4>1
    <3>2. PICK X : X = Fight(s, state)
      OBVIOUS
    <3>3. News(X, result) /\ Learn(X, result) = Picture(c)' /\ X = Learn(Picture(c), m)
      BY <2>1, <2>3, <2>5, <3>2
    <3> QED  BY <2>5, <3>1, <3>3, TellsTwo
  <2> QED  BY <2>4, <2>5
<1> QED
  BY <1>11, <1>12

\* handleBattleAttack: a blow that both see, or the last one and then the result.
LEMMA AttackTells ==
  ASSUME BaseInv, Agreement, EventsMatch, NEW conn \in Connections, NEW saved \in BOOLEAN,
         HandleBattleAttack(conn, saved)
  PROVE  Everybody("BATTLE_ATTACK_REQ", conn)
<1> DEFINE user  == SessionOn(sessions, conn).userId
           id    == SessionOn(sessions, conn).roomId
           state == Attack(battles, id, user)[id]
           open  == connections \ shutdown
           out   == SendBattleState(Silence, open, sessions, id, state)
<1>1. /\ CanAttack(battles, id, user) /\ id \in DOMAIN battles /\ ~ticking
      /\ HasSession(sessions, conn) /\ battles[id].activeUserId = user
      /\ UNCHANGED <<connections, shutdown, queue, events>>
  BY DEF HandleBattleAttack, CanAttack, HasBattle, Receives
<1>2. state = Hit(battles[id], user) /\ Attack(battles, id, user) = [battles EXCEPT ![id] = state]
  BY <1>1 DEF Attack
<1>3. /\ state.firstUserId = battles[id].firstUserId
      /\ state.secondUserId = battles[id].secondUserId
      /\ user \in {state.firstUserId, state.secondUserId}
      /\ state.activeUserId # user
      /\ state.finished => state.winnerUserId = user
  <2>1. /\ battles[id] \in BattleStates(UserIds, SelectableHeroes)
        /\ ~battles[id].finished
        /\ user \in {battles[id].firstUserId, battles[id].secondUserId}
    BY <1>1 DEF BaseInv, TypeOK, IsTable, CanAttack
  <2>2. battles[id].firstUserId # battles[id].secondUserId
    BY <1>1, InTheBattle DEF BothOnline
  <2> HIDE DEF state
  <2> QED  BY <1>2, <2>1, <2>2, HitKeepsPlayers
<1>4. CASE ~state.finished
  <2>1. /\ battles' = [battles EXCEPT ![id] = state] /\ sent' = out
        /\ UNCHANGED <<sessions, roomService>>
    BY <1>2, <1>4 DEF HandleBattleAttack
  <2>2. user = UserOn(sessions, conn) /\ SessionOn(sessions, conn).roomId = id
    BY DEF UserOn
  <2> HIDE DEF state, id, user
  <2> QED  BY <1>1, <1>3, <2>1, <2>2, BlowTells
<1>5. CASE state.finished
  <2>1. FinishBattle(id, state, saved, open, out) /\ sessions' = FinishedSessions(state, saved)
    BY <1>5 DEF HandleBattleAttack
  <2>2. user = UserOn(sessions, conn) /\ SessionOn(sessions, conn).roomId = id
    BY DEF UserOn
  <2> HIDE DEF state, id, user
  <2>3. /\ BothOnline(sessions, state) /\ SessionsOK(sessions)
        /\ \A d : Plays(sessions, d, state) <=> HasSession(sessions, d) /\ SessionOn(sessions, d).roomId = id
    BY <1>1, <1>3, InTheBattle, PlayersAreSessions
  <2>4. LET new == SendBattleState(Silence, open, sessions, id, state) IN
          /\ DOMAIN new = Connections
          /\ \A d \in Connections :
               new[d] = IF d \in open /\ Plays(sessions, d, state)
                          THEN Append(Silence[d], StateFor(id, state, UserOn(sessions, d)))
                          ELSE Silence[d]
    BY <2>3, BattleStateIs, SilenceIs
  <2>5. DOMAIN out = Connections
        /\ \A d \in Connections :
             out[d] = IF d \in open /\ Plays(sessions, d, state)
                        THEN <<StateFor(id, state, UserOn(sessions, d))>> ELSE <<>>
    BY <2>4, SilenceIs, Appended
  <2>6. \A c : HasSession(sessions', c) <=> HasSession(sessions, c)
    BY <1>3, <1>5, <2>1, <2>3, FinishedOn
  <2>7. UNCHANGED tickets
    BY <1>1 DEF tickets
  <2> HIDE DEF out
  <2> SUFFICES ASSUME NEW c \in Connections
               PROVE  Tells(IF c = conn THEN "BATTLE_ATTACK_REQ" ELSE "none", c)
    BY DEF Everybody
  <2> DEFINE m == StateFor(id, state, UserOn(sessions, c))
             request == IF c = conn THEN "BATTLE_ATTACK_REQ" ELSE "none"
  <2>8. \/ request = "none" /\ out[c] = <<>>
        \/ /\ Plays(sessions, c, state) /\ out[c] = (IF c \in open THEN <<m>> ELSE <<>>)
           /\ Opens(request, Picture(c), m)
           /\ Learn(Picture(c), m) = Fight(SessionOn(sessions, c), state)
    <3>1. CASE Plays(sessions, c, state)
      <4>1. Opens(request, Picture(c), m) /\ Learn(Picture(c), m) = Fight(SessionOn(sessions, c), state)
        BY <1>1, <1>3, <2>2, <3>1, BlowIsNews
      <4> HIDE DEF m, request
      <4>2. out[c] = IF c \in open THEN <<m>> ELSE <<>>
        BY <2>5, <3>1 DEF m
      <4> QED  BY <3>1, <4>1, <4>2
    <3>2. CASE ~Plays(sessions, c, state)
      BY <1>1, <2>2, <2>3, <2>5, <3>2
    <3> QED  BY <3>1, <3>2
  <2> HIDE DEF m, request
  <2>9. /\ HasSession(sessions', c) <=> HasSession(sessions, c)
        /\ HasSession(sessions, c) =>
             SessionOn(sessions', c) = SessionOn(FinishedSessions(state, saved), c)
        /\ c \in open <=> c \in connections \ shutdown
        /\ state.winnerUserId \in {state.firstUserId, state.secondUserId}
        /\ DOMAIN out = Connections /\ UNCHANGED <<tickets, events>>
    BY <1>1, <1>3, <1>5, <2>1, <2>5, <2>6, <2>7
  <2> HIDE DEF open
  <2>10. Tells(request, c)
    BY <1>1, <1>3, <2>1, <2>8, <2>9, ResultTells
  <2> QED  BY <2>10 DEF request
<1> QED
  BY <1>4, <1>5

\* A session that ends leaves the others.
LEMMA LeavingIs ==
  ASSUME NEW S, NEW conn, NEW c, c # conn
  PROVE  LET T == RemoveSession(S, conn) IN
         /\ HasSession(T, c) <=> HasSession(S, c)
         /\ HasSession(S, c) => SessionOn(T, c) = SessionOn(S, c)
BY DEF RemoveSession, HasSession, SessionOn, Erase, Restrict

\* Everybody else is told.
TheOthers(conn) == \A c \in Connections \ {conn} : Tells("none", c)

\* A player who is in no room goes, and nobody else notices.
LEMMA QuietLeaveTells ==
  ASSUME BaseInv, NEW conn, NEW saved, Disconnect(conn, saved), LeaveQuietly(conn)
  PROVE  TheOthers(conn)
<1> SUFFICES ASSUME NEW c \in Connections, c # conn
             PROVE  Tells("none", c)
  BY DEF TheOthers
<1>1. /\ sessions' = RemoveSession(sessions, conn) /\ sent' = Silence
      /\ UNCHANGED <<roomService, battles, events>>
  BY DEF Disconnect, LeaveQuietly
<1>2. sent'[c] = <<>>
  BY <1>1, SilenceIs
<1>3. HasSession(sessions, c) =>
        (SessionOn(sessions, c).userId \in DOMAIN tickets' <=> SessionOn(sessions, c).userId \in DOMAIN tickets)
  <2>1. CASE ~HasSession(sessions, conn)
    BY <2>1 DEF Disconnect, tickets
  <2>2. CASE HasSession(sessions, conn)
    <3>1. DOMAIN tickets' = DOMAIN tickets \ {UserOn(sessions, conn)}
      <4>1. tickets' = Erase(tickets, UserOn(sessions, conn))
        BY <2>2, TicketErased DEF Disconnect, UserOn
      <4> QED  BY <4>1 DEF Erase, Restrict
    <3>2. HasSession(sessions, c) => SessionOn(sessions, c).userId # UserOn(sessions, conn)
      BY <1>1, <2>2, PlayersAreSessions, SessionsArePlayers DEF UserOn
    <3> QED  BY <3>1, <3>2
  <2> QED  BY <2>1, <2>2
<1>4. Stands(c)
  BY <1>1, <1>3, LeavingIs DEF Stands, OwnHero
<1> QED
  BY <1>1, <1>2, <1>4, Bystander

\* A player who goes before the battle: his opponent hears that the room is closed.
LEMMA ClosingTells ==
  ASSUME BaseInv, Agreement, EventsMatch, ~ticking, NEW conn, HasSession(sessions, conn),
         NEW s, s = SessionOn(sessions, conn), s.roomId # NoRoom, s.roomId \notin DOMAIN battles,
         NEW open, open = (connections \ shutdown) \ {conn},
         CloseRoom(conn, s, open), UNCHANGED <<tickets, events>>
  PROVE  TheOthers(conn)
<1> DEFINE id == s.roomId
           room == roomService.rooms[id]
           opponent == IF room.firstUserId = s.userId THEN room.secondUserId ELSE room.firstUserId
           C == ClearRoom(sessions, opponent)
           m == [type |-> "ROOM_CLOSED_NTF", roomId |-> id]
<1> SUFFICES ASSUME NEW c \in Connections, c # conn
             PROVE  Tells("none", c)
  BY DEF TheOthers
<1>1. /\ id \in DOMAIN roomService.rooms /\ Plays(sessions, conn, room) /\ BothOnline(sessions, room)
      /\ \A d : Plays(sessions, d, room) <=> HasSession(sessions, d) /\ SessionOn(sessions, d).roomId = id
  BY InARoom, InTheRoom
<1>2. /\ opponent # s.userId /\ opponent \in DOMAIN sessions.connectionByUserId
      /\ {opponent, s.userId} = {room.firstUserId, room.secondUserId}
  BY <1>1 DEF BothOnline, Plays, UserOn
<1>3. /\ sent' = Send(Silence, open, ConnectionOf(sessions, opponent), m)
      /\ sessions' = RemoveSession(C, conn)
      /\ roomService' = RemoveRoom(roomService, id) /\ UNCHANGED battles
  BY DEF CloseRoom
<1>4. RemoveBattle(battles, id) = battles
  BY DEF RemoveBattle, Erase, Restrict, BaseInv, TypeOK, IsTable
<1> HIDE DEF opponent
<1>5. SessionsOK(sessions) /\ SessionsOK(C) /\ C.connectionByUserId = sessions.connectionByUserId
      /\ PlayersOf(C) = [players EXCEPT ![opponent].roomId = NoRoom]
  <2>1. opponent \in DOMAIN players
    BY <1>2 DEF players, PlayersOf
  <2> QED  BY <2>1, PlayersAreSessions, SetRoomInverse, SetRoomPlayers DEF ClearRoom, players, NoRoom
<1> HIDE DEF C
<1>6. /\ HasSession(C, c) <=> HasSession(sessions, c)
      /\ HasSession(sessions, c) => /\ UserOn(C, c) = UserOn(sessions, c)
                                    /\ SessionOn(C, c) = PlayersOf(C)[UserOn(sessions, c)]
  BY <1>5, SameConnections
<1>7. /\ HasSession(sessions', c) <=> HasSession(sessions, c)
      /\ HasSession(sessions, c) =>
           /\ UserOn(sessions', c) = UserOn(sessions, c)
           /\ SessionOn(sessions', c) = IF UserOn(sessions, c) = opponent
                                          THEN [SessionOn(sessions, c) EXCEPT !.roomId = NoRoom]
                                          ELSE SessionOn(sessions, c)
  <2>1. HasSession(sessions, c) =>
          /\ UserOn(sessions, c) \in DOMAIN players
          /\ players[UserOn(sessions, c)] = SessionOn(sessions, c)
    BY PlayersAreSessions DEF UserOn
  <2>2. HasSession(sessions, c) =>
          SessionOn(C, c) = IF UserOn(sessions, c) = opponent
                              THEN [SessionOn(sessions, c) EXCEPT !.roomId = NoRoom]
                              ELSE SessionOn(sessions, c)
    BY <1>5, <1>6, <2>1
  <2> QED  BY <1>3, <1>6, <2>2, LeavingIs DEF UserOn
<1>8. HasSession(sessions, c) => (UserOn(sessions, c) = opponent <=> SessionOn(sessions, c).roomId = id)
  <2>1. HasSession(sessions, c) => UserOn(sessions, c) # s.userId
    BY <1>5, SessionsArePlayers DEF UserOn
  <2> QED  BY <1>1, <1>2, <2>1 DEF Plays
<1>9. sent'[c] = IF c \in open /\ PlaysOn(sessions, c, opponent) THEN <<m>> ELSE <<>>
  <2>1. c = ConnectionOf(sessions, opponent) <=> PlaysOn(sessions, c, opponent)
    BY <1>2, <1>5, WhereIs
  <2> DEFINE d == ConnectionOf(sessions, opponent)
  <2> HIDE DEF d, m
  <2>2. Send(Silence, open, d, m)[c] = IF c = d /\ c \in open THEN Append(Silence[c], m) ELSE Silence[c]
    BY SendIs, SilenceIs
  <2>3. Append(<<>>, m) = <<m>>
    BY Appended
  <2> QED  BY <1>3, <2>1, <2>2, <2>3, SilenceIs DEF d
<1> PICK elo : elo = SessionOn(sessions, c).elo
  OBVIOUS
<1>10. Picture(c)' = IF HasSession(sessions, c) /\ SessionOn(sessions, c).roomId = id
                       THEN Calm("lobby", NoRoom, elo) ELSE Picture(c)
  <2>1. HasSession(sessions, c) => SessionOn(sessions, c) \in Sessions(UserIds, Elo)
    BY PlayersAreSessions
  <2>2. HasSession(sessions, c) =>
         /\ UserOn(sessions', c) = UserOn(sessions, c)
         /\ IF SessionOn(sessions, c).roomId = id
              THEN SessionOn(sessions', c).roomId = NoRoom /\ SessionOn(sessions', c).elo = elo
              ELSE SessionOn(sessions', c) = SessionOn(sessions, c)
    BY <1>7, <1>8, <2>1 DEF Sessions
  <2> QED  BY <1>3, <1>4, <1>7, <2>2, PartingPicture
<1>11. CASE HasSession(sessions, c) /\ SessionOn(sessions, c).roomId = id
  <2> DEFINE scene == IF OwnHero(SessionOn(sessions, c), roomService) = NoHero THEN "heroSelect"
                                                                             ELSE "heroConfirmed"
  <2>1. Picture(c) = Calm(scene, id, elo)
    BY <1>11, ChoosingPicture
  <2>2. m.type = "ROOM_CLOSED_NTF" /\ m.roomId = id
    OBVIOUS
  <2> HIDE DEF m
  <2>3. Opens("none", Picture(c), m)
    <3>1. scene \in {"heroSelect", "heroConfirmed"}
      OBVIOUS
    <3> HIDE DEF scene
    <3> QED  BY <2>1, <2>2, <3>1 DEF Opens, News, May, Calm, Shown
  <2>4. Learn(Picture(c), m) = Picture(c)'
    BY <1>10, <1>11, <2>1, <2>2, SeeClosed
  <2>5. sent'[c] = IF c \in connections \ shutdown THEN <<m>> ELSE <<>>
    BY <1>8, <1>9, <1>11 DEF PlaysOn, UserOn
  <2> QED  BY <2>3, <2>4, <2>5, TellsOne
<1>12. CASE ~(HasSession(sessions, c) /\ SessionOn(sessions, c).roomId = id)
  <2>1. sent'[c] = <<>> /\ Picture(c)' = Picture(c)
    BY <1>8, <1>9, <1>10, <1>12 DEF PlaysOn, UserOn
  <2> QED  BY <2>1 DEF Tells, Story
<1> QED
  BY <1>11, <1>12

\* onConnection, when a connection ends: alone, in a room, or in a battle.
LEMMA DisconnectTells ==
  ASSUME BaseInv, Agreement, EventsMatch, NEW conn, NEW saved \in BOOLEAN,
         Disconnect(conn, saved)
  PROVE  TheOthers(conn)
<1> DEFINE s == SessionOn(sessions, conn)
           id == s.roomId
           open == (connections \ shutdown) \ {conn}
<1>1. ~ticking /\ UNCHANGED events
  BY DEF Disconnect
<1>2. CASE ~(HasSession(sessions, conn) /\ id # NoRoom)
  BY <1>2, QuietLeaveTells DEF Disconnect
<1>3. CASE HasSession(sessions, conn) /\ id # NoRoom
  <2>1. LeaveRoom(conn, s, saved, open)
    BY <1>3 DEF Disconnect
  <2>2. s.userId \notin DOMAIN tickets /\ id \in DOMAIN roomService.rooms
        /\ Plays(sessions, conn, roomService.rooms[id])
    BY <1>3, InARoom
  <2>3. UNCHANGED tickets
    BY <1>3, <2>2, TicketErased DEF Disconnect
  <2>4. CASE id \notin DOMAIN battles
    <3>1. CloseRoom(conn, s, open)
      BY <2>1, <2>2, <2>4 DEF LeaveRoom, HasBattle, HasRoom
    <3> HIDE DEF s, open
    <3> QED  BY <1>1, <1>3, <2>3, <2>4, <3>1, ClosingTells DEF s, open
  <2>5. CASE id \in DOMAIN battles
    <3> DEFINE state == Forfeit(battles, id, s.userId)[id]
               F == FinishedSessions(state, saved)
    <3>1. /\ s.userId \in {battles[id].firstUserId, battles[id].secondUserId}
          /\ ~battles[id].finished /\ battles[id] \in BattleStates(UserIds, SelectableHeroes)
      BY <1>3, <2>2, <2>5, AgreementOfTables
         DEF TablesDoAgree, TablesAgree, BattlesMatch, GoesOn, Plays, UserOn, BaseInv, TypeOK, IsTable
    <3>2. FinishBattle(id, state, saved, open, Silence) /\ sessions' = RemoveSession(F, conn)
      BY <2>1, <2>5, <3>1 DEF LeaveRoom, HasBattle, CanForfeit
    <3>3. /\ state.firstUserId = battles[id].firstUserId
          /\ state.secondUserId = battles[id].secondUserId
          /\ state.winnerUserId \in {state.firstUserId, state.secondUserId}
      <4>1. state = Won(battles[id], IF s.userId = battles[id].firstUserId
                                       THEN battles[id].secondUserId ELSE battles[id].firstUserId)
        BY <2>5 DEF Forfeit
      <4> HIDE DEF state, id
      <4> QED  BY <3>1, <4>1 DEF Won, BattleStates
    <3> HIDE DEF state
    <3>4. BothOnline(sessions, state)
      BY <2>5, <3>3, InTheBattle
    <3>5. \A c : HasSession(F, c) <=> HasSession(sessions, c)
      BY <3>3, <3>4, FinishedOn
    <3> HIDE DEF F
    <3> SUFFICES ASSUME NEW c \in Connections, c # conn
                 PROVE  Tells("none", c)
      BY DEF TheOthers
    <3>6. /\ HasSession(sessions', c) <=> HasSession(F, c)
          /\ HasSession(F, c) => SessionOn(sessions', c) = SessionOn(F, c)
      BY <3>2, LeavingIs
    <3>7. DOMAIN Silence = Connections /\ Silence[c] = <<>>
      BY SilenceIs
    <3>8. c \in open <=> c \in connections \ shutdown
      OBVIOUS
    <3> HIDE DEF id, s, open
    <3> QED  BY <1>1, <2>3, <2>5, <3>2, <3>3, <3>5, <3>6, <3>7, <3>8, ResultTells DEF F
  <2> QED  BY <2>4, <2>5
<1> QED
  BY <1>2, <1>3

\* A step that writes no table and sends nothing.
LEMMA QuietTells ==
  ASSUME sent' = Silence, UNCHANGED <<sessions, queue, roomService, battles, events>>
  PROVE  \A c \in Connections : Tells("none", c)
BY SilenceIs, TablesStand, Bystander

\* Outside a tick nobody has been paired.
LEMMA NoEvents == ASSUME events' = <<>> PROVE EventsMatch'
<1>1. DOMAIN <<>> = {} /\ <<>> \in Seq([roomId : Nat, first : UserIds, second : UserIds])
  OBVIOUS
<1> QED
  BY <1>1 DEF EventsMatch

\* A new connection shows the login scene.
LEMMA ConnectTells ==
  ASSUME BaseInv, NEW conn, Connect(conn)
  PROVE  /\ \A c \in Connections : Tells("none", c)
         /\ Picture(conn)' = LoggedOut
<1>1. /\ sent' = Silence /\ conn \notin connections
      /\ UNCHANGED <<sessions, queue, roomService, battles, events>>
  BY DEF Connect
<1>2. ~HasSession(sessions', conn)
  BY <1>1 DEF BaseInv, SessionsInverse, HasSession
<1> QED
  BY <1>1, <1>2, QuietTells DEF Picture

\* A pair is found: the two go on seeing the queue until the tick is over.
LEMMA TickMatchTells ==
  ASSUME BaseInv, Agreement, EventsMatch, BaseInv', TickMatch
  PROVE  EventsMatch' /\ \A c \in Connections : Tells("none", c)
<1> DEFINE id == roomService.nextRoomId
<1>1. PICK first, second \in UserIds :
        /\ Meets(first, second)
        /\ (sessions').connectionByUserId = sessions.connectionByUserId
        /\ events' = Append(events, [roomId |-> id, first |-> first, second |-> second])
  BY TickMeets
<1> DEFINE event == [roomId |-> id, first |-> first, second |-> second]
           Event == [roomId : Nat, first : UserIds, second : UserIds]
<1>2. /\ id \in Nat \ {0} /\ \A i \in DOMAIN roomService.rooms : i \in Nat \ {0} /\ i < id
  BY AgreementOfTables
     DEF TablesDoAgree, TablesAgree, RoomsMatch, BaseInv, TypeOK, IsRoomService, IsTable
<1>3. /\ DOMAIN (roomService').rooms = DOMAIN roomService.rooms \cup {id}
      /\ (roomService').rooms[id] = [firstUserId |-> first, secondUserId |-> second,
                                     firstHero |-> NoHero, secondHero |-> NoHero]
      /\ \A i \in DOMAIN roomService.rooms : (roomService').rooms[i] = roomService.rooms[i]
  BY <1>1, <1>2 DEF Meets, CreateRoom, Put
<1>4. /\ events \in Seq(Event) /\ event \in Event
      /\ \A i \in DOMAIN events : JustMet(events[i], roomService) /\ events[i].roomId # id
  BY <1>2 DEF EventsMatch, JustMet
<1>5. /\ events' \in Seq(Event)
      /\ DOMAIN events' = DOMAIN events \cup {Len(events) + 1}
      /\ Len(events) + 1 \notin DOMAIN events
      /\ events'[Len(events) + 1] = event
      /\ \A i \in DOMAIN events : events'[i] = events[i]
  <2> HIDE DEF event, Event
  <2>1. DOMAIN events = 1..Len(events) /\ Len(events) \in Nat
    BY <1>4
  <2>2. /\ Append(events, event) \in Seq(Event)
        /\ Len(Append(events, event)) = Len(events) + 1
        /\ \A i \in 1..Len(events) : Append(events, event)[i] = events[i]
        /\ Append(events, event)[Len(events) + 1] = event
    BY <1>4, AppendProperties
  <2>3. events' = Append(events, event)
    BY <1>1 DEF event
  <2>4. DOMAIN events' = 1..(Len(events) + 1)
    BY <2>1, <2>2, <2>3
  <2> QED  BY <2>1, <2>2, <2>3, <2>4
<1>6. ticking' = TRUE /\ sent' = Silence
  BY DEF TickMatch
<1>7. EventsMatch'
  <2>1. \A i \in DOMAIN events' : JustMet(events'[i], roomService')
    <3>1. \A i \in DOMAIN events : JustMet(events'[i], roomService')
      BY <1>3, <1>4, <1>5 DEF JustMet
    <3>2. JustMet(events'[Len(events) + 1], roomService')
      BY <1>3, <1>5 DEF JustMet
    <3> QED  BY <1>5, <3>1, <3>2
  <2>2. \A i, j \in DOMAIN events' : events'[i].roomId = events'[j].roomId => i = j
    BY <1>4, <1>5 DEF EventsMatch
  <2> QED  BY <1>5, <1>6, <2>1, <2>2 DEF EventsMatch
<1>8. ASSUME NEW c \in Connections
      PROVE  Picture(c)' = Picture(c)
  <2>2. SessionsOK(sessions) /\ SessionsOK(sessions')
    BY PlayersAreSessions DEF BaseInv, TypeOK, SessionsInverse, SessionsOK, Elo
  <2> DEFINE s == SessionOn(sessions, c)
  <2>3. /\ HasSession(sessions', c) <=> HasSession(sessions, c)
        /\ HasSession(sessions, c) =>
             SessionOn(sessions', c) = PlayersOf(sessions')[s.userId]
    BY <1>1, <2>2, SameConnections DEF UserOn
  <2>4. /\ PlayersOf(sessions') = [[players EXCEPT ![first].roomId = id] EXCEPT ![second].roomId = id]
        /\ DOMAIN tickets' = DOMAIN tickets \ {first, second}
        /\ first \in DOMAIN tickets /\ second \in DOMAIN tickets /\ first # second
        /\ UNCHANGED battles
    BY <1>1 DEF Meets, players, Erase, Restrict
  <2>5. HasSession(sessions, c) => s.userId \in DOMAIN players /\ s = players[s.userId]
    BY PlayersAreSessions
  <2>6. CASE ~(HasSession(sessions, c) /\ s.userId \in {first, second})
    <3>1. HasSession(sessions, c) => SessionOn(sessions', c) = s
      BY <2>3, <2>4, <2>5, <2>6
    <3>2. HasSession(sessions, c) => (s.roomId = NoRoom \/ s.roomId \in DOMAIN roomService.rooms)
      BY InARoom
    <3>3. HasSession(sessions, c) => s.roomId # id
      BY <1>2, <3>2 DEF NoRoom
    <3>4. Stands(c)
      BY <1>3, <2>3, <2>4, <2>6, <3>1, <3>2 DEF Stands, OwnHero
    <3>5. HasSession(sessions, c) =>
            ((\E i \in DOMAIN events' : events'[i].roomId = s.roomId) <=> Invited(s))
      BY <1>5, <3>3 DEF Invited
    <3> QED  BY <3>4, <3>5, Onlooker
  <2>7. CASE HasSession(sessions, c) /\ s.userId \in {first, second}
    <3>1. s.userId \in DOMAIN tickets
      BY <2>4, <2>7
    <3>2. Picture(c) = Calm("queued", NoRoom, s.elo)
      BY <2>7, <3>1 DEF Picture, PictureIn
    <3>4. s \in Sessions(UserIds, Elo)
      BY <2>5, <2>7, PlayersAreSessions
    <3>5. SessionOn(sessions', c) = [s EXCEPT !.roomId = id]
      BY <2>3, <2>4, <2>5, <2>7
    <3> PICK t : t = SessionOn(sessions', c)
      OBVIOUS
    <3>6. t.roomId = id /\ t.elo = s.elo
      BY <3>4, <3>5 DEF Sessions
    <3>7. \E i \in DOMAIN events' : events'[i].roomId = t.roomId
      BY <1>5, <3>6
    <3>8. Picture(c)' = Calm("queued", NoRoom, t.elo)
      BY <2>3, <2>7, <3>7 DEF Picture, PictureIn, Invited
    <3> QED  BY <3>2, <3>6, <3>8
  <2> QED  BY <2>6, <2>7
<1>9. ASSUME NEW c \in Connections
      PROVE  Tells("none", c)
  <2>1. sent'[c] = <<>>
    BY <1>6, SilenceIs
  <2> QED  BY <1>8, <2>1 DEF Tells, Story
<1> QED
  BY <1>7, <1>9

\* At the end of the tick the players of its rooms go from the queue to the choice of heroes.
LEMMA TickEndTells ==
  ASSUME BaseInv, Agreement, EventsMatch, TickEnd
  PROVE  \A c \in Connections : Tells("none", c)
<1> SUFFICES ASSUME NEW c \in Connections
             PROVE  Tells("none", c)
  OBVIOUS
<1> DEFINE s == SessionOn(sessions, c)
<1>1. /\ UNCHANGED <<connections, shutdown, sessions, queue, roomService, battles>>
      /\ events' = <<>> /\ sent' = MatchFoundMessages
  BY DEF TickEnd
<1>2. InvitationsSent(sent', Len(events)) /\ DOMAIN events = 1..Len(events)
  BY <1>1, InvitationsAreSent DEF EventsMatch
<1>3. Invited(s) <=> InvitedBy(Len(events), s)
  BY <1>2 DEF Invited, InvitedBy
<1>4. DOMAIN events' = {}
  BY <1>1
<1>5. CASE HasSession(sessions, c) /\ Invited(s)
  <2>1. /\ s.roomId \in DOMAIN roomService.rooms
        /\ roomService.rooms[s.roomId].firstHero = NoHero
        /\ roomService.rooms[s.roomId].secondHero = NoHero
    BY <1>5 DEF EventsMatch, JustMet, Invited
  <2>2. s.roomId # NoRoom /\ s.roomId \notin DOMAIN battles
    BY <2>1, InTheRoom, AgreementOfTables
       DEF TablesDoAgree, TablesAgree, BattlesMatch, BothHeroesSelected, HasBattle
  <2>3. s.userId \notin DOMAIN tickets
    BY <1>5, <2>2, InARoom
  <2>4. Picture(c) = Calm("queued", NoRoom, s.elo)
    BY <1>5 DEF Picture, PictureIn
  <2>5. Picture(c)' = Calm("heroSelect", s.roomId, s.elo)
    <3>1. HasSession(sessions', c) /\ SessionOn(sessions', c) = s
          /\ tickets' = tickets /\ roomService' = roomService /\ battles' = battles
      BY <1>1, <1>5 DEF tickets
    <3>2. ~\E i \in DOMAIN events' : events'[i].roomId = s.roomId
      BY <1>4
    <3>3. OwnHero(s, roomService) = NoHero
      BY <2>1 DEF OwnHero
    <3> HIDE DEF s
    <3>4. Picture(c)' = PictureIn(s, FALSE, tickets, roomService, battles)
      BY <3>1, <3>2 DEF Picture, PictureIn, Invited
    <3> QED  BY <2>2, <2>3, <3>3, <3>4 DEF PictureIn
  <2>6. CASE c \in connections \ shutdown
    <3>1. PICK m : sent'[c] = <<m>> /\ m.type = "MATCH_FOUND_NTF" /\ m.roomId = s.roomId
      BY <1>2, <1>3, <1>5, <2>6 DEF InvitationsSent
    <3> HIDE DEF s
    <3>2. Learn(Picture(c), m) = Picture(c)'
      BY <2>4, <2>5, <3>1, SeeFound
    <3>3. Opens("none", Picture(c), m)
      BY <2>4, <3>1 DEF Opens, News, May, Calm, Shown
    <3> QED  BY <2>6, <3>1, <3>2, <3>3, TellsOne
  <2>7. CASE c \notin connections \ shutdown
    <3>1. sent'[c] = <<>>
      BY <1>2, <2>7 DEF InvitationsSent
    <3> DEFINE m == [type |-> "MATCH_FOUND_NTF", roomId |-> s.roomId]
    <3>2. m.type = "MATCH_FOUND_NTF" /\ m.roomId = s.roomId
      OBVIOUS
    <3> HIDE DEF s, m
    <3>3. Learn(Picture(c), m) = Picture(c)'
      BY <2>4, <2>5, <3>2, SeeFound
    <3>4. Opens("none", Picture(c), m)
      BY <2>4, <3>2 DEF Opens, News, May, Calm, Shown
    <3> QED  BY <2>7, <3>1, <3>3, <3>4, TellsOne
  <2> QED  BY <2>6, <2>7
<1>6. CASE ~(HasSession(sessions, c) /\ Invited(s))
  <2>1. sent'[c] = <<>>
    BY <1>2, <1>3, <1>6 DEF InvitationsSent
  <2>2. HasSession(sessions, c) =>
          ((\E i \in DOMAIN events' : events'[i].roomId = s.roomId) <=> Invited(s))
    BY <1>4, <1>6
  <2>3. Picture(c)' = Picture(c)
    BY <1>1, <2>2, TablesStand, Onlooker
  <2> QED  BY <2>1, <2>3 DEF Tells, Story
<1> QED
  BY <1>5, <1>6

\* A step outside the tick pairs nobody.
LEMMA EventsStay ==
  ASSUME EventsMatch, ~ticking, UNCHANGED events
  PROVE  EventsMatch'
BY NoEvents DEF EventsMatch

\* The tick tells those it pairs, and nobody else anything.
LEMMA TickTells ==
  ASSUME ServerInv, BaseInv', EventsMatch, Tick
  PROVE  EventsMatch' /\ \A c \in Connections : Tells("none", c)
<1>1. BaseInv /\ Agreement
  BY DEF ServerInv
<1>2. CASE TickBegin
  <2>1. sent' = Silence /\ events' = <<>> /\ UNCHANGED events
        /\ UNCHANGED <<sessions, queue, roomService, battles>>
    BY <1>2 DEF TickBegin, EventsMatch
  <2> QED  BY <2>1, NoEvents, QuietTells
<1>3. CASE TickMatch
  BY <1>1, <1>3, TickMatchTells
<1>4. CASE TickEnd
  BY <1>1, <1>4, TickEndTells, NoEvents DEF TickEnd
<1> QED
  BY <1>2, <1>3, <1>4 DEF Tick

\* A connection whose player has to be told, or which is new.
Informed(c) ==
  IF c \in connections \ shutdown THEN \E request : Tells(request, c)
                                  ELSE Picture(c)' = LoggedOut /\ sent'[c] = <<>>

\* Every handler tells what it changes.
LEMMA EverybodyIsTold ==
  ASSUME ServerInv, BaseInv', EventsMatch, Next
  PROVE  EventsMatch' /\ \A c \in Connections \cap (connections' \ shutdown') : Informed(c)
<1>1. BaseInv /\ Agreement
  BY DEF ServerInv
<1>2. ASSUME NEW conn \in Connections, Request(conn)
      PROVE  /\ EventsMatch'
             /\ \A c \in Connections \cap (connections' \ shutdown') : Informed(c)
  <2>1. ~ticking /\ UNCHANGED <<connections, events>> /\ shutdown \subseteq shutdown'
    BY <1>2 DEF Request, HandleLogin, HandleRegister, HandleMatchJoin, HandleMatchCancel,
                HandleHeroSelect, HandleBattleAttack, BadFrame, Receives
  <2>2. CASE BadFrame(conn)
    <3>1. sent' = Silence /\ UNCHANGED <<sessions, queue, roomService, battles, events>>
      BY <2>2 DEF BadFrame
    <3>2. \A c \in Connections : \E request : Tells(request, c)
      BY <3>1, QuietTells
    <3> QED  BY <2>1, <3>2, EventsStay DEF Informed
  <2>3. CASE ~BadFrame(conn)
    <3>1. \E request : Everybody(request, conn)
      BY <1>1, <1>2, <2>3, LoginTells, RegisterTells, JoinTells, CancelTells, HeroSelectTells,
         AttackTells DEF Request
    <3>2. \A c \in Connections : \E request : Tells(request, c)
      BY <3>1 DEF Everybody
    <3> QED  BY <2>1, <3>2, EventsStay DEF Informed
  <2> QED  BY <2>2, <2>3
<1>3. ASSUME NEW conn \in Connections, Connect(conn)
      PROVE  /\ EventsMatch'
             /\ \A c \in Connections \cap (connections' \ shutdown') : Informed(c)
  <2>1. /\ ~ticking /\ UNCHANGED <<events, shutdown>> /\ sent' = Silence
        /\ connections' = connections \cup {conn}
    BY <1>3 DEF Connect
  <2>2. (\A c \in Connections : Tells("none", c)) /\ Picture(conn)' = LoggedOut
    BY <1>1, <1>3, ConnectTells
  <2>3. \A c \in Connections : sent'[c] = <<>>
    BY <2>1, SilenceIs
  <2> QED  BY <2>1, <2>2, <2>3, EventsStay DEF Informed
<1>4. ASSUME NEW conn \in Connections, NEW saved \in BOOLEAN, Disconnect(conn, saved)
      PROVE  /\ EventsMatch'
             /\ \A c \in Connections \cap (connections' \ shutdown') : Informed(c)
  <2>1. /\ ~ticking /\ UNCHANGED events
        /\ connections' = connections \ {conn} /\ shutdown' = shutdown \ {conn}
    BY <1>4 DEF Disconnect
  <2>2. \A c \in Connections \ {conn} : Tells("none", c)
    BY <1>1, <1>4, DisconnectTells DEF TheOthers
  <2> QED  BY <2>1, <2>2, EventsStay DEF Informed
<1>5. CASE Tick
  <2>1. EventsMatch' /\ \A c \in Connections : Tells("none", c)
    BY <1>5, TickTells
  <2>2. UNCHANGED <<connections, shutdown>>
    BY <1>5 DEF Tick, TickBegin, TickMatch, TickEnd
  <2> QED  BY <2>1, <2>2 DEF Informed
<1>6. CASE Advance
  <2>1. /\ ~ticking /\ sent' = Silence /\ UNCHANGED <<connections, shutdown>>
        /\ UNCHANGED <<sessions, queue, roomService, battles, events>>
    BY <1>6 DEF Advance
  <2>2. \A c \in Connections : Tells("none", c)
    BY <2>1, QuietTells
  <2> QED  BY <2>1, <2>2, EventsStay DEF Informed
<1> QED
  BY <1>2, <1>3, <1>4, <1>5, <1>6 DEF Next

\* Each client shows the picture its connection should show.
ToldInv ==
  /\ EventsMatch
  /\ \A c \in Connections :
       view[c] = IF c \in connections \ shutdown THEN Picture(c) ELSE LoggedOut

\* The client reads what its connection is sent.
Heard ==
  \A c \in Connections :
    view'[c] = IF c \in connections' \ shutdown' THEN Learned(view[c], sent'[c]) ELSE LoggedOut

\* A step of the views is a step of the server that every client hears.
LEMMA ViewHears == ViewNext => Next /\ Heard
<1> SUFFICES ASSUME ViewNext PROVE Heard
  BY DEF ViewNext
<1>1. \A c \in Connections :
        view'[c] = IF c \in connections' \ shutdown' THEN FoldLeft(Learn, view[c], sent'[c])
                                                     ELSE LoggedOut
  BY DEF ViewNext
<1> QED
  BY <1>1 DEF Heard, Learned

\* The invariant is inductive beside that of the server.
LEMMA ToldNext == ServerInv /\ ServerInv' /\ ToldInv /\ [ViewNext]_viewVars => ToldInv'
<1> SUFFICES ASSUME ServerInv, ServerInv', ToldInv, [ViewNext]_viewVars PROVE ToldInv'
  OBVIOUS
<1>1. CASE ViewNext
  <2>1. Next /\ Heard
    BY <1>1, ViewHears
  <2>2. EventsMatch /\ BaseInv'
    BY DEF ServerInv, ToldInv
  <2>3. /\ EventsMatch'
        /\ \A c \in Connections \cap (connections' \ shutdown') : Informed(c)
    BY <2>1, <2>2, EverybodyIsTold
  <2>4. ASSUME NEW c \in Connections, c \in connections' \ shutdown'
        PROVE  view'[c] = Picture(c)'
    <3>1. Informed(c) /\ view'[c] = Learned(view[c], sent'[c])
      BY <2>1, <2>3, <2>4 DEF Heard
    <3>2. CASE c \in connections \ shutdown
      <4>1. PICK request, ms : Story(request, Picture(c), ms, Picture(c)') /\ sent'[c] = ms
        BY <3>1, <3>2 DEF Informed, Tells
      <4>2. view[c] = Picture(c)
        BY <3>2 DEF ToldInv
      <4> QED  BY <3>1, <4>1, <4>2, StoryIsRead
    <3>3. CASE c \notin connections \ shutdown
      <4>1. view[c] = LoggedOut
        BY <3>3 DEF ToldInv
      <4> QED  BY <3>1, <3>3, <4>1, ReadNone DEF Informed
    <3> QED  BY <3>2, <3>3
  <2>5. ASSUME NEW c \in Connections, c \notin connections' \ shutdown'
        PROVE  view'[c] = LoggedOut
    BY <2>1, <2>5 DEF Heard
  <2> QED  BY <2>3, <2>4, <2>5 DEF ToldInv
<1>2. CASE UNCHANGED viewVars
  BY <1>2 DEF viewVars, vars, ToldInv, EventsMatch, Picture, PictureIn, Invited, tickets
<1> QED
  BY <1>1, <1>2

\* At the start nobody is connected.
LEMMA EventsInit == Init => EventsMatch
<1> SUFFICES ASSUME Init PROVE EventsMatch
  OBVIOUS
<1>1. events = <<>> /\ DOMAIN <<>> = {} /\ <<>> \in Seq([roomId : Nat, first : UserIds, second : UserIds])
  BY DEF Init
<1> QED
  BY <1>1 DEF EventsMatch

\* And nobody sees anything but the login scene.
LEMMA ToldInit == ViewInit => ToldInv
BY EventsInit DEF ViewInit, Init, ToldInv

\* What the invariant says of the screens.
LEMMA ToldIsTheTruth == ServerInv /\ ToldInv => PlayersAreToldTheTruth
<1> SUFFICES ASSUME ServerInv, ToldInv, ~ticking, NEW c \in connections \ shutdown
             PROVE  /\ view[c].scene = SceneOf(c)
                    /\ HasSession(sessions, c) =>
                         /\ view[c].elo = SessionOn(sessions, c).elo
                         /\ view[c].roomId = SessionOn(sessions, c).roomId
                    /\ SceneOf(c) = "battle" =>
                         /\ view[c].health = FiguresOf(c).health
                         /\ view[c].yourTurn = FiguresOf(c).yourTurn
  BY DEF PlayersAreToldTheTruth
<1>1. view[c] = Picture(c) /\ BaseInv /\ Agreement /\ EventsMatch
  BY DEF ServerInv, BaseInv, TypeOK, ToldInv
<1>2. CASE ~HasSession(sessions, c)
  BY <1>1, <1>2 DEF Picture, LoggedOut, SceneOf
<1>3. CASE HasSession(sessions, c)
  <2> DEFINE s == SessionOn(sessions, c)
  <2>1. view[c] = PictureIn(s, FALSE, tickets, roomService, battles)
    BY <1>1, <1>3, PictureBefore
  <2>2. SceneOf(c) = IF s.userId \in DOMAIN tickets THEN "queued"
                     ELSE IF s.roomId = NoRoom THEN "lobby"
                     ELSE IF s.roomId \in DOMAIN battles THEN "battle"
                     ELSE IF OwnHero(s, roomService) = NoHero THEN "heroSelect" ELSE "heroConfirmed"
    BY <1>3 DEF SceneOf, OwnHero, IsQueued, HasBattle, tickets
  <2>3. s.userId \in DOMAIN tickets => s.roomId = NoRoom
    BY <1>1, <1>3, PlayersAreSessions, AgreementOfTables DEF TablesDoAgree, TablesAgree, QueuedFree
  <2>4. FiguresOf(c).health = Fight(s, battles[s.roomId]).health
        /\ FiguresOf(c).yourTurn = Fight(s, battles[s.roomId]).yourTurn
    BY DEF FiguresOf, Fight, Shown
  <2> HIDE DEF s
  <2>5. view[c].scene = SceneOf(c) /\ view[c].elo = s.elo /\ view[c].roomId = s.roomId
    BY <2>1, <2>2, <2>3 DEF PictureIn, Calm, Shown, Fight
  <2>6. SceneOf(c) = "battle" => view[c] = Fight(s, battles[s.roomId])
    BY <2>1, <2>2 DEF PictureIn
  <2> QED  BY <1>3, <2>4, <2>5, <2>6 DEF s
<1> QED
  BY <1>2, <1>3

\* Every player on an open connection is told what the server holds of him: his scene, his
\* room, his ELO, and in a battle both healths and whose turn it is. Whatever handler changes
\* another player's state says so to that player, for any number of players, connections
\* and messages.
THEOREM PlayersAreAlwaysToldTheTruth == ViewSpec => []PlayersAreToldTheTruth
<1>1. ViewInit => Init /\ ToldInv
  BY ToldInit DEF ViewInit
<1>2. [ViewNext]_viewVars => [Next]_vars
  BY DEF ViewNext, viewVars
<1>3. Init => ServerInv
  BY BaseInvInit, AgreementInit DEF ServerInv
<1> QED
  BY <1>1, <1>2, <1>3, ServerInvNext, ToldNext, ToldIsTheTruth, PTL DEF ViewSpec

-----------------------------------------------------------------------------
(* Rows of messages: what is on its way in one direction of a connection. *)

\* A sequence of messages of whatever kind.
Row(q) == \E S : q \in Seq(S)

\* One message more, at the end.
LEMMA RowGrows ==
  ASSUME NEW q, Row(q), NEW m
  PROVE  /\ Row(Append(q, m)) /\ Len(q) \in Nat /\ Len(Append(q, m)) = Len(q) + 1
         /\ Append(q, m)[Len(q) + 1] = m
         /\ \A i \in 1..Len(q) : Append(q, m)[i] = q[i]
<1>1. PICK S : q \in Seq(S)
  BY DEF Row
<1>2. q \in Seq(S \cup {m})
  BY <1>1
<1>3. m \in S \cup {m}
  OBVIOUS
<1>4. /\ Append(q, m) \in Seq(S \cup {m}) /\ Len(Append(q, m)) = Len(q) + 1
      /\ \A i \in 1..Len(q) : Append(q, m)[i] = q[i]
      /\ Append(q, m)[Len(q) + 1] = m
  BY <1>2, <1>3, AppendProperties
<1> QED
  BY <1>1, <1>4, LenProperties DEF Row

\* One message less, at the head.
LEMMA RowShrinks ==
  ASSUME NEW q, Row(q), q # <<>>
  PROVE  /\ Row(Tail(q)) /\ Len(q) \in Nat \ {0} /\ Len(Tail(q)) = Len(q) - 1
         /\ Head(q) = q[1]
         /\ \A i \in 1..(Len(q) - 1) : Tail(q)[i] = q[i + 1]
<1>1. PICK S : q \in Seq(S)
  BY DEF Row
<1>2. /\ Tail(q) \in Seq(S) /\ Len(Tail(q)) = Len(q) - 1
      /\ \A i \in 1..Len(Tail(q)) : Tail(q)[i] = q[i + 1]
  BY <1>1, HeadTailProperties
<1>3. Len(q) \in Nat /\ (Len(q) = 0 => q = <<>>)
  BY <1>1, EmptySeq
<1> QED
  BY <1>1, <1>2, <1>3 DEF Row

\* No messages.
LEMMA RowEmpty == Row(<<>>) /\ Len(<<>>) = 0 /\ \A q : Row(q) /\ Len(q) = 0 => q = <<>>
<1>1. <<>> \in Seq({}) /\ Len(<<>>) = 0
  OBVIOUS
<1>2. ASSUME NEW q, Row(q), Len(q) = 0 PROVE q = <<>>
  <2>1. PICK S : q \in Seq(S)
    BY <1>2 DEF Row
  <2> QED  BY <1>2, <2>1, EmptySeq
<1> QED
  BY <1>1, <1>2 DEF Row

\* Two messages are appended one after the other, and three.
LEMMA RowJoins ==
  ASSUME NEW q, Row(q)
  PROVE  /\ q \o <<>> = q
         /\ \A m : q \o <<m>> = Append(q, m)
         /\ \A m, n : q \o <<m, n>> = Append(Append(q, m), n)
         /\ \A m, n, o : q \o <<m, n, o>> = Append(Append(Append(q, m), n), o)
<1>1. PICK S : q \in Seq(S)
  BY DEF Row
<1>2. q \o <<>> = q
  BY <1>1, ConcatEmptySeq
<1>3. ASSUME NEW T, NEW s \in Seq(T), NEW m \in T
      PROVE  s \o <<m>> = Append(s, m)
  BY <1>3, AppendIsConcat
<1>4. ASSUME NEW m PROVE q \o <<m>> = Append(q, m)
  <2>1. q \in Seq(S \cup {m}) /\ m \in S \cup {m}
    BY <1>1
  <2> QED  BY <2>1, <1>3
<1>5. ASSUME NEW m, NEW n PROVE q \o <<m, n>> = Append(Append(q, m), n)
  <2> DEFINE T == S \cup {m, n}
  <2>1. q \in Seq(T) /\ m \in T /\ n \in T /\ <<m>> \in Seq(T) /\ <<n>> \in Seq(T)
    BY <1>1
  <2>2. <<m, n>> = <<m>> \o <<n>>
    <3>1. Append(<<m>>, n) = <<m>> \o <<n>>
      BY <2>1, <1>3
    <3> QED  BY <3>1, Appended
  <2> HIDE DEF T
  <2>3. q \o <<m, n>> = (q \o <<m>>) \o <<n>>
    BY <2>1, <2>2, ConcatAssociative
  <2>4. Append(q, m) \in Seq(T)
    BY <2>1, AppendProperties
  <2> QED  BY <2>1, <2>3, <2>4, <1>3, <1>4
<1>6. ASSUME NEW m, NEW n, NEW o
      PROVE  q \o <<m, n, o>> = Append(Append(Append(q, m), n), o)
  <2> DEFINE T == S \cup {m, n, o}
  <2>1. /\ q \in Seq(T) /\ m \in T /\ n \in T /\ o \in T
        /\ <<m, n>> \in Seq(T) /\ <<o>> \in Seq(T)
    BY <1>1
  <2>2. <<m, n, o>> = <<m, n>> \o <<o>>
    <3>1. Append(<<m, n>>, o) = <<m, n>> \o <<o>>
      BY <2>1, <1>3
    <3> QED  BY <3>1, Appended
  <2> HIDE DEF T
  <2>3. q \o <<m, n, o>> = (q \o <<m, n>>) \o <<o>>
    BY <2>1, <2>2, ConcatAssociative
  <2>4. Append(Append(q, m), n) \in Seq(T)
    BY <2>1, AppendProperties
  <2> QED  BY <2>1, <2>3, <2>4, <1>3, <1>5
<1> QED
  BY <1>2, <1>4, <1>5, <1>6

\* The type of a message at some place of a row.
In(q, type) == \E i \in 1..Len(q) : q[i].type = type

\* Of each of these types there is one message at most.
Once(q, types) ==
  \A i, j \in 1..Len(q) : q[i].type = q[j].type /\ q[i].type \in types => i = j

\* The row r is q with m at its end.
Longer(q, m, r) ==
  /\ Len(q) \in Nat /\ Len(r) = Len(q) + 1 /\ r[Len(q) + 1] = m
  /\ \A i \in 1..Len(q) : r[i] = q[i]

\* The row r is q without its head.
Shorter(q, r) ==
  /\ Len(q) \in Nat \ {0} /\ Len(r) = Len(q) - 1
  /\ \A i \in 1..Len(r) : r[i] = q[i + 1]

\* What is in a row that has grown, and what is there once.
LEMMA InLonger ==
  ASSUME NEW q, NEW m, NEW r, Longer(q, m, r)
  PROVE  \A type : In(r, type) <=> In(q, type) \/ m.type = type
<1> TAKE type
<1>1. In(q, type) => In(r, type)
  BY DEF In, Longer
<1>2. m.type = type => In(r, type)
  <2>1. Len(q) + 1 \in 1..Len(r)
    BY DEF Longer
  <2> QED  BY <2>1 DEF In, Longer
<1>3. In(r, type) => In(q, type) \/ m.type = type
  <2> SUFFICES ASSUME NEW i \in 1..Len(r), r[i].type = type, i # Len(q) + 1
               PROVE  In(q, type)
    BY DEF In, Longer
  <2>1. i \in 1..Len(q) /\ r[i] = q[i]
    BY DEF Longer
  <2> QED  BY <2>1 DEF In
<1> QED
  BY <1>1, <1>2, <1>3

\* What is there once, in a row that has grown.
LEMMA OnceLonger ==
  ASSUME NEW q, NEW m, NEW r, Longer(q, m, r), NEW types, Once(q, types),
         m.type \in types => ~In(q, m.type)
  PROVE  Once(r, types)
<1> SUFFICES ASSUME NEW i \in 1..Len(r), NEW j \in 1..Len(r),
                    r[i].type = r[j].type, r[i].type \in types
             PROVE  i = j
  BY DEF Once
<1>1. CASE i \in 1..Len(q) /\ j \in 1..Len(q)
  BY <1>1 DEF Once, Longer
<1>2. CASE i \in 1..Len(q) /\ j = Len(q) + 1
  BY <1>2 DEF In, Longer
<1>3. CASE j \in 1..Len(q) /\ i = Len(q) + 1
  BY <1>3 DEF In, Longer
<1> QED
  BY <1>1, <1>2, <1>3 DEF Longer

\* What is in a row that has lost its head.
LEMMA InShorter ==
  ASSUME NEW q, NEW r, Shorter(q, r)
  PROVE  /\ \A type : In(q, type) <=> In(r, type) \/ q[1].type = type
         /\ In(q, q[1].type)
<1>1. ASSUME NEW type, In(r, type) PROVE In(q, type)
  <2>1. PICK i \in 1..Len(r) : r[i].type = type
    BY <1>1 DEF In
  <2>2. i + 1 \in 1..Len(q) /\ q[i + 1] = r[i]
    BY DEF Shorter
  <2> QED  BY <2>1, <2>2 DEF In
<1>2. In(q, q[1].type)
  BY DEF In, Shorter
<1>3. ASSUME NEW type, In(q, type), q[1].type # type PROVE In(r, type)
  <2>1. PICK i \in 1..Len(q) : q[i].type = type
    BY <1>3 DEF In
  <2>2. i - 1 \in 1..Len(r) /\ r[i - 1] = q[i]
    BY <1>3, <2>1 DEF Shorter
  <2> QED  BY <2>1, <2>2 DEF In
<1> QED
  BY <1>1, <1>2, <1>3

\* And in one that has lost its head.
LEMMA OnceShorter ==
  ASSUME NEW q, NEW r, Shorter(q, r), NEW types, Once(q, types)
  PROVE  /\ Once(r, types)
         /\ q[1].type \in types => ~In(r, q[1].type)
<1>1. ASSUME NEW i \in 1..Len(r), NEW j \in 1..Len(r), r[i].type = r[j].type, r[i].type \in types
      PROVE  i = j
  <2>1. i + 1 \in 1..Len(q) /\ j + 1 \in 1..Len(q) /\ r[i] = q[i + 1] /\ r[j] = q[j + 1]
    BY DEF Shorter
  <2>2. i + 1 = j + 1
    BY <1>1, <2>1 DEF Once
  <2> QED  BY <2>2
<1>2. ASSUME q[1].type \in types, NEW i \in 1..Len(r), r[i].type = q[1].type
      PROVE  FALSE
  <2>1. 1 \in 1..Len(q) /\ i + 1 \in 1..Len(q) /\ r[i] = q[i + 1]
    BY DEF Shorter
  <2>2. i + 1 = 1
    BY <1>2, <2>1 DEF Once
  <2> QED  BY <2>2
<1> QED
  BY <1>1, <1>2 DEF Once, In

-----------------------------------------------------------------------------
(* What the messages on their way down will show, one after the other. *)

\* The scenes of a player in a room.
RoomScenes == {"heroSelect", "heroConfirmed", "battle"}

\* The pictures of ClientView, as PictureIn paints them.
IsPicture(P) ==
  /\ P = Shown(P.scene, P.roomId, P.elo, P.health, P.yourTurn)
  /\ P.scene \in {"login", "lobby", "queued"} \cup RoomScenes
  /\ P.yourTurn \in BOOLEAN
  /\ P.scene # "battle" => P.yourTurn = FALSE /\ P.health = <<0, 0>>

\* The message m leads from P to Q.
Leads(P, m, Q) ==
  \/ /\ Q = P
     /\ \/ m.type = "REGISTER_RSP"
        \/ m.type \in {"LOGIN_RSP", "MATCH_JOIN_RSP", "HERO_SELECT_RSP"} /\ ~m.accepted
        \/ m.type = "MATCH_CANCEL_RSP" /\ ~m.accepted /\ P.scene # "queued"
  \/ /\ Q.scene # "battle" /\ Q.health = <<0, 0>> /\ Q.yourTurn = FALSE
     /\ \/ /\ m.type = "LOGIN_RSP" /\ m.accepted
           /\ P.scene = "login" /\ Q.scene = "lobby" /\ Q.elo = m.elo
        \/ /\ m.type = "MATCH_JOIN_RSP" /\ m.accepted
           /\ P.scene = "lobby" /\ Q.scene = "queued" /\ Q.elo = P.elo
        \/ /\ m.type = "MATCH_CANCEL_RSP" /\ m.accepted
           /\ P.scene = "queued" /\ Q.scene = "lobby" /\ Q.elo = P.elo
        \/ /\ m.type = "HERO_SELECT_RSP" /\ m.accepted
           /\ P.scene = "heroSelect" /\ Q.scene = "heroConfirmed"
           /\ Q.elo = P.elo /\ Q.roomId = P.roomId
        \/ /\ m.type = "MATCH_FOUND_NTF"
           /\ P.scene = "queued" /\ Q.scene = "heroSelect" /\ Q.elo = P.elo /\ Q.roomId = m.roomId
        \/ /\ m.type = "ROOM_CLOSED_NTF" /\ m.roomId = P.roomId
           /\ P.scene \in {"heroSelect", "heroConfirmed"} /\ Q.scene = "lobby" /\ Q.elo = P.elo
        \/ /\ m.type = "BATTLE_RESULT_NTF" /\ m.roomId = P.roomId
           /\ P.scene = "battle" /\ Q.scene = "lobby" /\ Q.elo = m.elo
  \/ /\ Q.scene = "battle" /\ Q.elo = P.elo /\ Q.roomId = P.roomId /\ m.roomId = P.roomId
     /\ \/ /\ m.type = "BATTLE_START_NTF" /\ P.scene = "heroConfirmed"
           /\ Q.health = <<0, 0>> /\ Q.yourTurn = FALSE
        \/ /\ m.type = "BATTLE_STATE_NTF" /\ P.scene = "battle"
           /\ Q.health = <<m.own, m.opponent>> /\ Q.yourTurn = m.yourTurn
           /\ m.yourTurn \in BOOLEAN /\ (m.yourTurn => ~P.yourTurn)

\* A picture of a battle.
LEMMA FightShows ==
  ASSUME NEW id, NEW elo, NEW health, NEW turn \in BOOLEAN
  PROVE  LET P == Shown("battle", id, elo, health, turn) IN
         /\ IsPicture(P) /\ P.scene = "battle" /\ P.roomId = id /\ P.elo = elo
         /\ P.health = health /\ P.yourTurn = turn
BY DEF IsPicture, Shown, RoomScenes

\* Whatever the server may send leads to what the client then sees.
LEMMA MayLeads ==
  ASSUME NEW P, IsPicture(P), NEW m, May(P, m)
  PROVE  IsPicture(Learn(P, m)) /\ Leads(P, m, Learn(P, m))
<1> DEFINE Q == Learn(P, m)
<1>1. CASE \/ m.type = "REGISTER_RSP"
           \/ /\ m.type \in {"LOGIN_RSP", "MATCH_JOIN_RSP", "MATCH_CANCEL_RSP", "HERO_SELECT_RSP"}
              /\ ~m.accepted
  <2>1. Q = P
    BY <1>1, LearnNothing
  <2> QED  BY <1>1, <2>1 DEF May, Leads
<1> PICK scene : scene = P.scene
  OBVIOUS
<1> PICK id : id = P.roomId
  OBVIOUS
<1> PICK elo : elo = P.elo
  OBVIOUS
<1> PICK health : health = P.health
  OBVIOUS
<1> PICK turn : turn = P.yourTurn
  OBVIOUS
<1>2. P = Shown(scene, id, elo, health, turn)
  BY DEF IsPicture
<1>3. scene # "battle" => health = <<0, 0>> /\ turn = FALSE
  BY DEF IsPicture
<1>4. CASE m.type = "LOGIN_RSP" /\ m.accepted
  <2>1. Q = Calm("lobby", NoRoom, m.elo)
    BY <1>2, <1>4 DEF Learn, InLobby, Shown, Calm
  <2> HIDE DEF Q
  <2>4. /\ IsPicture(Q) /\ Q.scene = "lobby" /\ Q.roomId = NoRoom /\ Q.elo = m.elo
        /\ Q.yourTurn = FALSE /\ Q.health = <<0, 0>>
    BY <2>1 DEF Calm, Shown, IsPicture, RoomScenes
  <2> QED  BY <1>4, <2>4 DEF May, Leads, Q
<1>5. CASE m.type = "MATCH_JOIN_RSP" /\ m.accepted
  <2>1. Q = Shown("queued", id, elo, health, turn)
    BY <1>2, <1>5 DEF Learn, Shown
  <2>2. scene = "lobby"
    BY <1>5 DEF May
  <2> HIDE DEF Q
  <2>3. Q = Calm("queued", id, elo)
    BY <1>3, <2>1, <2>2 DEF Calm
  <2>4. /\ IsPicture(Q) /\ Q.scene = "queued" /\ Q.roomId = id /\ Q.elo = elo
        /\ Q.yourTurn = FALSE /\ Q.health = <<0, 0>>
    BY <2>3 DEF Calm, Shown, IsPicture, RoomScenes
  <2> QED  BY <1>5, <2>2, <2>4 DEF Leads, Q
<1>6. CASE m.type = "MATCH_CANCEL_RSP" /\ m.accepted
  <2>1. Q = Shown("lobby", id, elo, health, turn)
    BY <1>2, <1>6 DEF Learn, Shown
  <2>2. scene = "queued"
    BY <1>6 DEF May
  <2> HIDE DEF Q
  <2>3. Q = Calm("lobby", id, elo)
    BY <1>3, <2>1, <2>2 DEF Calm
  <2>4. /\ IsPicture(Q) /\ Q.scene = "lobby" /\ Q.roomId = id /\ Q.elo = elo
        /\ Q.yourTurn = FALSE /\ Q.health = <<0, 0>>
    BY <2>3 DEF Calm, Shown, IsPicture, RoomScenes
  <2> QED  BY <1>6, <2>2, <2>4 DEF Leads, Q
<1>7. CASE m.type = "HERO_SELECT_RSP" /\ m.accepted
  <2>1. Q = Shown("heroConfirmed", id, elo, health, turn)
    BY <1>2, <1>7 DEF Learn, Shown
  <2>2. scene = "heroSelect"
    BY <1>7 DEF May
  <2> HIDE DEF Q
  <2>3. Q = Calm("heroConfirmed", id, elo)
    BY <1>3, <2>1, <2>2 DEF Calm
  <2>4. /\ IsPicture(Q) /\ Q.scene = "heroConfirmed" /\ Q.roomId = id /\ Q.elo = elo
        /\ Q.yourTurn = FALSE /\ Q.health = <<0, 0>>
    BY <2>3 DEF Calm, Shown, IsPicture, RoomScenes
  <2> QED  BY <1>7, <2>2, <2>4 DEF Leads, Q
<1>8. CASE m.type = "MATCH_FOUND_NTF"
  <2>1. Q = Shown("heroSelect", m.roomId, elo, health, turn)
    BY <1>2, <1>8 DEF Learn, Shown
  <2>2. scene = "queued"
    BY <1>8 DEF May
  <2> HIDE DEF Q
  <2>3. Q = Calm("heroSelect", m.roomId, elo)
    BY <1>3, <2>1, <2>2 DEF Calm
  <2>4. /\ IsPicture(Q) /\ Q.scene = "heroSelect" /\ Q.roomId = m.roomId /\ Q.elo = elo
        /\ Q.yourTurn = FALSE /\ Q.health = <<0, 0>>
    BY <2>3 DEF Calm, Shown, IsPicture, RoomScenes
  <2> QED  BY <1>8, <2>2, <2>4 DEF Leads, Q
<1>9. CASE m.type = "ROOM_CLOSED_NTF"
  <2>1. Q = Calm("lobby", NoRoom, elo)
    BY <1>2, <1>9 DEF Learn, InLobby, Shown, Calm
  <2> HIDE DEF Q
  <2>4. /\ IsPicture(Q) /\ Q.scene = "lobby" /\ Q.roomId = NoRoom /\ Q.elo = elo
        /\ Q.yourTurn = FALSE /\ Q.health = <<0, 0>>
    BY <2>1 DEF Calm, Shown, IsPicture, RoomScenes
  <2> QED  BY <1>9, <2>4 DEF May, Leads, Q
<1>10. CASE m.type = "BATTLE_START_NTF"
  <2>1. Q = Shown("battle", m.roomId, elo, health, turn)
    BY <1>2, <1>10 DEF Learn, Shown
  <2>2. scene = "heroConfirmed" /\ m.roomId = id
    BY <1>10 DEF May
  <2> HIDE DEF Q
  <2>3. Q = Shown("battle", id, elo, <<0, 0>>, FALSE)
    BY <1>3, <2>1, <2>2
  <2>4. /\ IsPicture(Q) /\ Q.scene = "battle" /\ Q.roomId = id /\ Q.elo = elo
        /\ Q.yourTurn = FALSE /\ Q.health = <<0, 0>>
    BY <2>3 DEF Shown, IsPicture, RoomScenes
  <2> QED  BY <1>10, <2>2, <2>4 DEF Leads, Q
<1>11. CASE m.type = "BATTLE_STATE_NTF"
  <2>1. Q = Shown(scene, id, elo, <<m.own, m.opponent>>, m.yourTurn)
    BY <1>2, <1>11 DEF Learn, Shown
  <2>2. scene = "battle"
    BY <1>11 DEF May
  <2> HIDE DEF Q
  <2> QED  BY <1>11, <2>1, <2>2, FightShows DEF Leads, May, Q
<1>12. CASE m.type = "BATTLE_RESULT_NTF"
  <2>1. Q = Calm("lobby", NoRoom, m.elo)
    BY <1>2, <1>12 DEF Learn, InLobby, Shown, Calm
  <2> HIDE DEF Q
  <2>4. /\ IsPicture(Q) /\ Q.scene = "lobby" /\ Q.roomId = NoRoom /\ Q.elo = m.elo
        /\ Q.yourTurn = FALSE /\ Q.health = <<0, 0>>
    BY <2>1 DEF Calm, Shown, IsPicture, RoomScenes
  <2> QED  BY <1>12, <2>4 DEF May, Leads, Q
<1>13. \/ m.type = "REGISTER_RSP"
       \/ m.type \in {"LOGIN_RSP", "MATCH_JOIN_RSP", "MATCH_CANCEL_RSP", "HERO_SELECT_RSP"}
       \/ m.type \in {"MATCH_FOUND_NTF", "ROOM_CLOSED_NTF", "BATTLE_START_NTF",
                      "BATTLE_STATE_NTF", "BATTLE_RESULT_NTF"}
  BY DEF May
<1> QED
  BY <1>1, <1>4, <1>5, <1>6, <1>7, <1>8, <1>9, <1>10, <1>11, <1>12, <1>13

-----------------------------------------------------------------------------
(* What a client reads. *)

\* The fields of a client.
IsClient(C) ==
  /\ C = [socket |-> C.socket, conn |-> C.conn, pendingAction |-> C.pendingAction,
          scene |-> C.scene, elo |-> C.elo, matchedRoomId |-> C.matchedRoomId,
          matchButton |-> C.matchButton, matchmakingQueued |-> C.matchmakingQueued,
          selectedHero |-> C.selectedHero, heroButtons |-> C.heroButtons,
          confirmButton |-> C.confirmButton, attackButton |-> C.attackButton,
          returnLobbyButton |-> C.returnLobbyButton, health |-> C.health]
  /\ C.matchButton \in BOOLEAN /\ C.matchmakingQueued \in BOOLEAN
  /\ C.heroButtons \in BOOLEAN /\ C.confirmButton \in BOOLEAN
  /\ C.attackButton \in BOOLEAN /\ C.returnLobbyButton \in BOOLEAN

\* Parts of the client that stay as they are.
SameSocket(C, D) == D.socket = C.socket /\ D.conn = C.conn
SameFigures(C, D) == D.elo = C.elo /\ D.matchedRoomId = C.matchedRoomId
SameLobby(C, D) == D.matchButton = C.matchButton /\ D.matchmakingQueued = C.matchmakingQueued
SameChoice(C, D) ==
  /\ D.selectedHero = C.selectedHero
  /\ D.heroButtons = C.heroButtons /\ D.confirmButton = C.confirmButton
SameBattle(C, D) ==
  /\ D.attackButton = C.attackButton /\ D.returnLobbyButton = C.returnLobbyButton
  /\ D.health = C.health

\* The client goes from C to D when it reads m, field by field.
ReadsTo(C, m, D) ==
  \/ /\ D = C
     /\ \/ m.type = "REGISTER_RSP"
        \/ m.type = "LOGIN_RSP" /\ ~m.accepted
        \/ m.type = "MATCH_CANCEL_RSP" /\ C.scene # "lobby"
        \/ m.type \in RoomNotifications /\ m.roomId # C.matchedRoomId
  \/ /\ m.type = "LOGIN_RSP" /\ m.accepted
     /\ D.scene = "lobby" /\ D.elo = m.elo /\ D.matchedRoomId = C.matchedRoomId
     /\ SameLobby(C, D) /\ SameChoice(C, D) /\ SameBattle(C, D)
  \/ /\ m.type = "MATCH_JOIN_RSP"
     /\ D.scene = C.scene /\ SameFigures(C, D) /\ SameChoice(C, D) /\ SameBattle(C, D)
     /\ D.matchButton /\ (D.matchmakingQueued <=> m.accepted)
  \/ /\ m.type = "MATCH_CANCEL_RSP" /\ C.scene = "lobby"
     /\ D.scene = "lobby" /\ SameFigures(C, D) /\ SameChoice(C, D) /\ SameBattle(C, D)
     /\ D.matchButton /\ ~D.matchmakingQueued
  \/ /\ m.type = "MATCH_FOUND_NTF"
     /\ D.scene = "heroSelect" /\ D.elo = C.elo /\ D.matchedRoomId = m.roomId
     /\ SameLobby(C, D) /\ SameBattle(C, D)
     /\ D.selectedHero = NoHero /\ D.heroButtons /\ ~D.confirmButton
  \/ /\ m.type = "HERO_SELECT_RSP"
     /\ D.scene = C.scene /\ SameFigures(C, D) /\ SameLobby(C, D) /\ SameBattle(C, D)
     /\ D.selectedHero = C.selectedHero
     /\ IF m.accepted THEN ~D.heroButtons /\ ~D.confirmButton
                      ELSE D.heroButtons /\ (D.confirmButton <=> C.selectedHero # NoHero)
  \/ /\ m.type = "ROOM_CLOSED_NTF" /\ m.roomId = C.matchedRoomId
     /\ D.scene = "lobby" /\ D.elo = C.elo /\ SameChoice(C, D) /\ SameBattle(C, D)
     /\ D.matchButton /\ ~D.matchmakingQueued
  \/ /\ m.type = "BATTLE_START_NTF" /\ m.roomId = C.matchedRoomId
     /\ D.scene = "battle" /\ SameFigures(C, D) /\ SameLobby(C, D) /\ SameChoice(C, D)
     /\ SameBattle(C, D)
  \/ /\ m.type = "BATTLE_STATE_NTF" /\ m.roomId = C.matchedRoomId
     /\ D.scene = C.scene /\ SameFigures(C, D) /\ SameLobby(C, D) /\ SameChoice(C, D)
     /\ D.attackButton = m.yourTurn /\ D.returnLobbyButton = C.returnLobbyButton
     /\ D.health = <<m.own, m.opponent>>
  \/ /\ m.type = "BATTLE_RESULT_NTF" /\ m.roomId = C.matchedRoomId
     /\ D.scene = C.scene /\ D.elo = m.elo /\ D.matchedRoomId = C.matchedRoomId
     /\ SameLobby(C, D) /\ SameChoice(C, D)
     /\ ~D.attackButton /\ D.returnLobbyButton /\ D.health = C.health

\* A client that reads what it may be sent changes in the fields named above.
LEMMA ReadIs ==
  ASSUME NEW C, IsClient(C), NEW P, NEW m, NEW Q, Leads(P, m, Q)
  PROVE  LET D == Read(C, m) IN IsClient(D) /\ SameSocket(C, D) /\ ReadsTo(C, m, D)
<1> DEFINE D == Read(C, m)
<1>0. m.type = "BATTLE_STATE_NTF" => m.yourTurn \in BOOLEAN
  BY DEF Leads
<1>1. CASE m.type = "REGISTER_RSP" \/ (m.type = "LOGIN_RSP" /\ ~m.accepted)
  <2>1. D = C
    BY <1>1 DEF Read, RoomNotifications
  <2> QED  BY <1>1, <2>1 DEF ReadsTo, SameSocket
<1>2. CASE m.type = "LOGIN_RSP" /\ m.accepted
  <2>1. D = LoggedIn(C, m)
    BY <1>2 DEF Read, RoomNotifications
  <2> HIDE DEF D
  <2> QED  BY <1>2, <2>1 DEF ReadsTo, LoggedIn, IsClient, SameSocket, SameLobby, SameChoice, SameBattle, D
<1>3. CASE m.type = "MATCH_JOIN_RSP" /\ m.accepted
  <2>1. D = ShowMatchmakingQueued(C)
    BY <1>3 DEF Read, RoomNotifications
  <2> HIDE DEF D
  <2> QED  BY <1>3, <2>1 DEF ReadsTo, ShowMatchmakingQueued, IsClient, SameSocket, SameFigures, SameChoice, SameBattle, D
<1>4. CASE m.type = "MATCH_JOIN_RSP" /\ ~m.accepted
  <2>1. D = ShowMatchJoinRejected(C)
    BY <1>4 DEF Read, RoomNotifications
  <2> HIDE DEF D
  <2> QED  BY <1>4, <2>1 DEF ReadsTo, ShowMatchJoinRejected, ShowMatchmakingReady, IsClient, SameSocket, SameFigures, SameChoice, SameBattle, D
<1>5. CASE m.type = "MATCH_CANCEL_RSP"
  <2>1. D = CancelAnswered(C)
    BY <1>5 DEF Read, RoomNotifications
  <2> HIDE DEF D
  <2> QED  BY <1>5, <2>1 DEF ReadsTo, CancelAnswered, ShowMatchmakingReady, IsClient, SameSocket, SameFigures, SameChoice, SameBattle, D
<1>6. CASE m.type = "MATCH_FOUND_NTF"
  <2>1. D = EnterHeroSelect(C, m.roomId)
    BY <1>6 DEF Read, RoomNotifications
  <2> HIDE DEF D
  <2> QED  BY <1>6, <2>1 DEF ReadsTo, EnterHeroSelect, ResetSelection, IsClient, SameSocket, SameLobby, SameBattle, D
<1>7. CASE m.type = "HERO_SELECT_RSP" /\ m.accepted
  <2>1. D = ShowSelectionAccepted(C)
    BY <1>7 DEF Read, RoomNotifications
  <2> HIDE DEF D
  <2> QED  BY <1>7, <2>1 DEF ReadsTo, ShowSelectionAccepted, IsClient, SameSocket, SameFigures, SameLobby, SameBattle, D
<1>8. CASE m.type = "HERO_SELECT_RSP" /\ ~m.accepted
  <2>1. D = ShowSelectionRejected(C)
    BY <1>8 DEF Read, RoomNotifications
  <2> HIDE DEF D
  <2> QED  BY <1>8, <2>1 DEF ReadsTo, ShowSelectionRejected, IsClient, SameSocket, SameFigures, SameLobby, SameBattle, D
<1>9. CASE m.type \in RoomNotifications /\ m.roomId # C.matchedRoomId
  <2>1. D = C
    BY <1>9 DEF Read, RoomNotifications, OfMyRoom
  <2> QED  BY <1>9, <2>1 DEF ReadsTo, SameSocket
<1>10. CASE m.type = "ROOM_CLOSED_NTF" /\ m.roomId = C.matchedRoomId
  <2>1. D = LeaveClosedRoom(C)
    BY <1>10 DEF Read, RoomNotifications, OfMyRoom, ReadRoomNotification
  <2> HIDE DEF D
  <2> QED  BY <1>10, <2>1 DEF ReadsTo, LeaveClosedRoom, ShowRoomClosed, ShowMatchmakingReady, IsClient, SameSocket, SameChoice, SameBattle, D
<1>11. CASE m.type = "BATTLE_START_NTF" /\ m.roomId = C.matchedRoomId
  <2>1. D = [C EXCEPT !.scene = "battle"]
    BY <1>11 DEF Read, RoomNotifications, OfMyRoom, ReadRoomNotification
  <2> HIDE DEF D
  <2> QED  BY <1>11, <2>1 DEF ReadsTo, IsClient, SameSocket, SameFigures, SameLobby, SameChoice, SameBattle, D
<1>12. CASE m.type = "BATTLE_STATE_NTF" /\ m.roomId = C.matchedRoomId
  <2>1. D = ShowBattleState(C, m)
    BY <1>12 DEF Read, RoomNotifications, OfMyRoom, ReadRoomNotification
  <2> HIDE DEF D
  <2> QED  BY <1>0, <1>12, <2>1 DEF ReadsTo, ShowBattleState, IsClient, SameSocket, SameFigures, SameLobby, SameChoice, D
<1>13. CASE m.type = "BATTLE_RESULT_NTF" /\ m.roomId = C.matchedRoomId
  <2>1. D = ShowBattleResult(C, m)
    BY <1>13 DEF Read, RoomNotifications, OfMyRoom, ReadRoomNotification
  <2> HIDE DEF D
  <2> QED  BY <1>13, <2>1 DEF ReadsTo, ShowBattleResult, IsClient, SameSocket, SameLobby, SameChoice, D
<1> HIDE DEF D
<1> QED
  BY <1>1, <1>2, <1>3, <1>4, <1>5, <1>6, <1>7, <1>8, <1>9, <1>10, <1>11, <1>12, <1>13
     DEF Leads, RoomNotifications, D

-----------------------------------------------------------------------------
(* How what a client shows goes with what it is about to read. *)

\* P[k] is what the player sees once he has read k more messages.
Follows(P, d) ==
  /\ IsPicture(P[0])
  /\ \A k \in 1..Len(d) : IsPicture(P[k]) /\ Leads(P[k - 1], d[k], P[k])

\* It is the player's move: only a forfeit changes what he sees before he acts.
HisMove(P) == P.scene = "lobby" \/ (P.scene = "battle" /\ P.yourTurn)

\* The widgets of a client at the login scene are as they were created.
Fresh(C) ==
  /\ C.matchButton /\ ~C.matchmakingQueued
  /\ C.selectedHero = NoHero /\ C.heroButtons /\ ~C.confirmButton
  /\ ~C.attackButton /\ ~C.returnLobbyButton

\* The client's memory goes with the picture.
Remembers(C, P) ==
  /\ C.scene = "login" <=> P.scene = "login"
  /\ P.scene = "login" => Fresh(C)
  /\ P.scene # "login" => C.elo = P.elo
  /\ P.scene \in RoomScenes => C.matchedRoomId = P.roomId
  /\ P.scene = "battle" /\ P.health # <<0, 0>> => C.health = P.health

\* The scene and the buttons of a patient player's client go with the picture. A
\* client may show the battle after its end; the server has its player in the lobby.
OnScreen(C, P) ==
  /\ P.scene = "lobby" => \/ C.scene = "lobby" /\ ~C.matchmakingQueued
                          \/ C.scene = "battle" /\ C.returnLobbyButton
  /\ P.scene = "queued" => C.scene = "lobby" /\ C.matchmakingQueued
  /\ P.scene \in {"heroSelect", "heroConfirmed"} => C.scene = "heroSelect"
  /\ P.scene = "heroConfirmed" => ~C.heroButtons /\ ~C.confirmButton
  /\ P.scene = "battle" => C.scene = "battle"
  /\ C.returnLobbyButton => C.scene = "battle" /\ P.scene = "lobby"
  /\ C.confirmButton => C.heroButtons
  /\ C.heroButtons /\ C.selectedHero # NoHero => C.confirmButton
  /\ C.attackButton => P.scene = "battle" /\ P.yourTurn

\* The three requests that are answered, on their way up or the answer on its way down.
AwaitsJoin(u, d) == In(u, "MATCH_JOIN_REQ") \/ In(d, "MATCH_JOIN_RSP")
AwaitsAnswer(u, d) == In(u, "MATCH_CANCEL_REQ") \/ In(d, "MATCH_CANCEL_RSP")
AwaitsHero(u, d) == In(u, "HERO_SELECT_REQ") \/ In(d, "HERO_SELECT_RSP")

\* Nothing is asked twice, and nobody asks to join behind something else he wants.
OneAtATime(u, d) ==
  /\ Once(u, {"MATCH_JOIN_REQ", "MATCH_CANCEL_REQ", "HERO_SELECT_REQ", "BATTLE_ATTACK_REQ"})
  /\ Once(d, {"MATCH_JOIN_RSP", "MATCH_CANCEL_RSP", "HERO_SELECT_RSP"})
  /\ ~(In(u, "MATCH_JOIN_REQ") /\ In(d, "MATCH_JOIN_RSP"))
  /\ ~(In(u, "MATCH_CANCEL_REQ") /\ In(d, "MATCH_CANCEL_RSP"))
  /\ ~(In(u, "HERO_SELECT_REQ") /\ In(d, "HERO_SELECT_RSP"))
  /\ AwaitsJoin(u, d) => ~AwaitsAnswer(u, d)

LastToJoin(u) ==
  \A i, j \in 1..Len(u) :
    u[i].type = "MATCH_JOIN_REQ" /\ u[j].type \in {"HERO_SELECT_REQ", "BATTLE_ATTACK_REQ"} => j < i

\* Whoever waits for an answer has the button disabled.
ButtonWaits(C, u, d, P) ==
  /\ AwaitsJoin(u, d) => C.scene = "lobby" /\ ~C.matchButton
  /\ AwaitsAnswer(u, d) /\ P.scene = "queued" => ~C.matchButton
  /\ AwaitsHero(u, d) /\ P.scene = "heroSelect" => ~C.heroButtons
  /\ In(u, "BATTLE_ATTACK_REQ") => ~C.attackButton

\* Until the answer comes nothing happens that would make the request untimely.
StaysTimely(C, u, d, P) ==
  /\ In(u, "MATCH_JOIN_REQ") => \A k \in 0..Len(d) : P[k].scene = "lobby"
  /\ \A k \in 1..Len(d) : d[k].type = "MATCH_JOIN_RSP" =>
       \A j \in 0..(k - 1) : P[j].scene = "lobby"
  /\ In(u, "HERO_SELECT_REQ") => \A k \in 0..Len(d) : P[k].scene \in {"heroSelect", "lobby"}
  /\ \A k \in 1..Len(d) : d[k].type = "HERO_SELECT_RSP" =>
       \A j \in 0..(k - 1) : P[j].scene \in {"heroSelect", "lobby"}
  /\ In(u, "BATTLE_ATTACK_REQ") \/ C.attackButton => \A k \in 0..Len(d) : HisMove(P[k])
  /\ \A k \in 1..Len(d) : d[k].type = "BATTLE_STATE_NTF" /\ d[k].yourTurn =>
       \A j \in k..Len(d) : HisMove(P[j])

\* A button that is disabled will be enabled: an answer is due, or news.
WillBeAsked(C, u, d, P) ==
  /\ P[0].scene = "lobby" /\ C.scene = "lobby" /\ ~C.matchButton => AwaitsJoin(u, d)
  /\ P[0].scene = "queued" /\ ~C.matchButton => AwaitsAnswer(u, d)
  /\ P[0].scene = "heroSelect" /\ ~C.heroButtons => AwaitsHero(u, d)
  /\ P[0].scene = "battle" /\ P[0].yourTurn /\ ~C.attackButton =>
       \/ In(u, "BATTLE_ATTACK_REQ")
       \/ \E k \in 1..Len(d) : ~(P[k].scene = "battle" /\ P[k].yourTurn)

Patient(C, u, d, P) ==
  OnScreen(C, P[0]) /\ OneAtATime(u, d) /\ LastToJoin(u) /\ ButtonWaits(C, u, d, P[0])
    /\ StaysTimely(C, u, d, P)

-----------------------------------------------------------------------------
(* A client reads a message. *)

\* It remembers what it has read.
LEMMA RemembersRead ==
  ASSUME NEW C, IsClient(C), NEW P, IsPicture(P), NEW m, NEW Q, IsPicture(Q), Leads(P, m, Q),
         Remembers(C, P), NEW D, ReadsTo(C, m, D)
  PROVE  Remembers(D, Q)
<1> USE DEF RoomScenes
<1>1. CASE D = C
  BY <1>1 DEF ReadsTo, RoomNotifications, Leads, Remembers
<1>2. CASE m.type = "LOGIN_RSP" /\ m.accepted
  BY <1>2 DEF ReadsTo, RoomNotifications, Leads, Remembers
<1>3. CASE m.type = "MATCH_JOIN_RSP"
  BY <1>3 DEF ReadsTo, RoomNotifications, Leads, Remembers, Fresh, SameFigures, SameChoice, SameBattle
<1>4. CASE m.type = "MATCH_CANCEL_RSP" /\ C.scene = "lobby"
  BY <1>4 DEF ReadsTo, RoomNotifications, Leads, Remembers, SameFigures, SameBattle
<1>5. CASE m.type = "MATCH_FOUND_NTF"
  BY <1>5 DEF ReadsTo, RoomNotifications, Leads, Remembers, SameFigures, SameBattle
<1>6. CASE m.type = "HERO_SELECT_RSP"
  BY <1>6 DEF ReadsTo, RoomNotifications, Leads, Remembers, Fresh, SameFigures, SameBattle, SameLobby, IsClient
<1>7. CASE m.type = "ROOM_CLOSED_NTF"
  BY <1>7 DEF ReadsTo, RoomNotifications, Leads, Remembers
<1>8. CASE m.type = "BATTLE_START_NTF"
  BY <1>8 DEF ReadsTo, RoomNotifications, Leads, Remembers, SameFigures
<1>9. CASE m.type = "BATTLE_STATE_NTF"
  BY <1>9 DEF ReadsTo, RoomNotifications, Leads, Remembers, SameFigures
<1>10. CASE m.type = "BATTLE_RESULT_NTF"
  BY <1>10 DEF ReadsTo, RoomNotifications, Leads, Remembers
<1> QED
  BY <1>1, <1>2, <1>3, <1>4, <1>5, <1>6, <1>7, <1>8, <1>9, <1>10 DEF ReadsTo

\* Its screen follows, if the answers to a search and to a choice come in time.
LEMMA ScreenRead ==
  ASSUME NEW C, IsClient(C), NEW P, IsPicture(P), NEW m, NEW Q, IsPicture(Q), Leads(P, m, Q),
         Remembers(C, P), OnScreen(C, P), NEW D, IsClient(D), ReadsTo(C, m, D),
         m.type = "MATCH_JOIN_RSP" => P.scene = "lobby" /\ C.scene = "lobby",
         m.type = "HERO_SELECT_RSP" => P.scene \in {"heroSelect", "lobby"}
  PROVE  OnScreen(D, Q)
<1> USE DEF RoomScenes
<1>1. CASE D = C
  BY <1>1 DEF ReadsTo, RoomNotifications, Leads, Remembers, OnScreen
<1>2. CASE m.type = "LOGIN_RSP" /\ m.accepted
  BY <1>2 DEF ReadsTo, RoomNotifications, Leads, Remembers, OnScreen, Fresh, SameLobby, SameChoice, SameBattle
<1>3. CASE m.type = "MATCH_JOIN_RSP"
  BY <1>3 DEF ReadsTo, RoomNotifications, Leads, OnScreen, SameChoice, SameBattle
<1>4. CASE m.type = "MATCH_CANCEL_RSP" /\ C.scene = "lobby"
  BY <1>4 DEF ReadsTo, RoomNotifications, Leads, OnScreen, SameChoice, SameBattle
<1>5. CASE m.type = "MATCH_FOUND_NTF"
  BY <1>5 DEF ReadsTo, RoomNotifications, Leads, OnScreen, SameBattle
<1>6. CASE m.type = "HERO_SELECT_RSP"
  BY <1>6 DEF ReadsTo, RoomNotifications, Leads, OnScreen, SameBattle, SameLobby, IsClient
<1>7. CASE m.type = "ROOM_CLOSED_NTF"
  BY <1>7 DEF ReadsTo, RoomNotifications, Leads, Remembers, OnScreen, SameChoice, SameBattle
<1>8. CASE m.type = "BATTLE_START_NTF"
  BY <1>8 DEF ReadsTo, RoomNotifications, Leads, Remembers, OnScreen, SameChoice, SameBattle
<1>9. CASE m.type = "BATTLE_STATE_NTF"
  BY <1>9 DEF ReadsTo, RoomNotifications, Leads, Remembers, OnScreen, SameChoice
<1>10. CASE m.type = "BATTLE_RESULT_NTF"
  BY <1>10 DEF ReadsTo, RoomNotifications, Leads, Remembers, OnScreen, SameChoice
<1> QED
  BY <1>1, <1>2, <1>3, <1>4, <1>5, <1>6, <1>7, <1>8, <1>9, <1>10 DEF ReadsTo

\* The path R is P without its first picture; n is the length of the row P goes with.
Shifted(P, R, n) == \A k \in 0..(n - 1) : R[k] = P[k + 1]

\* A path without its first picture.
LEMMA PathRead ==
  ASSUME NEW P, NEW d, Follows(P, d), NEW e, Shorter(d, e), NEW R, Shifted(P, R, Len(d))
  PROVE  /\ Follows(R, e) /\ R[0] = P[1] /\ R[Len(e)] = P[Len(d)]
         /\ IsPicture(P[0]) /\ IsPicture(P[1]) /\ Leads(P[0], d[1], P[1])
         /\ 1 \in 1..Len(d)
<1>1. Len(d) \in Nat \ {0} /\ Len(e) = Len(d) - 1
  BY DEF Shorter
<1>2. \A k \in 0..Len(e) : R[k] = P[k + 1] /\ IsPicture(P[k + 1])
  BY <1>1 DEF Shifted, Follows
<1>3. ASSUME NEW k \in 1..Len(e) PROVE Leads(R[k - 1], e[k], R[k])
  <2>1. k + 1 \in 1..Len(d) /\ e[k] = d[k + 1] /\ k - 1 \in 0..Len(e) /\ k \in 0..Len(e)
    BY <1>1 DEF Shorter
  <2>2. Leads(P[(k + 1) - 1], d[k + 1], P[k + 1]) /\ (k + 1) - 1 = k /\ (k - 1) + 1 = k
    BY <2>1 DEF Follows
  <2> QED  BY <1>2, <2>1, <2>2
<1>4. 0 \in 0..Len(e) /\ Len(e) \in 0..Len(e) /\ 1 \in 1..Len(d) /\ 0 + 1 = 1
      /\ Len(e) + 1 = Len(d) /\ 1 - 1 = 0
  BY <1>1
<1>5. Leads(P[1 - 1], d[1], P[1])
  BY <1>4 DEF Follows
<1> QED
  BY <1>2, <1>3, <1>4, <1>5 DEF Follows

\* The head of the row: the answers of which there is one.
LEMMA OneRead ==
  ASSUME NEW u, NEW d, OneAtATime(u, d), NEW e, Shorter(d, e)
  PROVE  /\ OneAtATime(u, e)
         /\ AwaitsJoin(u, e) => AwaitsJoin(u, d) /\ d[1].type # "MATCH_JOIN_RSP"
         /\ AwaitsAnswer(u, e) => AwaitsAnswer(u, d) /\ d[1].type # "MATCH_CANCEL_RSP"
         /\ AwaitsHero(u, e) => AwaitsHero(u, d) /\ d[1].type # "HERO_SELECT_RSP"
         /\ AwaitsJoin(u, d) /\ d[1].type # "MATCH_JOIN_RSP" => AwaitsJoin(u, e)
         /\ AwaitsAnswer(u, d) /\ d[1].type # "MATCH_CANCEL_RSP" => AwaitsAnswer(u, e)
         /\ AwaitsHero(u, d) /\ d[1].type # "HERO_SELECT_RSP" => AwaitsHero(u, e)
         /\ AwaitsJoin(u, d) => d[1].type # "MATCH_CANCEL_RSP"
<1>1. /\ \A type : In(d, type) <=> In(e, type) \/ d[1].type = type
      /\ In(d, d[1].type)
  BY InShorter
<1>2. /\ Once(e, {"MATCH_JOIN_RSP", "MATCH_CANCEL_RSP", "HERO_SELECT_RSP"})
      /\ d[1].type \in {"MATCH_JOIN_RSP", "MATCH_CANCEL_RSP", "HERO_SELECT_RSP"} =>
           ~In(e, d[1].type)
  BY OnceShorter DEF OneAtATime
<1> QED
  BY <1>1, <1>2 DEF OneAtATime, AwaitsJoin, AwaitsAnswer, AwaitsHero

\* What is known of the message at the head.
LEMMA HeadIsTimely ==
  ASSUME NEW C, NEW u, NEW d, NEW P, Patient(C, u, d, P), 1 \in 1..Len(d)
  PROVE  /\ d[1].type = "MATCH_JOIN_RSP" => P[0].scene = "lobby" /\ C.scene = "lobby"
         /\ d[1].type = "HERO_SELECT_RSP" => P[0].scene \in {"heroSelect", "lobby"}
         /\ AwaitsJoin(u, d) => P[0].scene = "lobby"
         /\ AwaitsHero(u, d) => P[0].scene \in {"heroSelect", "lobby"}
<1>1. 0 \in 0..Len(d) /\ \A k \in 1..Len(d) : 0 \in 0..(k - 1)
  OBVIOUS
<1>2. In(d, "MATCH_JOIN_RSP") => P[0].scene = "lobby"
  BY <1>1 DEF Patient, StaysTimely, In
<1>3. In(d, "HERO_SELECT_RSP") => P[0].scene \in {"heroSelect", "lobby"}
  BY <1>1 DEF Patient, StaysTimely, In
<1>4. d[1].type = "MATCH_JOIN_RSP" => In(d, "MATCH_JOIN_RSP")
  BY DEF In
<1>5. d[1].type = "HERO_SELECT_RSP" => In(d, "HERO_SELECT_RSP")
  BY DEF In
<1> QED
  BY <1>1, <1>2, <1>3, <1>4, <1>5 DEF Patient, StaysTimely, AwaitsJoin, AwaitsHero, ButtonWaits

\* The button stays disabled while the answer is due.
LEMMA WaitsRead ==
  ASSUME NEW C, IsClient(C), NEW P, IsPicture(P), NEW m, NEW Q, IsPicture(Q), Leads(P, m, Q),
         Remembers(C, P), OnScreen(C, P), NEW D, IsClient(D), ReadsTo(C, m, D),
         NEW join \in BOOLEAN, NEW answer \in BOOLEAN, NEW hero \in BOOLEAN, NEW attack \in BOOLEAN,
         join => C.scene = "lobby" /\ ~C.matchButton /\ P.scene = "lobby"
                   /\ m.type # "MATCH_JOIN_RSP" /\ m.type # "MATCH_CANCEL_RSP",
         answer /\ P.scene = "queued" => ~C.matchButton,
         answer => ~join /\ m.type # "MATCH_CANCEL_RSP" /\ m.type # "MATCH_JOIN_RSP",
         hero /\ P.scene = "heroSelect" => ~C.heroButtons,
         hero => P.scene \in {"heroSelect", "lobby"} /\ m.type # "HERO_SELECT_RSP",
         attack => ~C.attackButton /\ HisMove(P)
  PROVE  /\ join => D.scene = "lobby" /\ ~D.matchButton
         /\ answer /\ Q.scene = "queued" => ~D.matchButton
         /\ hero /\ Q.scene = "heroSelect" => ~D.heroButtons
         /\ attack => ~D.attackButton
<1> USE DEF RoomScenes, RoomNotifications
<1>1. join => D.scene = "lobby" /\ ~D.matchButton
  BY DEF ReadsTo, Leads, SameLobby
<1>2. answer /\ Q.scene = "queued" => ~D.matchButton
  BY DEF ReadsTo, Leads, SameLobby
<1>3. hero /\ Q.scene = "heroSelect" => ~D.heroButtons
  BY DEF ReadsTo, Leads, SameChoice
<1>4. attack => ~D.attackButton
  BY DEF ReadsTo, Leads, SameBattle, HisMove
<1> QED
  BY <1>1, <1>2, <1>3, <1>4

\* A button that is disabled after a message was disabled before it.
LEMMA AskedRead ==
  ASSUME NEW C, IsClient(C), NEW P, IsPicture(P), NEW m, NEW Q, IsPicture(Q), Leads(P, m, Q),
         Remembers(C, P), OnScreen(C, P), NEW D, IsClient(D), ReadsTo(C, m, D),
         m.type = "MATCH_JOIN_RSP" => P.scene = "lobby" /\ C.scene = "lobby",
         m.type = "HERO_SELECT_RSP" => P.scene \in {"heroSelect", "lobby"}
  PROVE  /\ Q.scene = "lobby" /\ D.scene = "lobby" /\ ~D.matchButton =>
              P.scene = "lobby" /\ C.scene = "lobby" /\ ~C.matchButton /\ m.type # "MATCH_JOIN_RSP"
         /\ Q.scene = "queued" /\ ~D.matchButton =>
              P.scene = "queued" /\ ~C.matchButton /\ m.type # "MATCH_CANCEL_RSP"
         /\ Q.scene = "heroSelect" /\ ~D.heroButtons =>
              P.scene = "heroSelect" /\ ~C.heroButtons /\ m.type # "HERO_SELECT_RSP"
         /\ Q.scene = "battle" /\ Q.yourTurn /\ ~D.attackButton =>
              P.scene = "battle" /\ P.yourTurn /\ ~C.attackButton
<1> USE DEF RoomScenes, RoomNotifications
<1>1. Q.scene = "lobby" /\ D.scene = "lobby" /\ ~D.matchButton =>
        P.scene = "lobby" /\ C.scene = "lobby" /\ ~C.matchButton /\ m.type # "MATCH_JOIN_RSP"
  BY DEF ReadsTo, Leads, SameLobby, Remembers, Fresh, OnScreen
<1>2. Q.scene = "queued" /\ ~D.matchButton =>
        P.scene = "queued" /\ ~C.matchButton /\ m.type # "MATCH_CANCEL_RSP"
  BY DEF ReadsTo, Leads, SameLobby
<1>3. Q.scene = "heroSelect" /\ ~D.heroButtons =>
        P.scene = "heroSelect" /\ ~C.heroButtons /\ m.type # "HERO_SELECT_RSP"
  BY DEF ReadsTo, Leads, SameChoice
<1>4. Q.scene = "battle" /\ Q.yourTurn /\ ~D.attackButton =>
        P.scene = "battle" /\ P.yourTurn /\ ~C.attackButton
  BY DEF ReadsTo, Leads, SameBattle, Remembers
<1> QED
  BY <1>1, <1>2, <1>3, <1>4

\* The attack button comes to life with the turn, and in no other way.
LEMMA AttackRead ==
  ASSUME NEW C, NEW P, NEW m, NEW Q, Leads(P, m, Q), NEW D, ReadsTo(C, m, D), D.attackButton
  PROVE  C.attackButton \/ (m.type = "BATTLE_STATE_NTF" /\ m.yourTurn)
BY DEF ReadsTo, SameBattle

\* What is timely stays so.
LEMMA TimelyRead ==
  ASSUME NEW C, NEW D, NEW u, NEW d, NEW P, StaysTimely(C, u, d, P), NEW e, Shorter(d, e),
         NEW R, Shifted(P, R, Len(d)),
         D.attackButton => C.attackButton \/ (d[1].type = "BATTLE_STATE_NTF" /\ d[1].yourTurn)
  PROVE  StaysTimely(D, u, e, R)
<1>1. Len(d) \in Nat \ {0} /\ Len(e) = Len(d) - 1
  BY DEF Shorter
<1>2. \A k \in 0..Len(e) : R[k] = P[k + 1] /\ k + 1 \in 0..Len(d)
  BY <1>1 DEF Shifted
<1>3. \A k \in 1..Len(e) : e[k] = d[k + 1] /\ k + 1 \in 1..Len(d)
  BY <1>1 DEF Shorter
<1>4. In(u, "MATCH_JOIN_REQ") => \A k \in 0..Len(e) : R[k].scene = "lobby"
  BY <1>2 DEF StaysTimely
<1>5. In(u, "HERO_SELECT_REQ") => \A k \in 0..Len(e) : R[k].scene \in {"heroSelect", "lobby"}
  BY <1>2 DEF StaysTimely
<1>6. ASSUME NEW k \in 1..Len(e), e[k].type = "MATCH_JOIN_RSP", NEW j \in 0..(k - 1)
      PROVE  R[j].scene = "lobby"
  <2>1. j + 1 \in 0..((k + 1) - 1) /\ j \in 0..Len(e)
    BY <1>1
  <2> QED  BY <1>2, <1>3, <1>6, <2>1 DEF StaysTimely
<1>7. ASSUME NEW k \in 1..Len(e), e[k].type = "HERO_SELECT_RSP", NEW j \in 0..(k - 1)
      PROVE  R[j].scene \in {"heroSelect", "lobby"}
  <2>1. j + 1 \in 0..((k + 1) - 1) /\ j \in 0..Len(e)
    BY <1>1
  <2> QED  BY <1>2, <1>3, <1>7, <2>1 DEF StaysTimely
<1>8. ASSUME NEW k \in 1..Len(e), e[k].type = "BATTLE_STATE_NTF", e[k].yourTurn, NEW j \in k..Len(e)
      PROVE  HisMove(R[j])
  <2>1. j + 1 \in (k + 1)..Len(d) /\ j \in 0..Len(e)
    BY <1>1
  <2> QED  BY <1>2, <1>3, <1>8, <2>1 DEF StaysTimely
<1>9. ASSUME In(u, "BATTLE_ATTACK_REQ") \/ D.attackButton, NEW k \in 0..Len(e)
      PROVE  HisMove(R[k])
  <2>1. CASE In(u, "BATTLE_ATTACK_REQ") \/ C.attackButton
    BY <1>2, <2>1 DEF StaysTimely
  <2>2. CASE d[1].type = "BATTLE_STATE_NTF" /\ d[1].yourTurn
    <3>1. 1 \in 1..Len(d) /\ k + 1 \in 1..Len(d)
      BY <1>1
    <3> QED  BY <1>2, <2>2, <3>1 DEF StaysTimely
  <2> QED  BY <1>9, <2>1, <2>2
<1> QED
  BY <1>4, <1>5, <1>6, <1>7, <1>8, <1>9 DEF StaysTimely

\* A client that reads the oldest message remembers what it should.
LEMMA ReadKeepsMemory ==
  ASSUME NEW C, IsClient(C), NEW P, NEW d, Follows(P, d), Remembers(C, P[0]),
         NEW e, Shorter(d, e), NEW R, Shifted(P, R, Len(d))
  PROVE  LET D == Read(C, d[1]) IN
         /\ IsClient(D) /\ SameSocket(C, D) /\ ReadsTo(C, d[1], D)
         /\ Follows(R, e) /\ R[Len(e)] = P[Len(d)] /\ Remembers(D, R[0])
<1> DEFINE D == Read(C, d[1])
<1>1. /\ Follows(R, e) /\ R[0] = P[1] /\ R[Len(e)] = P[Len(d)]
      /\ IsPicture(P[0]) /\ IsPicture(P[1]) /\ Leads(P[0], d[1], P[1])
  BY PathRead
<1>2. IsClient(D) /\ SameSocket(C, D) /\ ReadsTo(C, d[1], D)
  BY <1>1, ReadIs
<1> HIDE DEF D
<1>3. Remembers(D, P[1])
  BY <1>1, <1>2, RemembersRead
<1> QED
  BY <1>1, <1>2, <1>3 DEF D

\* And if its player is patient it shows what it should.
LEMMA ReadKeepsPatience ==
  ASSUME NEW C, IsClient(C), NEW P, NEW d, Follows(P, d), Remembers(C, P[0]),
         NEW e, Shorter(d, e), NEW R, Shifted(P, R, Len(d)),
         NEW u, Patient(C, u, d, P), NEW D, IsClient(D), ReadsTo(C, d[1], D)
  PROVE  /\ Patient(D, u, e, R)
         /\ WillBeAsked(C, u, d, P) => WillBeAsked(D, u, e, R)
<1> DEFINE m == d[1]
<1>1. /\ R[0] = P[1] /\ 1 \in 1..Len(d)
      /\ IsPicture(P[0]) /\ IsPicture(P[1]) /\ Leads(P[0], m, P[1])
  BY PathRead
<1>2. /\ m.type = "MATCH_JOIN_RSP" => P[0].scene = "lobby" /\ C.scene = "lobby"
      /\ m.type = "HERO_SELECT_RSP" => P[0].scene \in {"heroSelect", "lobby"}
      /\ AwaitsJoin(u, d) => P[0].scene = "lobby"
      /\ AwaitsHero(u, d) => P[0].scene \in {"heroSelect", "lobby"}
  BY <1>1, HeadIsTimely
<1>3. /\ OneAtATime(u, e)
      /\ AwaitsJoin(u, e) => AwaitsJoin(u, d) /\ m.type # "MATCH_JOIN_RSP"
      /\ AwaitsAnswer(u, e) => AwaitsAnswer(u, d) /\ m.type # "MATCH_CANCEL_RSP"
      /\ AwaitsHero(u, e) => AwaitsHero(u, d) /\ m.type # "HERO_SELECT_RSP"
      /\ AwaitsJoin(u, d) /\ m.type # "MATCH_JOIN_RSP" => AwaitsJoin(u, e)
      /\ AwaitsAnswer(u, d) /\ m.type # "MATCH_CANCEL_RSP" => AwaitsAnswer(u, e)
      /\ AwaitsHero(u, d) /\ m.type # "HERO_SELECT_RSP" => AwaitsHero(u, e)
      /\ AwaitsJoin(u, d) => m.type # "MATCH_CANCEL_RSP"
  BY OneRead DEF Patient
<1>4. m.type = "MATCH_JOIN_RSP" => AwaitsJoin(u, d)
  BY <1>1 DEF AwaitsJoin, In
<1> HIDE DEF m
<1>5. OnScreen(D, P[1])
  BY <1>1, <1>2, ScreenRead DEF Patient, m
<1>6. StaysTimely(D, u, e, R)
  <2>1. D.attackButton => C.attackButton \/ (m.type = "BATTLE_STATE_NTF" /\ m.yourTurn)
    BY <1>1, AttackRead DEF m
  <2> QED  BY <2>1, TimelyRead DEF Patient, m
<1>7. ButtonWaits(D, u, e, P[1])
  <2> DEFINE join == AwaitsJoin(u, e)
             answer == AwaitsAnswer(u, e)
             hero == AwaitsHero(u, e)
             attack == In(u, "BATTLE_ATTACK_REQ")
  <2>1. join \in BOOLEAN /\ answer \in BOOLEAN /\ hero \in BOOLEAN /\ attack \in BOOLEAN
    BY DEF AwaitsJoin, AwaitsAnswer, AwaitsHero, In
  <2>2. join => C.scene = "lobby" /\ ~C.matchButton /\ P[0].scene = "lobby"
                  /\ m.type # "MATCH_JOIN_RSP" /\ m.type # "MATCH_CANCEL_RSP"
    BY <1>2, <1>3 DEF Patient, ButtonWaits
  <2>3. answer /\ P[0].scene = "queued" => ~C.matchButton
    BY <1>3 DEF Patient, ButtonWaits
  <2>4. answer => ~join /\ m.type # "MATCH_CANCEL_RSP" /\ m.type # "MATCH_JOIN_RSP"
    BY <1>3, <1>4 DEF Patient, OneAtATime
  <2>5. hero /\ P[0].scene = "heroSelect" => ~C.heroButtons
    BY <1>3 DEF Patient, ButtonWaits
  <2>6. hero => P[0].scene \in {"heroSelect", "lobby"} /\ m.type # "HERO_SELECT_RSP"
    BY <1>2, <1>3
  <2>7. attack => ~C.attackButton /\ HisMove(P[0])
    <3>1. 0 \in 0..Len(d)
      BY <1>1
    <3> QED  BY <3>1 DEF Patient, ButtonWaits, StaysTimely
  <2>8. OnScreen(C, P[0])
    BY DEF Patient
  <2> HIDE DEF join, answer, hero, attack
  <2>9. /\ join => D.scene = "lobby" /\ ~D.matchButton
        /\ answer /\ P[1].scene = "queued" => ~D.matchButton
        /\ hero /\ P[1].scene = "heroSelect" => ~D.heroButtons
        /\ attack => ~D.attackButton
    BY <1>1, <2>1, <2>2, <2>3, <2>4, <2>5, <2>6, <2>7, <2>8, WaitsRead DEF m
  <2> QED  BY <2>9 DEF ButtonWaits, join, answer, hero, attack
<1>8. ASSUME WillBeAsked(C, u, d, P)
      PROVE  WillBeAsked(D, u, e, R)
  <2>1. OnScreen(C, P[0])
    BY DEF Patient
  <2>2. /\ P[1].scene = "lobby" /\ D.scene = "lobby" /\ ~D.matchButton =>
              P[0].scene = "lobby" /\ C.scene = "lobby" /\ ~C.matchButton /\ m.type # "MATCH_JOIN_RSP"
        /\ P[1].scene = "queued" /\ ~D.matchButton =>
              P[0].scene = "queued" /\ ~C.matchButton /\ m.type # "MATCH_CANCEL_RSP"
        /\ P[1].scene = "heroSelect" /\ ~D.heroButtons =>
              P[0].scene = "heroSelect" /\ ~C.heroButtons /\ m.type # "HERO_SELECT_RSP"
        /\ P[1].scene = "battle" /\ P[1].yourTurn /\ ~D.attackButton =>
              P[0].scene = "battle" /\ P[0].yourTurn /\ ~C.attackButton
    BY <1>1, <1>2, <2>1, AskedRead DEF m
  <2>3. ASSUME P[1].scene = "battle", P[1].yourTurn,
               NEW k \in 1..Len(d), ~(P[k].scene = "battle" /\ P[k].yourTurn)
        PROVE  \E j \in 1..Len(e) : ~(R[j].scene = "battle" /\ R[j].yourTurn)
    <3>1. k # 1
      BY <2>3
    <3>2. k - 1 \in 1..Len(e) /\ k - 1 \in 0..(Len(d) - 1) /\ (k - 1) + 1 = k
      BY <3>1 DEF Shorter
    <3>3. R[k - 1] = P[k]
      BY <3>2 DEF Shifted
    <3> QED  BY <2>3, <3>2, <3>3
  <2> QED  BY <1>1, <1>3, <1>8, <2>2, <2>3 DEF WillBeAsked
<1> QED
  BY <1>1, <1>3, <1>5, <1>6, <1>7, <1>8 DEF Patient

-----------------------------------------------------------------------------
(* The server sends a message. *)

\* The path R is P with the picture Q at its end.
Grown(P, R, n, Q) == R[n + 1] = Q /\ \A k \in 0..n : R[k] = P[k]

\* A path with one picture more.
LEMMA PathGrows ==
  ASSUME NEW P, NEW d, Follows(P, d), NEW m, NEW e, Longer(d, m, e),
         NEW Q, IsPicture(Q), Leads(P[Len(d)], m, Q), NEW R, Grown(P, R, Len(d), Q)
  PROVE  Follows(R, e) /\ R[0] = P[0] /\ R[Len(e)] = Q
<1>1. Len(d) \in Nat /\ Len(e) = Len(d) + 1 /\ e[Len(d) + 1] = m
  BY DEF Longer
<1>2. R[0] = P[0]
  BY <1>1 DEF Grown
<1>3. ASSUME NEW k \in 1..Len(d) PROVE IsPicture(R[k]) /\ Leads(R[k - 1], e[k], R[k])
  <2>1. k - 1 \in 0..Len(d) /\ k \in 0..Len(d) /\ e[k] = d[k]
    BY <1>1 DEF Longer
  <2> QED  BY <2>1 DEF Grown, Follows
<1>4. IsPicture(R[Len(d) + 1]) /\ Leads(R[(Len(d) + 1) - 1], e[Len(d) + 1], R[Len(d) + 1])
  <2>1. (Len(d) + 1) - 1 = Len(d) /\ Len(d) \in 0..Len(d)
    BY <1>1
  <2> QED  BY <1>1, <2>1 DEF Grown
<1>5. \A k \in 1..Len(e) : k \in 1..Len(d) \/ k = Len(d) + 1
  BY <1>1
<1> QED
  BY <1>1, <1>2, <1>3, <1>4, <1>5 DEF Follows, Grown

\* What is known of the end of a path.
LEMMA PathEnds ==
  ASSUME NEW P, NEW d, Follows(P, d), Len(d) \in Nat
  PROVE  IsPicture(P[Len(d)])
BY DEF Follows

\* The requests that are answered, and with what.
Answered(request, response) ==
  \/ request \in {"LOGIN_REQ", "REGISTER_REQ"} /\ response \in {"LOGIN_RSP", "REGISTER_RSP"}
  \/ request = "MATCH_JOIN_REQ" /\ response = "MATCH_JOIN_RSP"
  \/ request = "MATCH_CANCEL_REQ" /\ response = "MATCH_CANCEL_RSP"
  \/ request = "HERO_SELECT_REQ" /\ response = "HERO_SELECT_RSP"
  \/ request = "BATTLE_ATTACK_REQ" /\ response = "BATTLE_STATE_NTF"

\* The answers of which one at most is on its way.
Responses == {"MATCH_JOIN_RSP", "MATCH_CANCEL_RSP", "HERO_SELECT_RSP"}

\* A notification answers nothing.
LEMMA OneGrows ==
  ASSUME NEW u, NEW d, OneAtATime(u, d), NEW m, NEW e, Longer(d, m, e), m.type \notin Responses
  PROVE  /\ OneAtATime(u, e)
         /\ AwaitsJoin(u, e) <=> AwaitsJoin(u, d)
         /\ AwaitsAnswer(u, e) <=> AwaitsAnswer(u, d)
         /\ AwaitsHero(u, e) <=> AwaitsHero(u, d)
<1>1. \A type : In(e, type) <=> In(d, type) \/ m.type = type
  BY InLonger
<1>2. Once(e, {"MATCH_JOIN_RSP", "MATCH_CANCEL_RSP", "HERO_SELECT_RSP"})
  BY OnceLonger DEF OneAtATime, Responses
<1> QED
  BY <1>1, <1>2 DEF OneAtATime, AwaitsJoin, AwaitsAnswer, AwaitsHero, Responses

\* An answer takes the place of its request.
LEMMA OneAnswered ==
  ASSUME NEW u, NEW d, OneAtATime(u, d), NEW v, Shorter(u, v), NEW m, NEW e, Longer(d, m, e),
         Answered(u[1].type, m.type)
  PROVE  /\ OneAtATime(v, e)
         /\ AwaitsJoin(v, e) <=> AwaitsJoin(u, d)
         /\ AwaitsAnswer(v, e) <=> AwaitsAnswer(u, d)
         /\ AwaitsHero(v, e) <=> AwaitsHero(u, d)
<1>1. \A type : In(e, type) <=> In(d, type) \/ m.type = type
  BY InLonger
<1>2. /\ \A type : In(u, type) <=> In(v, type) \/ u[1].type = type
      /\ In(u, u[1].type)
  BY InShorter
<1>3. /\ Once(v, {"MATCH_JOIN_REQ", "MATCH_CANCEL_REQ", "HERO_SELECT_REQ", "BATTLE_ATTACK_REQ"})
      /\ u[1].type \in {"MATCH_JOIN_REQ", "MATCH_CANCEL_REQ", "HERO_SELECT_REQ", "BATTLE_ATTACK_REQ"}
           => ~In(v, u[1].type)
  BY OnceShorter DEF OneAtATime
<1>4. m.type \in Responses => ~In(d, m.type)
  BY <1>2 DEF Answered, OneAtATime, Responses
<1>5. Once(e, {"MATCH_JOIN_RSP", "MATCH_CANCEL_RSP", "HERO_SELECT_RSP"})
  BY <1>4, OnceLonger DEF OneAtATime, Responses
<1> QED
  BY <1>1, <1>2, <1>3, <1>4, <1>5
     DEF Answered, OneAtATime, AwaitsJoin, AwaitsAnswer, AwaitsHero, Responses

\* Fewer requests are in the order the many were in.
LEMMA OrderShorter ==
  ASSUME NEW u, LastToJoin(u), NEW v, Shorter(u, v)
  PROVE  /\ LastToJoin(v)
         /\ u[1].type = "MATCH_JOIN_REQ" =>
              ~In(v, "HERO_SELECT_REQ") /\ ~In(v, "BATTLE_ATTACK_REQ")
<1>1. ASSUME NEW i \in 1..Len(v) PROVE i + 1 \in 1..Len(u) /\ v[i] = u[i + 1]
  BY DEF Shorter
<1>2. ASSUME NEW i \in 1..Len(v), NEW j \in 1..Len(v), v[i].type = "MATCH_JOIN_REQ",
             v[j].type \in {"HERO_SELECT_REQ", "BATTLE_ATTACK_REQ"}
      PROVE  j < i
  <2>1. j + 1 < i + 1
    BY <1>1, <1>2 DEF LastToJoin
  <2> QED  BY <2>1
<1>3. ASSUME u[1].type = "MATCH_JOIN_REQ", NEW j \in 1..Len(v),
             v[j].type \in {"HERO_SELECT_REQ", "BATTLE_ATTACK_REQ"}
      PROVE  FALSE
  <2>1. 1 \in 1..Len(u)
    BY DEF Shorter
  <2>2. j + 1 < 1
    BY <1>1, <1>3, <2>1 DEF LastToJoin
  <2> QED  BY <2>2
<1> QED
  BY <1>2, <1>3 DEF LastToJoin, In

\* One message more leaves the requests timely if it leads to where they are.
LEMMA TimelyGrows ==
  ASSUME NEW C, NEW u, NEW d, NEW P, StaysTimely(C, u, d, P),
         NEW m, NEW e, Longer(d, m, e), NEW Q, NEW R, Grown(P, R, Len(d), Q), NEW v,
         In(v, "MATCH_JOIN_REQ") => In(u, "MATCH_JOIN_REQ") /\ Q.scene = "lobby",
         In(v, "HERO_SELECT_REQ") => In(u, "HERO_SELECT_REQ") /\ Q.scene \in {"heroSelect", "lobby"},
         In(v, "BATTLE_ATTACK_REQ") => In(u, "BATTLE_ATTACK_REQ"),
         In(v, "BATTLE_ATTACK_REQ") \/ C.attackButton => HisMove(Q),
         m.type = "MATCH_JOIN_RSP" => \A k \in 0..Len(d) : P[k].scene = "lobby",
         m.type = "HERO_SELECT_RSP" => \A k \in 0..Len(d) : P[k].scene \in {"heroSelect", "lobby"},
         m.type = "BATTLE_STATE_NTF" /\ m.yourTurn => HisMove(Q),
         \A k \in 1..Len(d) : d[k].type = "BATTLE_STATE_NTF" /\ d[k].yourTurn => HisMove(Q)
  PROVE  StaysTimely(C, v, e, R)
<1> DEFINE n == Len(d)
<1>1. n \in Nat /\ Len(e) = n + 1 /\ e[n + 1] = m
  BY DEF Longer
<1>2. /\ \A k \in 0..Len(e) : k \in 0..n \/ k = n + 1
      /\ \A k \in 0..n : R[k] = P[k]
      /\ R[n + 1] = Q
  BY <1>1 DEF Grown
<1>3. \A k \in 1..Len(e) : (k \in 1..n /\ e[k] = d[k]) \/ (k = n + 1 /\ e[k] = m)
  BY <1>1 DEF Longer
<1>4. In(v, "MATCH_JOIN_REQ") => \A k \in 0..Len(e) : R[k].scene = "lobby"
  BY <1>2 DEF StaysTimely
<1>5. In(v, "HERO_SELECT_REQ") => \A k \in 0..Len(e) : R[k].scene \in {"heroSelect", "lobby"}
  BY <1>2 DEF StaysTimely
<1>6. In(v, "BATTLE_ATTACK_REQ") \/ C.attackButton => \A k \in 0..Len(e) : HisMove(R[k])
  BY <1>2 DEF StaysTimely
<1>7. ASSUME NEW k \in 1..Len(e), e[k].type = "MATCH_JOIN_RSP", NEW j \in 0..(k - 1)
      PROVE  R[j].scene = "lobby"
  <2>1. j \in 0..n
    BY <1>1
  <2>2. CASE k \in 1..n /\ e[k] = d[k]
    BY <1>2, <1>7, <2>1, <2>2 DEF StaysTimely
  <2>3. CASE k = n + 1 /\ e[k] = m
    BY <1>2, <1>7, <2>1, <2>3
  <2> QED  BY <1>3, <2>2, <2>3
<1>8. ASSUME NEW k \in 1..Len(e), e[k].type = "HERO_SELECT_RSP", NEW j \in 0..(k - 1)
      PROVE  R[j].scene \in {"heroSelect", "lobby"}
  <2>1. j \in 0..n
    BY <1>1
  <2>2. CASE k \in 1..n /\ e[k] = d[k]
    BY <1>2, <1>8, <2>1, <2>2 DEF StaysTimely
  <2>3. CASE k = n + 1 /\ e[k] = m
    BY <1>2, <1>8, <2>1, <2>3
  <2> QED  BY <1>3, <2>2, <2>3
<1>9. ASSUME NEW k \in 1..Len(e), e[k].type = "BATTLE_STATE_NTF", e[k].yourTurn, NEW j \in k..Len(e)
      PROVE  HisMove(R[j])
  <2>1. CASE k \in 1..n /\ e[k] = d[k]
    <3>1. CASE j \in k..n
      <4>1. j \in 0..n
        BY <1>1, <3>1
      <4> QED  BY <1>2, <1>9, <2>1, <3>1, <4>1 DEF StaysTimely
    <3>2. CASE j = n + 1
      BY <1>2, <1>9, <2>1, <3>2
    <3> QED  BY <1>1, <2>1, <3>1, <3>2
  <2>2. CASE k = n + 1 /\ e[k] = m
    <3>1. j = n + 1
      BY <1>1, <2>2
    <3> QED  BY <1>2, <1>9, <2>2, <3>1
  <2> QED  BY <1>3, <2>1, <2>2
<1> QED
  BY <1>4, <1>5, <1>6, <1>7, <1>8, <1>9 DEF StaysTimely

\* What is due stays due, unless a message puts an end to the turn.
LEMMA AskedGrows ==
  ASSUME NEW C, NEW u, NEW d, NEW P, WillBeAsked(C, u, d, P),
         NEW m, NEW e, Longer(d, m, e), NEW Q, NEW R, Grown(P, R, Len(d), Q), NEW v,
         AwaitsJoin(v, e) <=> AwaitsJoin(u, d),
         AwaitsAnswer(v, e) <=> AwaitsAnswer(u, d),
         AwaitsHero(v, e) <=> AwaitsHero(u, d),
         In(u, "BATTLE_ATTACK_REQ") =>
           In(v, "BATTLE_ATTACK_REQ") \/ ~(Q.scene = "battle" /\ Q.yourTurn)
  PROVE  WillBeAsked(C, v, e, R)
<1>1. /\ Len(d) \in Nat /\ Len(e) = Len(d) + 1 /\ R[Len(d) + 1] = Q /\ R[0] = P[0]
      /\ \A k \in 1..Len(d) : R[k] = P[k] /\ k \in 1..Len(e)
      /\ Len(d) + 1 \in 1..Len(e)
  BY DEF Longer, Grown
<1> QED
  BY <1>1 DEF WillBeAsked

\* What others do: it moves nobody out of the states in which it is his move.
LEMMA NewsIs ==
  ASSUME NEW P, IsPicture(P), NEW m, News(P, m), NEW Q, Leads(P, m, Q)
  PROVE  /\ m.type \notin Responses
         /\ P.scene = "lobby" => Q.scene = "lobby"
         /\ P.scene \in {"heroSelect", "lobby"} => Q.scene \in {"heroSelect", "lobby"}
         /\ HisMove(P) => HisMove(Q)
         /\ m.type = "BATTLE_STATE_NTF" /\ m.yourTurn => HisMove(Q)
BY DEF News, Leads, HisMove, Responses, RoomScenes, IsPicture

\* The notification of what others do finds no patient player off his guard.
LEMMA NewsKeepsPatience ==
  ASSUME NEW C, NEW u, NEW d, NEW P, Follows(P, d), Patient(C, u, d, P),
         NEW m, NEW e, Longer(d, m, e), News(P[Len(d)], m),
         NEW Q, Leads(P[Len(d)], m, Q), NEW R, Grown(P, R, Len(d), Q), R[0] = P[0]
  PROVE  /\ Patient(C, u, e, R)
         /\ WillBeAsked(C, u, d, P) => WillBeAsked(C, u, e, R)
<1> DEFINE n == Len(d)
<1>1. n \in Nat /\ n \in 0..n
  BY DEF Longer
<1>2. IsPicture(P[n])
  BY <1>1, PathEnds
<1>3. /\ m.type \notin Responses
      /\ P[n].scene = "lobby" => Q.scene = "lobby"
      /\ P[n].scene \in {"heroSelect", "lobby"} => Q.scene \in {"heroSelect", "lobby"}
      /\ HisMove(P[n]) => HisMove(Q)
      /\ m.type = "BATTLE_STATE_NTF" /\ m.yourTurn => HisMove(Q)
  BY <1>2, NewsIs
<1>4. /\ OneAtATime(u, e)
      /\ AwaitsJoin(u, e) <=> AwaitsJoin(u, d)
      /\ AwaitsAnswer(u, e) <=> AwaitsAnswer(u, d)
      /\ AwaitsHero(u, e) <=> AwaitsHero(u, d)
  BY <1>3, OneGrows DEF Patient
<1>5. StaysTimely(C, u, e, R)
  <2>1. /\ In(u, "MATCH_JOIN_REQ") => Q.scene = "lobby"
        /\ In(u, "HERO_SELECT_REQ") => Q.scene \in {"heroSelect", "lobby"}
        /\ In(u, "BATTLE_ATTACK_REQ") \/ C.attackButton => HisMove(Q)
    BY <1>1, <1>3 DEF Patient, StaysTimely
  <2>2. \A k \in 1..n : n \in k..n
    BY <1>1
  <2>3. \A k \in 1..n : d[k].type = "BATTLE_STATE_NTF" /\ d[k].yourTurn => HisMove(Q)
    BY <1>3, <2>2 DEF Patient, StaysTimely
  <2>4. m.type # "MATCH_JOIN_RSP" /\ m.type # "HERO_SELECT_RSP"
    BY <1>3 DEF Responses
  <2>5. StaysTimely(C, u, d, P)
    BY DEF Patient
  <2> QED  BY <1>3, <2>1, <2>3, <2>4, <2>5, TimelyGrows
<1>6. WillBeAsked(C, u, d, P) => WillBeAsked(C, u, e, R)
  BY <1>4, AskedGrows
<1> QED
  BY <1>4, <1>5, <1>6 DEF Patient, ButtonWaits

\* The answer leads away from where it is the player's move only if he asked for it.
LEMMA AnswerIs ==
  ASSUME NEW request, NEW P, IsPicture(P), NEW m, Answers(request, P, m),
         request # "malformed", NEW Q, Leads(P, m, Q)
  PROVE  /\ Answered(request, m.type)
         /\ P.scene = "lobby" /\ request # "MATCH_JOIN_REQ" => Q.scene = "lobby"
         /\ P.scene \in {"heroSelect", "lobby"}
              /\ request \notin {"MATCH_JOIN_REQ", "HERO_SELECT_REQ"} =>
                   Q.scene \in {"heroSelect", "lobby"}
         /\ HisMove(P) /\ request \notin {"MATCH_JOIN_REQ", "BATTLE_ATTACK_REQ"} => HisMove(Q)
         /\ request = "BATTLE_ATTACK_REQ" => P.scene = "battle" /\ P.yourTurn /\ ~Q.yourTurn
              /\ Q.scene = "battle" /\ m.type = "BATTLE_STATE_NTF" /\ ~m.yourTurn
         /\ request # "BATTLE_ATTACK_REQ" => m.type # "BATTLE_STATE_NTF"
         /\ m.type = "MATCH_JOIN_RSP" => request = "MATCH_JOIN_REQ"
         /\ m.type = "HERO_SELECT_RSP" => request = "HERO_SELECT_REQ"
<1> USE DEF RoomScenes
<1>1. Answered(request, m.type)
  BY DEF Answers, Answered
<1>2. P.scene = "lobby" /\ request # "MATCH_JOIN_REQ" => Q.scene = "lobby"
  BY DEF Answers, Leads
<1>3. P.scene \in {"heroSelect", "lobby"} /\ request \notin {"MATCH_JOIN_REQ", "HERO_SELECT_REQ"} =>
        Q.scene \in {"heroSelect", "lobby"}
  BY DEF Answers, Leads
<1>4. HisMove(P) /\ request \notin {"MATCH_JOIN_REQ", "BATTLE_ATTACK_REQ"} => HisMove(Q)
  BY DEF Answers, Leads, HisMove
<1>5. request = "BATTLE_ATTACK_REQ" => P.scene = "battle" /\ P.yourTurn /\ ~Q.yourTurn
        /\ Q.scene = "battle" /\ m.type = "BATTLE_STATE_NTF" /\ ~m.yourTurn
  BY DEF Answers, Leads, IsPicture
<1>6. /\ request # "BATTLE_ATTACK_REQ" => m.type # "BATTLE_STATE_NTF"
      /\ m.type = "MATCH_JOIN_RSP" => request = "MATCH_JOIN_REQ"
      /\ m.type = "HERO_SELECT_RSP" => request = "HERO_SELECT_REQ"
  BY DEF Answers
<1> QED
  BY <1>1, <1>2, <1>3, <1>4, <1>5, <1>6

\* Where it has become the player's turn it stays his move, and nothing is waiting to
\* give him the turn while an attack is on its way.
LEMMA NoTurnIsComing ==
  ASSUME NEW C, NEW u, NEW d, NEW P, Follows(P, d), StaysTimely(C, u, d, P),
         In(u, "BATTLE_ATTACK_REQ") \/ In(u, "MATCH_JOIN_REQ"),
         NEW k \in 1..Len(d), d[k].type = "BATTLE_STATE_NTF", Len(d) \in Nat
  PROVE  ~d[k].yourTurn
<1>1. Leads(P[k - 1], d[k], P[k]) /\ k - 1 \in 0..Len(d)
  BY DEF Follows
<1>2. HisMove(P[k - 1]) \/ P[k - 1].scene = "lobby"
  BY <1>1 DEF StaysTimely
<1>3. HisMove(P[k - 1])
  BY <1>2 DEF HisMove
<1> QED
  BY <1>1, <1>3 DEF Leads, HisMove

\* Nor does the answer to his oldest request.
LEMMA AnswerKeepsPatience ==
  ASSUME NEW C, NEW u, NEW d, NEW P, Follows(P, d), Patient(C, u, d, P),
         NEW v, Shorter(u, v), u[1].type # "malformed",
         NEW m, NEW e, Longer(d, m, e), Answers(u[1].type, P[Len(d)], m),
         NEW Q, Leads(P[Len(d)], m, Q), NEW R, Grown(P, R, Len(d), Q), R[0] = P[0]
  PROVE  /\ Patient(C, v, e, R)
         /\ WillBeAsked(C, u, d, P) => WillBeAsked(C, v, e, R)
<1> DEFINE n == Len(d)
           r == u[1].type
<1>1. n \in Nat /\ n \in 0..n /\ 0 \in 0..n
  BY DEF Longer
<1>2. IsPicture(P[n])
  BY <1>1, PathEnds
<1>3. /\ Answered(r, m.type)
      /\ P[n].scene = "lobby" /\ r # "MATCH_JOIN_REQ" => Q.scene = "lobby"
      /\ P[n].scene \in {"heroSelect", "lobby"} /\ r \notin {"MATCH_JOIN_REQ", "HERO_SELECT_REQ"} =>
           Q.scene \in {"heroSelect", "lobby"}
      /\ HisMove(P[n]) /\ r \notin {"MATCH_JOIN_REQ", "BATTLE_ATTACK_REQ"} => HisMove(Q)
      /\ r = "BATTLE_ATTACK_REQ" => P[n].scene = "battle" /\ P[n].yourTurn /\ ~Q.yourTurn
              /\ Q.scene = "battle" /\ m.type = "BATTLE_STATE_NTF" /\ ~m.yourTurn
      /\ r # "BATTLE_ATTACK_REQ" => m.type # "BATTLE_STATE_NTF"
      /\ m.type = "MATCH_JOIN_RSP" => r = "MATCH_JOIN_REQ"
      /\ m.type = "HERO_SELECT_RSP" => r = "HERO_SELECT_REQ"
  BY <1>2, AnswerIs
<1>4. /\ OneAtATime(v, e)
      /\ AwaitsJoin(v, e) <=> AwaitsJoin(u, d)
      /\ AwaitsAnswer(v, e) <=> AwaitsAnswer(u, d)
      /\ AwaitsHero(v, e) <=> AwaitsHero(u, d)
  BY <1>3, OneAnswered DEF Patient
<1>5. /\ \A type : In(u, type) <=> In(v, type) \/ r = type
      /\ In(u, r)
  BY InShorter
<1>6. /\ LastToJoin(v)
      /\ r = "MATCH_JOIN_REQ" => ~In(v, "HERO_SELECT_REQ") /\ ~In(v, "BATTLE_ATTACK_REQ")
  BY OrderShorter DEF Patient
<1>7. /\ r = "MATCH_JOIN_REQ" => ~In(v, "MATCH_JOIN_REQ")
      /\ r = "HERO_SELECT_REQ" => ~In(v, "HERO_SELECT_REQ")
      /\ r = "BATTLE_ATTACK_REQ" => ~In(v, "BATTLE_ATTACK_REQ")
  BY OnceShorter DEF Patient, OneAtATime
<1>8. ButtonWaits(C, v, e, P[0])
  BY <1>4, <1>5 DEF Patient, ButtonWaits
<1>9. StaysTimely(C, u, d, P)
  BY DEF Patient
<1> HIDE DEF n, r
<1>10. StaysTimely(C, v, e, R)
  <2>1. In(v, "MATCH_JOIN_REQ") => In(u, "MATCH_JOIN_REQ") /\ Q.scene = "lobby"
    BY <1>1, <1>3, <1>5, <1>7, <1>9 DEF StaysTimely, n
  <2>2. In(v, "HERO_SELECT_REQ") => In(u, "HERO_SELECT_REQ") /\ Q.scene \in {"heroSelect", "lobby"}
    BY <1>1, <1>3, <1>5, <1>6, <1>7, <1>9 DEF StaysTimely, n
  <2>3. In(v, "BATTLE_ATTACK_REQ") => In(u, "BATTLE_ATTACK_REQ")
    BY <1>5
  <2>4. In(v, "BATTLE_ATTACK_REQ") => HisMove(Q)
    BY <1>1, <1>3, <1>6, <1>7, <1>9, <2>3 DEF StaysTimely, n
  <2>5. C.attackButton => HisMove(Q)
    <3>1. r = "MATCH_JOIN_REQ" => ~C.attackButton
      <4>1. In(u, "MATCH_JOIN_REQ") => P[0].scene = "lobby"
        BY <1>1, <1>9 DEF StaysTimely, n
      <4> QED  BY <1>5, <4>1 DEF Patient, OnScreen
    <3>2. r = "BATTLE_ATTACK_REQ" => ~C.attackButton
      BY <1>5 DEF Patient, ButtonWaits
    <3> QED  BY <1>1, <1>3, <1>9, <3>1, <3>2 DEF StaysTimely, n
  <2>6. m.type = "MATCH_JOIN_RSP" => \A k \in 0..Len(d) : P[k].scene = "lobby"
    BY <1>3, <1>5, <1>9 DEF StaysTimely
  <2>7. m.type = "HERO_SELECT_RSP" => \A k \in 0..Len(d) : P[k].scene \in {"heroSelect", "lobby"}
    BY <1>3, <1>5, <1>9 DEF StaysTimely
  <2>8. m.type = "BATTLE_STATE_NTF" /\ m.yourTurn => HisMove(Q)
    BY <1>3
  <2>9. \A k \in 1..Len(d) : d[k].type = "BATTLE_STATE_NTF" /\ d[k].yourTurn => HisMove(Q)
    <3> SUFFICES ASSUME NEW k \in 1..Len(d), d[k].type = "BATTLE_STATE_NTF", d[k].yourTurn
                 PROVE  HisMove(Q)
      OBVIOUS
    <3>1. r \notin {"MATCH_JOIN_REQ", "BATTLE_ATTACK_REQ"}
      BY <1>1, <1>5, <1>9, NoTurnIsComing DEF n
    <3>2. Len(d) \in k..Len(d)
      BY <1>1 DEF n
    <3> QED  BY <1>3, <1>9, <3>1, <3>2 DEF StaysTimely, n
  <2> QED  BY <1>9, <2>1, <2>2, <2>3, <2>4, <2>5, <2>6, <2>7, <2>8, <2>9, TimelyGrows
<1>11. WillBeAsked(C, u, d, P) => WillBeAsked(C, v, e, R)
  <2>1. In(u, "BATTLE_ATTACK_REQ") => In(v, "BATTLE_ATTACK_REQ") \/ ~(Q.scene = "battle" /\ Q.yourTurn)
    BY <1>3, <1>5
  <2> QED  BY <1>4, <2>1, AskedGrows
<1> QED
  BY <1>4, <1>6, <1>8, <1>10, <1>11 DEF Patient

-----------------------------------------------------------------------------
(* The server passes a request over. *)

\* A request is dropped without an answer.
LEMMA PassedKeepsPatience ==
  ASSUME NEW C, NEW u, NEW d, NEW P, Patient(C, u, d, P), NEW v, Shorter(u, v)
  PROVE  Patient(C, v, d, P)
<1>1. \A type : In(u, type) <=> In(v, type) \/ u[1].type = type
  BY InShorter
<1>2. Once(v, {"MATCH_JOIN_REQ", "MATCH_CANCEL_REQ", "HERO_SELECT_REQ", "BATTLE_ATTACK_REQ"})
  BY OnceShorter DEF Patient, OneAtATime
<1>3. OneAtATime(v, d)
  BY <1>1, <1>2 DEF Patient, OneAtATime, AwaitsJoin, AwaitsAnswer
<1>4. LastToJoin(v)
  BY OrderShorter DEF Patient
<1>5. ButtonWaits(C, v, d, P[0])
  BY <1>1 DEF Patient, ButtonWaits, AwaitsJoin, AwaitsAnswer, AwaitsHero
<1>6. StaysTimely(C, v, d, P)
  BY <1>1 DEF Patient, StaysTimely
<1> QED
  BY <1>3, <1>4, <1>5, <1>6 DEF Patient

\* A vain attack: the player has news to read.
LEMMA VainAttackKeepsPatience ==
  ASSUME NEW C, NEW u, NEW d, NEW P, WillBeAsked(C, u, d, P), NEW v, Shorter(u, v),
         u[1].type = "BATTLE_ATTACK_REQ", Len(d) \in Nat,
         ~(P[Len(d)].scene = "battle" /\ P[Len(d)].yourTurn)
  PROVE  WillBeAsked(C, v, d, P)
<1>1. \A type : In(u, type) <=> In(v, type) \/ u[1].type = type
  BY InShorter
<1>2. P[0].scene = "battle" /\ P[0].yourTurn => Len(d) \in 1..Len(d)
  OBVIOUS
<1> QED
  BY <1>1, <1>2 DEF WillBeAsked, AwaitsJoin, AwaitsAnswer, AwaitsHero

-----------------------------------------------------------------------------
(* The player presses a button. *)

\* What the player sees stays where only certain messages lead away from.
LEMMA StaysThere ==
  ASSUME NEW P, NEW d, Follows(P, d), Len(d) \in Nat, NEW scenes,
         \/ scenes = {"lobby"} /\ ~In(d, "MATCH_JOIN_RSP")
         \/ scenes = {"heroSelect", "lobby"} /\ ~In(d, "MATCH_JOIN_RSP") /\ ~In(d, "HERO_SELECT_RSP"),
         P[0].scene \in scenes
  PROVE  \A k \in 0..Len(d) : P[k].scene \in scenes
<1> DEFINE S == {k \in 0..Len(d) : P[k].scene \notin scenes}
<1>1. ASSUME NEW k \in S PROVE k - 1 \in S /\ k - 1 < k
  <2>1. k \in 1..Len(d) /\ k - 1 \in 0..Len(d)
    OBVIOUS
  <2>2. Leads(P[k - 1], d[k], P[k])
    BY <2>1 DEF Follows
  <2>3. \A type : d[k].type = type => In(d, type)
    BY <2>1 DEF In
  <2>4. P[k - 1].scene \notin scenes
    BY <2>2, <2>3 DEF Leads, RoomScenes
  <2> QED  BY <2>1, <2>4
<1>2. S \subseteq Nat
  OBVIOUS
<1> HIDE DEF S
<1>3. S = {}
  BY <1>1, <1>2, NoneIsLeast
<1> QED
  BY <1>3 DEF S

\* One request more, at the end.
LEMMA OrderLonger ==
  ASSUME NEW u, LastToJoin(u), NEW r, NEW v, Longer(u, r, v), r.type # "MATCH_JOIN_REQ",
         r.type \in {"HERO_SELECT_REQ", "BATTLE_ATTACK_REQ"} => ~In(u, "MATCH_JOIN_REQ")
  PROVE  LastToJoin(v)
<1> SUFFICES ASSUME NEW i \in 1..Len(v), NEW j \in 1..Len(v), v[i].type = "MATCH_JOIN_REQ",
                    v[j].type \in {"HERO_SELECT_REQ", "BATTLE_ATTACK_REQ"}
             PROVE  j < i
  BY DEF LastToJoin
<1>1. i \in 1..Len(u) /\ v[i] = u[i]
  BY DEF Longer
<1>2. In(u, "MATCH_JOIN_REQ")
  BY <1>1 DEF In
<1>3. j \in 1..Len(u) /\ v[j] = u[j]
  BY <1>2 DEF Longer
<1> QED
  BY <1>1, <1>3 DEF LastToJoin

\* Nothing but a button has changed: the client remembers what it remembered.
LEMMA RemembersClicked ==
  ASSUME NEW C, NEW P, Remembers(C, P), NEW D, C.scene # "login", D.scene # "login",
         SameFigures(C, D), D.health = C.health
  PROVE  Remembers(D, P)
BY DEF Remembers, SameFigures, RoomScenes

\* He looks for a match.
LEMMA JoinKeepsPatience ==
  ASSUME NEW C, IsClient(C), NEW u, NEW d, NEW P, Follows(P, d), Remembers(C, P[0]),
         Len(d) \in Nat, Patient(C, u, d, P), CanClickMatch(C), ~C.matchmakingQueued,
         ~AwaitsAnswer(u, d), NEW r, r.type = "MATCH_JOIN_REQ", NEW v, Longer(u, r, v),
         NEW D, D.scene = C.scene, SameFigures(C, D), SameChoice(C, D), SameBattle(C, D),
         D.matchmakingQueued = C.matchmakingQueued, ~D.matchButton
  PROVE  /\ Patient(D, v, d, P)
         /\ WillBeAsked(C, u, d, P) => WillBeAsked(D, v, d, P)
<1>1. P[0].scene = "lobby" /\ C.scene = "lobby" /\ C.matchButton
  BY DEF Follows, Patient, OnScreen, Remembers, CanClickMatch, IsPicture, RoomScenes
<1>2. \A type : In(v, type) <=> In(u, type) \/ r.type = type
  BY InLonger
<1>3. ~AwaitsJoin(u, d)
  BY <1>1 DEF Patient, ButtonWaits
<1>4. ~In(u, "MATCH_JOIN_REQ") /\ ~In(d, "MATCH_JOIN_RSP")
  BY <1>3 DEF AwaitsJoin
<1>5. \A k \in 0..Len(d) : P[k].scene = "lobby"
  <2>1. P[0].scene \in {"lobby"}
    BY <1>1
  <2>2. \A k \in 0..Len(d) : P[k].scene \in {"lobby"}
    BY <1>4, <2>1, StaysThere
  <2> QED  BY <2>2
<1>6. OnScreen(D, P[0])
  BY <1>1 DEF Patient, OnScreen, SameChoice, SameBattle
<1>7. OneAtATime(v, d)
  <2>1. Once(v, {"MATCH_JOIN_REQ", "MATCH_CANCEL_REQ", "HERO_SELECT_REQ", "BATTLE_ATTACK_REQ"})
    BY <1>4, OnceLonger DEF Patient, OneAtATime
  <2> QED  BY <1>2, <1>4, <2>1 DEF Patient, OneAtATime, AwaitsJoin, AwaitsAnswer
<1>8. LastToJoin(v)
  <2> SUFFICES ASSUME NEW i \in 1..Len(v), NEW j \in 1..Len(v), v[i].type = "MATCH_JOIN_REQ",
                      v[j].type \in {"HERO_SELECT_REQ", "BATTLE_ATTACK_REQ"}
               PROVE  j < i
    BY DEF LastToJoin
  <2>1. ~(i \in 1..Len(u))
    <3>1. i \in 1..Len(u) => v[i] = u[i]
      BY DEF Longer
    <3> QED  BY <1>4, <3>1 DEF In
  <2>2. i = Len(u) + 1 /\ j # Len(u) + 1 /\ Len(v) = Len(u) + 1 /\ Len(u) \in Nat
    BY <2>1 DEF Longer
  <2> QED  BY <2>2
<1>9. ButtonWaits(D, v, d, P[0])
  BY <1>1, <1>2 DEF Patient, ButtonWaits, AwaitsJoin, AwaitsAnswer, AwaitsHero, SameChoice, SameBattle
<1>10. StaysTimely(D, v, d, P)
  BY <1>2, <1>5 DEF Patient, StaysTimely, SameBattle
<1>11. WillBeAsked(D, v, d, P)
  BY <1>1, <1>2 DEF WillBeAsked, AwaitsJoin
<1> QED
  BY <1>6, <1>7, <1>8, <1>9, <1>10, <1>11 DEF Patient

\* He no longer looks for one.
LEMMA CancelKeepsPatience ==
  ASSUME NEW C, IsClient(C), NEW u, NEW d, NEW P, Follows(P, d), Remembers(C, P[0]),
         Patient(C, u, d, P), CanClickMatch(C), C.matchmakingQueued,
         ~AwaitsAnswer(u, d), NEW r, r.type = "MATCH_CANCEL_REQ", NEW v, Longer(u, r, v),
         NEW D, D.scene = C.scene, SameFigures(C, D), SameChoice(C, D), SameBattle(C, D),
         D.matchmakingQueued = C.matchmakingQueued, ~D.matchButton
  PROVE  /\ Patient(D, v, d, P)
         /\ WillBeAsked(C, u, d, P) => WillBeAsked(D, v, d, P)
<1>1. P[0].scene = "queued" /\ C.scene = "lobby" /\ C.matchButton
  BY DEF Follows, Patient, OnScreen, Remembers, CanClickMatch, IsPicture, RoomScenes
<1>2. \A type : In(v, type) <=> In(u, type) \/ r.type = type
  BY InLonger
<1>3. ~AwaitsJoin(u, d)
  BY <1>1 DEF Patient, ButtonWaits
<1>4. ~In(u, "MATCH_CANCEL_REQ") /\ ~In(d, "MATCH_CANCEL_RSP")
  BY DEF AwaitsAnswer
<1>5. OnScreen(D, P[0])
  BY <1>1 DEF Patient, OnScreen, SameChoice, SameBattle
<1>6. OneAtATime(v, d)
  <2>1. Once(v, {"MATCH_JOIN_REQ", "MATCH_CANCEL_REQ", "HERO_SELECT_REQ", "BATTLE_ATTACK_REQ"})
    BY <1>4, OnceLonger DEF Patient, OneAtATime
  <2> QED  BY <1>2, <1>3, <1>4, <2>1 DEF Patient, OneAtATime, AwaitsJoin
<1>7. LastToJoin(v)
  BY OrderLonger DEF Patient
<1>8. ButtonWaits(D, v, d, P[0])
  BY <1>1, <1>2 DEF Patient, ButtonWaits, AwaitsJoin, AwaitsAnswer, AwaitsHero, SameChoice, SameBattle
<1>9. StaysTimely(D, v, d, P)
  BY <1>2 DEF Patient, StaysTimely, SameBattle
<1>10. WillBeAsked(D, v, d, P)
  BY <1>1, <1>2 DEF WillBeAsked, AwaitsAnswer
<1> QED
  BY <1>5, <1>6, <1>7, <1>8, <1>9, <1>10 DEF Patient

\* He confirms his hero.
LEMMA ConfirmKeepsPatience ==
  ASSUME NEW C, IsClient(C), NEW u, NEW d, NEW P, Follows(P, d), Remembers(C, P[0]),
         Len(d) \in Nat, Patient(C, u, d, P), CanConfirm(C),
         NEW r, r.type = "HERO_SELECT_REQ", NEW v, Longer(u, r, v),
         NEW D, D.scene = C.scene, SameFigures(C, D), SameLobby(C, D), SameBattle(C, D),
         ~D.heroButtons, ~D.confirmButton
  PROVE  /\ Patient(D, v, d, P)
         /\ WillBeAsked(C, u, d, P) => WillBeAsked(D, v, d, P)
<1>1. P[0].scene = "heroSelect" /\ C.scene = "heroSelect" /\ C.heroButtons
  BY DEF Follows, Patient, OnScreen, Remembers, CanConfirm, IsPicture, RoomScenes
<1>2. \A type : In(v, type) <=> In(u, type) \/ r.type = type
  BY InLonger
<1>3. ~AwaitsJoin(u, d) /\ ~AwaitsHero(u, d)
  BY <1>1 DEF Patient, ButtonWaits
<1>4. /\ ~In(u, "MATCH_JOIN_REQ") /\ ~In(d, "MATCH_JOIN_RSP")
      /\ ~In(u, "HERO_SELECT_REQ") /\ ~In(d, "HERO_SELECT_RSP")
  BY <1>3 DEF AwaitsJoin, AwaitsHero
<1>5. \A k \in 0..Len(d) : P[k].scene \in {"heroSelect", "lobby"}
  <2>1. P[0].scene \in {"heroSelect", "lobby"}
    BY <1>1
  <2> QED  BY <1>4, <2>1, StaysThere
<1>6. OnScreen(D, P[0])
  BY <1>1 DEF Patient, OnScreen, SameLobby, SameBattle
<1>7. OneAtATime(v, d)
  <2>1. Once(v, {"MATCH_JOIN_REQ", "MATCH_CANCEL_REQ", "HERO_SELECT_REQ", "BATTLE_ATTACK_REQ"})
    BY <1>4, OnceLonger DEF Patient, OneAtATime
  <2> QED  BY <1>2, <1>4, <2>1 DEF Patient, OneAtATime, AwaitsJoin, AwaitsAnswer
<1>8. LastToJoin(v)
  BY <1>4, OrderLonger DEF Patient
<1>9. ButtonWaits(D, v, d, P[0])
  BY <1>1, <1>2 DEF Patient, ButtonWaits, AwaitsJoin, AwaitsAnswer, AwaitsHero, SameLobby, SameBattle
<1>10. StaysTimely(D, v, d, P)
  BY <1>2, <1>5 DEF Patient, StaysTimely, SameBattle
<1>11. WillBeAsked(D, v, d, P)
  BY <1>1, <1>2 DEF WillBeAsked, AwaitsHero
<1> QED
  BY <1>6, <1>7, <1>8, <1>9, <1>10, <1>11 DEF Patient

\* He attacks.
LEMMA AttackKeepsPatience ==
  ASSUME NEW C, IsClient(C), NEW u, NEW d, NEW P, Follows(P, d), Remembers(C, P[0]),
         Patient(C, u, d, P), CanClickAttack(C),
         NEW r, r.type = "BATTLE_ATTACK_REQ", NEW v, Longer(u, r, v),
         NEW D, D.scene = C.scene, SameFigures(C, D), SameLobby(C, D), SameChoice(C, D),
         ~D.attackButton, D.returnLobbyButton = C.returnLobbyButton
  PROVE  /\ Patient(D, v, d, P)
         /\ WillBeAsked(C, u, d, P) => WillBeAsked(D, v, d, P)
<1>1. P[0].scene = "battle" /\ C.scene = "battle" /\ C.attackButton
  BY DEF Patient, OnScreen, CanClickAttack
<1>2. \A type : In(v, type) <=> In(u, type) \/ r.type = type
  BY InLonger
<1>3. ~AwaitsJoin(u, d) /\ ~In(u, "BATTLE_ATTACK_REQ")
  BY <1>1 DEF Patient, ButtonWaits
<1>4. ~In(u, "MATCH_JOIN_REQ")
  BY <1>3 DEF AwaitsJoin
<1>5. OnScreen(D, P[0])
  BY <1>1 DEF Patient, OnScreen, SameLobby, SameChoice
<1>6. OneAtATime(v, d)
  <2>1. Once(v, {"MATCH_JOIN_REQ", "MATCH_CANCEL_REQ", "HERO_SELECT_REQ", "BATTLE_ATTACK_REQ"})
    BY <1>3, OnceLonger DEF Patient, OneAtATime
  <2> QED  BY <1>2, <2>1 DEF Patient, OneAtATime, AwaitsJoin, AwaitsAnswer
<1>7. LastToJoin(v)
  BY <1>4, OrderLonger DEF Patient
<1>8. ButtonWaits(D, v, d, P[0])
  BY <1>1, <1>2 DEF Patient, ButtonWaits, AwaitsJoin, AwaitsAnswer, AwaitsHero, SameLobby, SameChoice
<1>9. StaysTimely(D, v, d, P)
  BY <1>1, <1>2 DEF Patient, StaysTimely
<1>10. WillBeAsked(D, v, d, P)
  BY <1>1, <1>2 DEF WillBeAsked
<1> QED
  BY <1>5, <1>6, <1>7, <1>8, <1>9, <1>10 DEF Patient

\* He sends what changes nothing on his side: a login, or what is no request.
LEMMA OtherKeepsPatience ==
  ASSUME NEW C, NEW u, NEW d, NEW P, Patient(C, u, d, P), NEW r, NEW v, Longer(u, r, v),
         r.type \notin {"MATCH_JOIN_REQ", "MATCH_CANCEL_REQ", "HERO_SELECT_REQ", "BATTLE_ATTACK_REQ"}
  PROVE  /\ Patient(C, v, d, P)
         /\ WillBeAsked(C, u, d, P) => WillBeAsked(C, v, d, P)
<1>1. \A type : In(v, type) <=> In(u, type) \/ r.type = type
  BY InLonger
<1>2. Once(v, {"MATCH_JOIN_REQ", "MATCH_CANCEL_REQ", "HERO_SELECT_REQ", "BATTLE_ATTACK_REQ"})
  BY OnceLonger DEF Patient, OneAtATime
<1>3. OneAtATime(v, d)
  BY <1>1, <1>2 DEF Patient, OneAtATime, AwaitsJoin, AwaitsAnswer
<1>4. LastToJoin(v)
  BY OrderLonger DEF Patient
<1>5. ButtonWaits(C, v, d, P[0])
  BY <1>1 DEF Patient, ButtonWaits, AwaitsJoin, AwaitsAnswer, AwaitsHero
<1>6. StaysTimely(C, v, d, P)
  BY <1>1 DEF Patient, StaysTimely
<1>7. WillBeAsked(C, u, d, P) => WillBeAsked(C, v, d, P)
  BY <1>1 DEF WillBeAsked, AwaitsJoin, AwaitsAnswer, AwaitsHero
<1> QED
  BY <1>3, <1>4, <1>5, <1>6, <1>7 DEF Patient

\* He points at a hero.
LEMMA HeroKeepsPatience ==
  ASSUME NEW C, NEW u, NEW d, NEW P, Follows(P, d), Remembers(C, P[0]),
         Patient(C, u, d, P), CanClickHero(C),
         NEW D, D.scene = C.scene, SameFigures(C, D), SameLobby(C, D), SameBattle(C, D),
         D.heroButtons, D.confirmButton
  PROVE  /\ Patient(D, u, d, P)
         /\ WillBeAsked(C, u, d, P) => WillBeAsked(D, u, d, P)
<1>1. P[0].scene = "heroSelect" /\ C.scene = "heroSelect" /\ C.heroButtons
  BY DEF Follows, Patient, OnScreen, Remembers, CanClickHero, IsPicture, RoomScenes
<1>2. OnScreen(D, P[0])
  BY <1>1 DEF Patient, OnScreen, SameLobby, SameBattle
<1>3. ButtonWaits(D, u, d, P[0])
  BY <1>1 DEF Patient, ButtonWaits, SameLobby, SameBattle
<1>4. StaysTimely(D, u, d, P)
  BY DEF Patient, StaysTimely, SameBattle
<1>5. WillBeAsked(D, u, d, P)
  BY <1>1 DEF WillBeAsked
<1> QED
  BY <1>2, <1>3, <1>4, <1>5 DEF Patient

\* He returns to the lobby.
LEMMA ReturnKeepsPatience ==
  ASSUME NEW C, NEW u, NEW d, NEW P, Patient(C, u, d, P), CanClickReturn(C),
         NEW D, D.scene = "lobby", SameFigures(C, D), SameChoice(C, D),
         D.attackButton = C.attackButton, ~D.returnLobbyButton,
         D.matchButton, ~D.matchmakingQueued
  PROVE  /\ Patient(D, u, d, P)
         /\ WillBeAsked(C, u, d, P) => WillBeAsked(D, u, d, P)
<1>1. P[0].scene = "lobby" /\ C.scene = "battle"
  BY DEF Patient, OnScreen, CanClickReturn
<1>2. OnScreen(D, P[0])
  BY <1>1 DEF Patient, OnScreen, SameChoice
<1>3. ButtonWaits(D, u, d, P[0])
  BY <1>1 DEF Patient, ButtonWaits, SameChoice
<1>4. StaysTimely(D, u, d, P)
  BY DEF Patient, StaysTimely
<1>5. WillBeAsked(D, u, d, P)
  BY <1>1 DEF WillBeAsked
<1> QED
  BY <1>2, <1>3, <1>4, <1>5 DEF Patient


-----------------------------------------------------------------------------
(* What a player knows. *)

\* The path P is what the client of p is about to see, and goes with what it shows;
\* Q is what the server holds of him. On a connection that is closing he is not told
\* of what becomes of him, but nobody but him gives up a turn of his.
Knows(P, p, C, u, d, Q, closed) ==
  /\ Follows(P, d) /\ Remembers(C, P[0])
  /\ p \notin Impatient => Patient(C, u, d, P)
  /\ C.conn \notin closed =>
       P[Len(d)] = Q /\ (p \notin Impatient => WillBeAsked(C, u, d, P))
  /\ C.conn \in closed => (HisMove(P[Len(d)]) => HisMove(Q))

Told(p, C, u, d, Q, closed) == \E P : Knows(P, p, C, u, d, Q, closed)

\* Rows that grow and shrink.
LEMMA RowSteps ==
  ASSUME NEW q, Row(q)
  PROVE  /\ Len(q) \in Nat
         /\ \A m : Longer(q, m, Append(q, m)) /\ Row(Append(q, m))
         /\ q # <<>> => Shorter(q, Tail(q)) /\ Row(Tail(q)) /\ Head(q) = q[1]
<1>1. ASSUME NEW m PROVE Longer(q, m, Append(q, m)) /\ Row(Append(q, m)) /\ Len(q) \in Nat
  BY RowGrows DEF Longer
<1>2. ASSUME q # <<>> PROVE Shorter(q, Tail(q)) /\ Row(Tail(q)) /\ Head(q) = q[1]
  BY <1>2, RowShrinks DEF Shorter
<1> QED
  BY <1>1, <1>2

\* A path grows and shrinks.
LEMMA PathSteps ==
  ASSUME NEW P, NEW n \in Nat
  PROVE  /\ \A Q : \E R : Grown(P, R, n, Q)
         /\ \E R : Shifted(P, R, n)
<1>1. ASSUME NEW Q PROVE \E R : Grown(P, R, n, Q)
  <2> DEFINE R == [k \in 0..(n + 1) |-> IF k = n + 1 THEN Q ELSE P[k]]
  <2>1. Grown(P, R, n, Q)
    BY DEF Grown
  <2> QED  BY <2>1
<1>2. \E R : Shifted(P, R, n)
  <2> DEFINE R == [k \in 0..(n - 1) |-> P[k + 1]]
  <2>1. Shifted(P, R, n)
    BY DEF Shifted
  <2> QED  BY <2>1
<1> QED
  BY <1>1, <1>2

\* He is sent the notification of what others do.
LEMMA ToldNews ==
  ASSUME NEW p, NEW C, NEW u, NEW d, NEW Q, NEW closed, Told(p, C, u, d, Q, closed),
         Row(d), C.conn \notin closed, NEW m, News(Q, m)
  PROVE  Told(p, C, u, Append(d, m), Learn(Q, m), closed) /\ Row(Append(d, m))
<1>1. PICK P : Knows(P, p, C, u, d, Q, closed)
  BY DEF Told
<1>2. Len(d) \in Nat /\ Longer(d, m, Append(d, m)) /\ Row(Append(d, m))
  BY RowSteps
<1>3. P[Len(d)] = Q /\ Follows(P, d) /\ Remembers(C, P[0])
  BY <1>1 DEF Knows
<1>4. IsPicture(Q)
  BY <1>2, <1>3, PathEnds
<1> DEFINE X == Learn(Q, m)
           e == Append(d, m)
<1>5. IsPicture(X) /\ Leads(Q, m, X)
  BY <1>4, MayLeads DEF News
<1> HIDE DEF X, e
<1>6. PICK R : Grown(P, R, Len(d), X)
  BY <1>2, PathSteps
<1>7. Follows(R, e) /\ R[0] = P[0] /\ R[Len(e)] = X
  <2>1. Longer(d, m, e) /\ IsPicture(X) /\ Leads(P[Len(d)], m, X)
    BY <1>2, <1>3, <1>5 DEF e
  <2> QED  BY <1>3, <1>6, <2>1, PathGrows
<1>8. p \notin Impatient => /\ Patient(C, u, e, R)
                            /\ WillBeAsked(C, u, d, P) => WillBeAsked(C, u, e, R)
  <2> SUFFICES ASSUME p \notin Impatient
               PROVE  /\ Patient(C, u, e, R)
                      /\ WillBeAsked(C, u, d, P) => WillBeAsked(C, u, e, R)
    OBVIOUS
  <2>1. Patient(C, u, d, P)
    BY <1>1 DEF Knows
  <2>2. Longer(d, m, e) /\ News(P[Len(d)], m) /\ Leads(P[Len(d)], m, X)
    BY <1>2, <1>3, <1>5 DEF e
  <2> QED  BY <1>3, <1>6, <1>7, <2>1, <2>2, NewsKeepsPatience
<1>9. Knows(R, p, C, u, e, X, closed)
  BY <1>1, <1>3, <1>7, <1>8 DEF Knows
<1> QED
  BY <1>2, <1>9 DEF Told, X, e

\* He is sent the answer to his oldest request.
LEMMA ToldAnswer ==
  ASSUME NEW p, NEW C, NEW u, NEW d, NEW Q, NEW closed, Told(p, C, u, d, Q, closed),
         Row(u), Row(d), u # <<>>, C.conn \notin closed, u[1].type # "malformed",
         NEW m, Answers(u[1].type, Q, m)
  PROVE  Told(p, C, Tail(u), Append(d, m), Learn(Q, m), closed) /\ Row(Append(d, m))
<1>1. PICK P : Knows(P, p, C, u, d, Q, closed)
  BY DEF Told
<1>2. Len(d) \in Nat /\ Longer(d, m, Append(d, m)) /\ Row(Append(d, m)) /\ Shorter(u, Tail(u))
  BY RowSteps
<1>3. P[Len(d)] = Q /\ Follows(P, d) /\ Remembers(C, P[0])
  BY <1>1 DEF Knows
<1>4. IsPicture(Q)
  BY <1>2, <1>3, PathEnds
<1> DEFINE X == Learn(Q, m)
           e == Append(d, m)
           v == Tail(u)
<1>5. IsPicture(X) /\ Leads(Q, m, X)
  BY <1>4, MayLeads DEF Answers
<1> HIDE DEF X, e, v
<1>6. PICK R : Grown(P, R, Len(d), X)
  BY <1>2, PathSteps
<1>7. Follows(R, e) /\ R[0] = P[0] /\ R[Len(e)] = X
  <2>1. Longer(d, m, e) /\ IsPicture(X) /\ Leads(P[Len(d)], m, X)
    BY <1>2, <1>3, <1>5 DEF e
  <2> QED  BY <1>3, <1>6, <2>1, PathGrows
<1>8. p \notin Impatient => /\ Patient(C, v, e, R)
                            /\ WillBeAsked(C, u, d, P) => WillBeAsked(C, v, e, R)
  <2> SUFFICES ASSUME p \notin Impatient
               PROVE  /\ Patient(C, v, e, R)
                      /\ WillBeAsked(C, u, d, P) => WillBeAsked(C, v, e, R)
    OBVIOUS
  <2>1. Patient(C, u, d, P)
    BY <1>1 DEF Knows
  <2>2. /\ Longer(d, m, e) /\ Answers(u[1].type, P[Len(d)], m) /\ Leads(P[Len(d)], m, X)
        /\ Shorter(u, v)
    BY <1>2, <1>3, <1>5 DEF e, v
  <2> QED  BY <1>3, <1>6, <1>7, <2>1, <2>2, AnswerKeepsPatience
<1>9. Knows(R, p, C, v, e, X, closed)
  BY <1>1, <1>3, <1>7, <1>8 DEF Knows
<1> QED
  BY <1>2, <1>9 DEF Told, X, e, v

\* What others do, told in as many notifications as it takes.
LEMMA ToldStory ==
  ASSUME NEW p, NEW C, NEW u, NEW d, NEW Q, NEW closed, Told(p, C, u, d, Q, closed),
         Row(d), C.conn \notin closed, NEW ms, NEW X, Story("none", Q, ms, X)
  PROVE  Told(p, C, u, d \o ms, X, closed) /\ Row(d \o ms)
<1>1. CASE ms = <<>> /\ X = Q
  BY <1>1, RowJoins
<1>2. CASE Story1("none", Q, ms, X)
  <2>1. PICK m : ms = <<m>> /\ News(Q, m) /\ X = Learn(Q, m)
    BY <1>2 DEF Story1, Opens
  <2>2. d \o ms = Append(d, m)
    BY <2>1, RowJoins
  <2> QED  BY <2>1, <2>2, ToldNews
<1>3. CASE Story2("none", Q, ms, X)
  <2>1. PICK m, n : /\ ms = <<m, n>> /\ News(Q, m) /\ News(Learn(Q, m), n)
                    /\ X = Learn(Learn(Q, m), n)
    BY <1>3 DEF Story2, Opens
  <2>2. d \o ms = Append(Append(d, m), n)
    BY <2>1, RowJoins
  <2> DEFINE Y == Learn(Q, m)
             e == Append(d, m)
  <2>3. Told(p, C, u, e, Y, closed) /\ Row(e)
    BY <2>1, ToldNews
  <2>4. News(Y, n) /\ X = Learn(Y, n) /\ d \o ms = Append(e, n)
    BY <2>1, <2>2
  <2> HIDE DEF Y, e
  <2> QED  BY <2>3, <2>4, ToldNews
<1>4. CASE Story3("none", Q, ms, X)
  <2>1. PICK m, n, o : /\ ms = <<m, n, o>> /\ News(Q, m) /\ News(Learn(Q, m), n)
                       /\ News(Learn(Learn(Q, m), n), o)
                       /\ X = Learn(Learn(Learn(Q, m), n), o)
    BY <1>4 DEF Story3, Opens
  <2>2. d \o ms = Append(Append(Append(d, m), n), o)
    BY <2>1, RowJoins
  <2> DEFINE Y == Learn(Q, m)
             Z == Learn(Y, n)
             e == Append(d, m)
             f == Append(e, n)
  <2>3. Told(p, C, u, e, Y, closed) /\ Row(e)
    BY <2>1, ToldNews
  <2>4. News(Y, n) /\ News(Z, o) /\ X = Learn(Z, o) /\ d \o ms = Append(f, o)
    BY <2>1, <2>2
  <2>5. Told(p, C, u, f, Z, closed) /\ Row(f)
    <3> HIDE DEF Y, e
    <3> QED  BY <2>3, <2>4, ToldNews
  <2> HIDE DEF Z, f
  <2> QED  BY <2>4, <2>5, ToldNews
<1> QED
  BY <1>1, <1>2, <1>3, <1>4 DEF Story

\* What comes of his own request.
LEMMA ToldReply ==
  ASSUME NEW p, NEW C, NEW u, NEW d, NEW Q, NEW closed, Told(p, C, u, d, Q, closed),
         Row(u), Row(d), u # <<>>, C.conn \notin closed,
         NEW request, request = u[1].type, request # "malformed", request # "none",
         NEW ms, NEW X, Story(request, Q, ms, X)
  PROVE  Told(p, C, Tail(u), d \o ms, X, closed) /\ Row(d \o ms)
<1> DEFINE v == Tail(u)
<1>1. ASSUME NEW m, Opens(request, Q, m)
      PROVE  Told(p, C, v, Append(d, m), Learn(Q, m), closed) /\ Row(Append(d, m))
  <2>1. Answers(u[1].type, Q, m)
    BY <1>1 DEF Opens
  <2> QED  BY <2>1, ToldAnswer
<1>2. CASE Story1(request, Q, ms, X)
  <2>1. PICK m : ms = <<m>> /\ Opens(request, Q, m) /\ X = Learn(Q, m)
    BY <1>2 DEF Story1
  <2>2. d \o ms = Append(d, m)
    BY <2>1, RowJoins
  <2> QED  BY <1>1, <2>1, <2>2
<1>3. CASE Story2(request, Q, ms, X)
  <2>1. PICK m, n : /\ ms = <<m, n>> /\ Opens(request, Q, m) /\ News(Learn(Q, m), n)
                    /\ X = Learn(Learn(Q, m), n)
    BY <1>3 DEF Story2
  <2>2. d \o ms = Append(Append(d, m), n)
    BY <2>1, RowJoins
  <2> DEFINE Y == Learn(Q, m)
             e == Append(d, m)
  <2>3. Told(p, C, v, e, Y, closed) /\ Row(e)
    BY <1>1, <2>1
  <2>4. News(Y, n) /\ X = Learn(Y, n) /\ d \o ms = Append(e, n)
    BY <2>1, <2>2
  <2> HIDE DEF Y, e, v
  <2>5. Told(p, C, v, Append(e, n), Learn(Y, n), closed) /\ Row(Append(e, n))
    BY <2>3, <2>4, ToldNews
  <2> QED  BY <2>4, <2>5 DEF v
<1>4. CASE Story3(request, Q, ms, X)
  <2>1. PICK m, n, o : /\ ms = <<m, n, o>> /\ Opens(request, Q, m) /\ News(Learn(Q, m), n)
                       /\ News(Learn(Learn(Q, m), n), o)
                       /\ X = Learn(Learn(Learn(Q, m), n), o)
    BY <1>4 DEF Story3
  <2>2. d \o ms = Append(Append(Append(d, m), n), o)
    BY <2>1, RowJoins
  <2> DEFINE Y == Learn(Q, m)
             Z == Learn(Y, n)
             e == Append(d, m)
             f == Append(e, n)
  <2>3. Told(p, C, v, e, Y, closed) /\ Row(e)
    BY <1>1, <2>1
  <2>4. News(Y, n) /\ News(Z, o) /\ X = Learn(Z, o) /\ d \o ms = Append(f, o)
    BY <2>1, <2>2
  <2>5. Told(p, C, v, f, Z, closed) /\ Row(f)
    <3> HIDE DEF Y, e, v
    <3> QED  BY <2>3, <2>4, ToldNews
  <2> HIDE DEF Z, f, v
  <2>6. Told(p, C, v, Append(f, o), Learn(Z, o), closed) /\ Row(Append(f, o))
    BY <2>4, <2>5, ToldNews
  <2> QED  BY <2>4, <2>6 DEF v
<1> QED
  BY <1>2, <1>3, <1>4 DEF Story

\* On a connection that is closing the story goes on, and he does not hear it.
LEMMA StoryKeepsMove ==
  ASSUME NEW Q, IsPicture(Q), NEW ms, NEW X, Story("none", Q, ms, X), HisMove(Q)
  PROVE  HisMove(X)
<1>1. ASSUME NEW R, IsPicture(R), NEW m, News(R, m)
      PROVE  IsPicture(Learn(R, m)) /\ (HisMove(R) => HisMove(Learn(R, m)))
  <2>1. IsPicture(Learn(R, m)) /\ Leads(R, m, Learn(R, m))
    BY <1>1, MayLeads DEF News
  <2> QED  BY <1>1, <2>1, NewsIs
<1>2. CASE ms = <<>> /\ X = Q
  BY <1>2
<1>3. CASE Story1("none", Q, ms, X)
  <2>1. PICK m : News(Q, m) /\ X = Learn(Q, m)
    BY <1>3 DEF Story1, Opens
  <2> QED  BY <1>1, <2>1
<1>4. CASE Story2("none", Q, ms, X)
  <2>1. PICK m, n : News(Q, m) /\ News(Learn(Q, m), n) /\ X = Learn(Learn(Q, m), n)
    BY <1>4 DEF Story2, Opens
  <2>2. IsPicture(Learn(Q, m)) /\ HisMove(Learn(Q, m))
    BY <1>1, <2>1
  <2> QED  BY <1>1, <2>1, <2>2
<1>5. CASE Story3("none", Q, ms, X)
  <2>1. PICK m, n, o : /\ News(Q, m) /\ News(Learn(Q, m), n) /\ News(Learn(Learn(Q, m), n), o)
                       /\ X = Learn(Learn(Learn(Q, m), n), o)
    BY <1>5 DEF Story3, Opens
  <2>2. IsPicture(Learn(Q, m)) /\ HisMove(Learn(Q, m))
    BY <1>1, <2>1
  <2>3. IsPicture(Learn(Learn(Q, m), n)) /\ HisMove(Learn(Learn(Q, m), n))
    BY <1>1, <2>1, <2>2
  <2> QED  BY <1>1, <2>1, <2>3
<1> QED
  BY <1>2, <1>3, <1>4, <1>5 DEF Story

\* What others do while his connection closes he is not told.
LEMMA ToldNothing ==
  ASSUME NEW p, NEW C, NEW u, NEW d, NEW Q, NEW closed, Told(p, C, u, d, Q, closed),
         C.conn \in closed, NEW X, HisMove(Q) => HisMove(X)
  PROVE  Told(p, C, u, d, X, closed)
BY DEF Told, Knows

\* His connection is about to close: what he has asked is passed over.
LEMMA ToldDropped ==
  ASSUME NEW p, NEW C, NEW u, NEW d, NEW Q, NEW closed, Told(p, C, u, d, Q, closed),
         Row(u), u # <<>>, NEW over, C.conn \in over
  PROVE  Told(p, C, Tail(u), d, Q, over)
<1>1. PICK P : Knows(P, p, C, u, d, Q, closed)
  BY DEF Told
<1>2. Shorter(u, Tail(u))
  BY RowSteps
<1>3. p \notin Impatient => Patient(C, Tail(u), d, P)
  BY <1>1, <1>2, PassedKeepsPatience DEF Knows
<1>4. HisMove(P[Len(d)]) => HisMove(Q)
  BY <1>1 DEF Knows
<1>5. Knows(P, p, C, Tail(u), d, Q, over)
  BY <1>1, <1>3, <1>4 DEF Knows
<1> QED
  BY <1>5 DEF Told

\* A vain attack of his is passed over.
LEMMA ToldVain ==
  ASSUME NEW p, NEW C, NEW u, NEW d, NEW Q, NEW closed, Told(p, C, u, d, Q, closed),
         Row(u), Row(d), u # <<>>, u[1].type = "BATTLE_ATTACK_REQ", C.conn \notin closed,
         ~(Q.scene = "battle" /\ Q.yourTurn)
  PROVE  Told(p, C, Tail(u), d, Q, closed)
<1>1. PICK P : Knows(P, p, C, u, d, Q, closed)
  BY DEF Told
<1>2. Shorter(u, Tail(u)) /\ Len(d) \in Nat
  BY RowSteps
<1>3. p \notin Impatient => Patient(C, Tail(u), d, P)
  BY <1>1, <1>2, PassedKeepsPatience DEF Knows
<1>4. p \notin Impatient => WillBeAsked(C, Tail(u), d, P)
  BY <1>1, <1>2, VainAttackKeepsPatience DEF Knows
<1>5. Knows(P, p, C, Tail(u), d, Q, closed)
  BY <1>1, <1>3, <1>4 DEF Knows
<1> QED
  BY <1>5 DEF Told

\* His client reads.
LEMMA ToldRead ==
  ASSUME NEW p, NEW C, NEW u, NEW d, NEW Q, NEW closed, Told(p, C, u, d, Q, closed),
         IsClient(C), Row(d), d # <<>>
  PROVE  LET D == Read(C, Head(d)) IN
         /\ Told(p, D, u, Tail(d), Q, closed)
         /\ IsClient(D) /\ SameSocket(C, D)
<1>1. PICK P : Knows(P, p, C, u, d, Q, closed)
  BY DEF Told
<1>2. Shorter(d, Tail(d)) /\ Len(d) \in Nat /\ Head(d) = d[1]
  BY RowSteps
<1>3. PICK R : Shifted(P, R, Len(d))
  BY <1>2, PathSteps
<1> DEFINE D == Read(C, d[1])
           e == Tail(d)
<1>4. /\ IsClient(D) /\ SameSocket(C, D) /\ ReadsTo(C, d[1], D)
      /\ Follows(R, e) /\ R[Len(e)] = P[Len(d)] /\ Remembers(D, R[0])
  BY <1>1, <1>2, <1>3, ReadKeepsMemory DEF Knows
<1> HIDE DEF D, e
<1>5. p \notin Impatient => /\ Patient(D, u, e, R)
                            /\ WillBeAsked(C, u, d, P) => WillBeAsked(D, u, e, R)
  BY <1>1, <1>2, <1>3, <1>4, ReadKeepsPatience DEF Knows, e
<1>6. Knows(R, p, D, u, e, Q, closed)
  BY <1>1, <1>4, <1>5 DEF Knows, SameSocket
<1> QED
  BY <1>2, <1>4, <1>6 DEF Told, D, e

-----------------------------------------------------------------------------
(* What a player knows after a click. *)

\* A click that leaves the path where it is.
LEMMA ToldStays ==
  ASSUME NEW P, NEW p, NEW C, NEW u, NEW d, NEW Q, NEW closed, Knows(P, p, C, u, d, Q, closed),
         NEW D, SameSocket(C, D), Remembers(D, P[0]), NEW v,
         p \notin Impatient => /\ Patient(D, v, d, P)
                               /\ WillBeAsked(C, u, d, P) => WillBeAsked(D, v, d, P)
  PROVE  Told(p, D, v, d, Q, closed)
<1>1. Knows(P, p, D, v, d, Q, closed)
  BY DEF Knows, SameSocket
<1> QED
  BY <1>1 DEF Told

\* He presses the button of the lobby.
LEMMA ToldMatch ==
  ASSUME NEW p, NEW C, NEW u, NEW d, NEW Q, NEW closed, Told(p, C, u, d, Q, closed),
         IsClient(C), Row(u), Row(d), CanClickMatch(C),
         p \notin Impatient => ~AwaitsAnswer(u, d),
         NEW r, r.type = MatchRequest(C)
  PROVE  LET D == ClickMatch(C) IN
         /\ Told(p, D, Append(u, r), d, Q, closed)
         /\ IsClient(D) /\ SameSocket(C, D) /\ D.scene = C.scene
<1> DEFINE D == ClickMatch(C)
           v == Append(u, r)
<1>1. PICK P : Knows(P, p, C, u, d, Q, closed)
  BY DEF Told
<1>2. Longer(u, r, v) /\ Len(d) \in Nat
  BY RowSteps
<1>3. /\ IsClient(D) /\ SameSocket(C, D) /\ D.scene = C.scene /\ SameFigures(C, D)
      /\ SameChoice(C, D) /\ SameBattle(C, D)
      /\ D.matchmakingQueued = C.matchmakingQueued /\ ~D.matchButton
  <2>1. D = ClickMatch(C)
    OBVIOUS
  <2> HIDE DEF D
  <2> QED  BY <2>1 DEF ClickMatch, IsClient, SameSocket, SameFigures, SameChoice, SameBattle
<1>4. C.scene = "lobby"
  BY DEF CanClickMatch
<1> HIDE DEF D, v
<1>5. Remembers(D, P[0])
  BY <1>1, <1>3, <1>4, RemembersClicked DEF Knows, SameBattle
<1>6. ASSUME p \notin Impatient
      PROVE  /\ Patient(D, v, d, P)
             /\ WillBeAsked(C, u, d, P) => WillBeAsked(D, v, d, P)
  <2>1. Follows(P, d) /\ Remembers(C, P[0]) /\ Patient(C, u, d, P) /\ ~AwaitsAnswer(u, d)
    BY <1>1, <1>6 DEF Knows
  <2>2. CASE ~C.matchmakingQueued
    <3>1. r.type = "MATCH_JOIN_REQ"
      BY <2>2 DEF MatchRequest
    <3> QED  BY <1>2, <1>3, <2>1, <2>2, <3>1, JoinKeepsPatience
  <2>3. CASE C.matchmakingQueued
    <3>1. r.type = "MATCH_CANCEL_REQ"
      BY <2>3 DEF MatchRequest
    <3> QED  BY <1>2, <1>3, <2>1, <2>3, <3>1, CancelKeepsPatience
  <2> QED  BY <2>2, <2>3 DEF IsClient
<1>7. Told(p, D, v, d, Q, closed)
  BY <1>1, <1>3, <1>5, <1>6, ToldStays
<1> QED
  BY <1>3, <1>7 DEF D, v

\* He points at a hero.
LEMMA ToldHero ==
  ASSUME NEW p, NEW C, NEW u, NEW d, NEW Q, NEW closed, Told(p, C, u, d, Q, closed),
         IsClient(C), CanClickHero(C), NEW hero
  PROVE  LET D == ClickHero(C, hero) IN
         /\ Told(p, D, u, d, Q, closed)
         /\ IsClient(D) /\ SameSocket(C, D) /\ D.scene = C.scene
<1> DEFINE D == ClickHero(C, hero)
<1>1. PICK P : Knows(P, p, C, u, d, Q, closed)
  BY DEF Told
<1>2. /\ IsClient(D) /\ SameSocket(C, D) /\ D.scene = C.scene /\ SameFigures(C, D)
      /\ SameLobby(C, D) /\ SameBattle(C, D) /\ D.heroButtons /\ D.confirmButton
  <2>1. D = ClickHero(C, hero)
    OBVIOUS
  <2> HIDE DEF D
  <2> QED  BY <2>1 DEF ClickHero, CanClickHero, IsClient, SameSocket, SameFigures, SameLobby, SameBattle
<1>3. C.scene = "heroSelect"
  BY DEF CanClickHero
<1> HIDE DEF D
<1>4. Remembers(D, P[0])
  BY <1>1, <1>2, <1>3, RemembersClicked DEF Knows, SameBattle
<1>5. ASSUME p \notin Impatient
      PROVE  /\ Patient(D, u, d, P)
             /\ WillBeAsked(C, u, d, P) => WillBeAsked(D, u, d, P)
  BY <1>1, <1>2, <1>5, HeroKeepsPatience DEF Knows
<1>6. Told(p, D, u, d, Q, closed)
  BY <1>1, <1>2, <1>4, <1>5, ToldStays
<1> QED
  BY <1>2, <1>6 DEF D

\* He confirms his hero.
LEMMA ToldConfirm ==
  ASSUME NEW p, NEW C, NEW u, NEW d, NEW Q, NEW closed, Told(p, C, u, d, Q, closed),
         IsClient(C), Row(u), Row(d), CanConfirm(C), NEW r, r.type = "HERO_SELECT_REQ"
  PROVE  LET D == ClickConfirm(C) IN
         /\ Told(p, D, Append(u, r), d, Q, closed)
         /\ IsClient(D) /\ SameSocket(C, D) /\ D.scene = C.scene
<1> DEFINE D == ClickConfirm(C)
           v == Append(u, r)
<1>1. PICK P : Knows(P, p, C, u, d, Q, closed)
  BY DEF Told
<1>2. Longer(u, r, v) /\ Len(d) \in Nat
  BY RowSteps
<1>3. /\ IsClient(D) /\ SameSocket(C, D) /\ D.scene = C.scene /\ SameFigures(C, D)
      /\ SameLobby(C, D) /\ SameBattle(C, D) /\ ~D.heroButtons /\ ~D.confirmButton
  <2>1. D = ClickConfirm(C)
    OBVIOUS
  <2> HIDE DEF D
  <2> QED  BY <2>1 DEF ClickConfirm, IsClient, SameSocket, SameFigures, SameLobby, SameBattle
<1>4. C.scene = "heroSelect"
  BY DEF CanConfirm
<1> HIDE DEF D, v
<1>5. Remembers(D, P[0])
  BY <1>1, <1>3, <1>4, RemembersClicked DEF Knows, SameBattle
<1>6. ASSUME p \notin Impatient
      PROVE  /\ Patient(D, v, d, P)
             /\ WillBeAsked(C, u, d, P) => WillBeAsked(D, v, d, P)
  BY <1>1, <1>2, <1>3, <1>6, ConfirmKeepsPatience DEF Knows
<1>7. Told(p, D, v, d, Q, closed)
  BY <1>1, <1>3, <1>5, <1>6, ToldStays
<1> QED
  BY <1>3, <1>7 DEF D, v

\* He attacks.
LEMMA ToldAttack ==
  ASSUME NEW p, NEW C, NEW u, NEW d, NEW Q, NEW closed, Told(p, C, u, d, Q, closed),
         IsClient(C), Row(u), CanClickAttack(C), NEW r, r.type = "BATTLE_ATTACK_REQ"
  PROVE  LET D == ClickAttack(C) IN
         /\ Told(p, D, Append(u, r), d, Q, closed)
         /\ IsClient(D) /\ SameSocket(C, D) /\ D.scene = C.scene
<1> DEFINE D == ClickAttack(C)
           v == Append(u, r)
<1>1. PICK P : Knows(P, p, C, u, d, Q, closed)
  BY DEF Told
<1>2. Longer(u, r, v)
  BY RowSteps
<1>3. /\ IsClient(D) /\ SameSocket(C, D) /\ D.scene = C.scene /\ SameFigures(C, D)
      /\ SameLobby(C, D) /\ SameChoice(C, D) /\ ~D.attackButton
      /\ D.returnLobbyButton = C.returnLobbyButton /\ D.health = C.health
  <2>1. D = ClickAttack(C)
    OBVIOUS
  <2> HIDE DEF D
  <2> QED  BY <2>1 DEF ClickAttack, IsClient, SameSocket, SameFigures, SameLobby, SameChoice
<1>4. C.scene = "battle"
  BY DEF CanClickAttack
<1> HIDE DEF D, v
<1>5. Remembers(D, P[0])
  BY <1>1, <1>3, <1>4, RemembersClicked DEF Knows
<1>6. ASSUME p \notin Impatient
      PROVE  /\ Patient(D, v, d, P)
             /\ WillBeAsked(C, u, d, P) => WillBeAsked(D, v, d, P)
  BY <1>1, <1>2, <1>3, <1>6, AttackKeepsPatience DEF Knows
<1>7. Told(p, D, v, d, Q, closed)
  BY <1>1, <1>3, <1>5, <1>6, ToldStays
<1> QED
  BY <1>3, <1>7 DEF D, v

\* He returns to the lobby.
LEMMA ToldReturn ==
  ASSUME NEW p, NEW C, NEW u, NEW d, NEW Q, NEW closed, Told(p, C, u, d, Q, closed),
         IsClient(C), CanClickReturn(C)
  PROVE  LET D == ClickReturn(C) IN
         /\ Told(p, D, u, d, Q, closed)
         /\ IsClient(D) /\ SameSocket(C, D) /\ D.scene # "login"
<1> DEFINE D == ClickReturn(C)
<1>1. PICK P : Knows(P, p, C, u, d, Q, closed)
  BY DEF Told
<1>2. /\ IsClient(D) /\ SameSocket(C, D) /\ D.scene = "lobby" /\ SameFigures(C, D)
      /\ SameChoice(C, D) /\ D.attackButton = C.attackButton /\ ~D.returnLobbyButton
      /\ D.matchButton /\ ~D.matchmakingQueued /\ D.health = C.health
  <2>1. D = ClickReturn(C)
    OBVIOUS
  <2> HIDE DEF D
  <2> QED  BY <2>1 DEF ClickReturn, ShowMatchmakingReady, IsClient, SameSocket, SameFigures, SameChoice
<1>3. C.scene = "battle"
  BY DEF CanClickReturn
<1> HIDE DEF D
<1>4. Remembers(D, P[0])
  BY <1>1, <1>2, <1>3, RemembersClicked DEF Knows
<1>5. ASSUME p \notin Impatient
      PROVE  /\ Patient(D, u, d, P)
             /\ WillBeAsked(C, u, d, P) => WillBeAsked(D, u, d, P)
  BY <1>1, <1>2, <1>5, ReturnKeepsPatience DEF Knows
<1>6. Told(p, D, u, d, Q, closed)
  BY <1>1, <1>2, <1>4, <1>5, ToldStays
<1> QED
  BY <1>2, <1>6 DEF D

\* He sends what his client does not wait for.
LEMMA ToldOther ==
  ASSUME NEW p, NEW C, NEW u, NEW d, NEW Q, NEW closed, Told(p, C, u, d, Q, closed),
         Row(u), NEW r,
         r.type \notin {"MATCH_JOIN_REQ", "MATCH_CANCEL_REQ", "HERO_SELECT_REQ", "BATTLE_ATTACK_REQ"}
  PROVE  Told(p, C, Append(u, r), d, Q, closed)
<1> DEFINE v == Append(u, r)
<1>1. PICK P : Knows(P, p, C, u, d, Q, closed)
  BY DEF Told
<1>2. Longer(u, r, v)
  BY RowSteps
<1>3. SameSocket(C, C) /\ Remembers(C, P[0])
  BY <1>1 DEF Knows, SameSocket
<1> HIDE DEF v
<1>4. ASSUME p \notin Impatient
      PROVE  /\ Patient(C, v, d, P)
             /\ WillBeAsked(C, u, d, P) => WillBeAsked(C, v, d, P)
  BY <1>1, <1>2, <1>4, OtherKeepsPatience DEF Knows
<1>5. Told(p, C, v, d, Q, closed)
  BY <1>1, <1>3, <1>4, ToldStays
<1> QED
  BY <1>5 DEF v

\* A connection starts at the login scene, with one request on its way.
LEMMA ToldAtFirst ==
  ASSUME NEW p, NEW C, Fresh(C), C.scene = "login", NEW r,
         r.type \notin {"MATCH_JOIN_REQ", "MATCH_CANCEL_REQ", "HERO_SELECT_REQ", "BATTLE_ATTACK_REQ"},
         NEW closed, C.conn \notin closed
  PROVE  Told(p, C, <<r>>, <<>>, LoggedOut, closed)
<1> DEFINE P == [k \in {0} |-> LoggedOut]
<1>1. Len(<<r>>) = 1 /\ <<r>>[1] = r /\ Len(<<>>) = 0
  OBVIOUS
<1>2. P[0] = LoggedOut /\ IsPicture(LoggedOut) /\ LoggedOut.scene = "login"
  BY DEF LoggedOut, IsPicture, Shown
<1> HIDE DEF P
<1> DEFINE u == <<r>>
           d == <<>>
<1>3. /\ \A i \in 1..Len(u) : u[i].type = r.type /\ i = 1
      /\ Len(d) = 0 /\ 1..Len(d) = {}
  BY <1>1
<1> HIDE DEF u, d
<1>4. Follows(P, d) /\ Remembers(C, P[0])
  BY <1>2, <1>3 DEF Follows, Remembers, RoomScenes
<1>5. Patient(C, u, d, P)
  <2>1. OnScreen(C, P[0])
    BY <1>2 DEF OnScreen, Fresh
  <2>2. \A type \in {"MATCH_JOIN_REQ", "MATCH_CANCEL_REQ", "HERO_SELECT_REQ", "BATTLE_ATTACK_REQ"} :
          ~In(u, type)
    BY <1>3 DEF In
  <2>3. \A type : ~In(d, type)
    BY <1>3 DEF In
  <2>4. OneAtATime(u, d)
    BY <1>3, <2>2, <2>3 DEF OneAtATime, Once, AwaitsJoin
  <2>5. LastToJoin(u)
    BY <1>3 DEF LastToJoin
  <2>6. ButtonWaits(C, u, d, P[0])
    BY <2>2, <2>3 DEF ButtonWaits, AwaitsJoin, AwaitsAnswer, AwaitsHero
  <2>7. StaysTimely(C, u, d, P)
    BY <1>3, <2>2 DEF StaysTimely, Fresh
  <2> QED  BY <2>1, <2>4, <2>5, <2>6, <2>7 DEF Patient
<1>6. WillBeAsked(C, u, d, P)
  BY <1>2 DEF WillBeAsked
<1>7. Knows(P, p, C, u, d, LoggedOut, closed)
  BY <1>2, <1>3, <1>4, <1>5, <1>6 DEF Knows
<1> QED
  BY <1>7 DEF Told, u, d

-----------------------------------------------------------------------------
(* The inductive invariant of the system. *)

\* A client that connects has been asked to at the login scene.
Opening(C) == C.scene = "login" /\ C.pendingAction \in {"LOGIN_REQ", "REGISTER_REQ"}

\* Clients and connections: every connection that has a client at its end is known to
\* the server and has no other client; only what a client has sent is on its way up,
\* and nothing is on its way to nobody. A client starts at the login scene as created.
NetInv ==
  /\ nextConnId \in Nat
  /\ \A c \in connections : c \in Nat /\ c < nextConnId
  /\ DOMAIN client = Clients /\ DOMAIN up = Connections /\ DOMAIN down = Connections
  /\ \A c \in Connections : Row(up[c]) /\ Row(down[c])
  /\ \A p \in Clients :
       /\ IsClient(client[p])
       /\ client[p].socket = "connecting" => Opening(client[p])
       /\ client[p].scene = "login" => Fresh(client[p])
  /\ \A p \in Clients, c \in Connections :
       client[p].socket = "open" /\ client[p].conn = c => c \in connections /\ ~In(up[c], "FIN")
  /\ \A p \in Clients : client[p].socket = "open" => client[p].conn \in Connections
  /\ \A p, q \in Clients :
       client[p].socket = "open" /\ client[q].socket = "open" /\ client[p].conn = client[q].conn =>
         p = q
  /\ \A c \in Connections : ~Live(c) => down[c] = <<>>

\* Every player whose client is connected is told what the server holds of him.
AllTold ==
  \A p \in Clients, c \in Connections :
    client[p].socket = "open" /\ client[p].conn = c =>
      Told(p, client[p], up[c], down[c], Picture(c), shutdown)

SystemInv == ServerInv /\ EventsMatch /\ NetInv /\ AllTold

\* A picture is one.
LEMMA PaintedIs == ASSUME NEW c PROVE IsPicture(Picture(c))
<1>1. ASSUME NEW scene \in {"login", "lobby", "queued", "heroSelect", "heroConfirmed"},
             NEW id, NEW elo
      PROVE  IsPicture(Calm(scene, id, elo))
  BY <1>1 DEF IsPicture, Calm, Shown, RoomScenes
<1>2. ASSUME NEW s, NEW state PROVE IsPicture(Fight(s, state))
  BY FightShows DEF Fight
<1>3. IsPicture(LoggedOut)
  BY DEF LoggedOut, IsPicture, Shown
<1>4. ASSUME NEW s, NEW invited, NEW T, NEW R, NEW B PROVE IsPicture(PictureIn(s, invited, T, R, B))
  BY <1>1, <1>2 DEF PictureIn
<1> QED
  BY <1>3, <1>4 DEF Picture

\* What one step tells one player.
LEMMA ToldOn ==
  ASSUME NEW p, NEW C, NEW u, NEW d, NEW Q, NEW closed, Told(p, C, u, d, Q, closed),
         Row(d), IsPicture(Q), NEW ms, NEW X, Story("none", Q, ms, X),
         NEW out, out = IF C.conn \notin closed THEN ms ELSE <<>>,
         NEW over, C.conn \in over <=> C.conn \in closed
  PROVE  Told(p, C, u, d \o out, X, over) /\ Row(d \o out)
<1>1. ASSUME NEW e, NEW Y, Told(p, C, u, e, Y, closed) PROVE Told(p, C, u, e, Y, over)
  BY <1>1 DEF Told, Knows
<1>2. CASE C.conn \notin closed
  <2>1. out = ms
    BY <1>2
  <2> QED  BY <1>1, <1>2, <2>1, ToldStory
<1>3. CASE C.conn \in closed
  <2>1. out = <<>> /\ d \o out = d
    BY <1>3, RowJoins
  <2>2. HisMove(Q) => HisMove(X)
    BY StoryKeepsMove
  <2>3. Told(p, C, u, d, X, closed)
    BY <1>3, <2>2, ToldNothing
  <2> QED  BY <1>1, <2>1, <2>3
<1> QED
  BY <1>2, <1>3

\* The server's part of a step that is a client's alone.
LEMMA ServerStands ==
  ASSUME UNCHANGED vars
  PROVE  /\ \A c : Picture(c)' = Picture(c)
         /\ UNCHANGED <<connections, shutdown>>
BY DEF vars, Picture, PictureIn, Invited, tickets

\* A client moves, and keeps its socket.
LEMMA ClientMoves ==
  ASSUME NetInv, AllTold, NEW p \in Clients, NEW D, client' = [client EXCEPT ![p] = D],
         IsClient(D), SameSocket(client[p], D),
         D.socket = "connecting" => Opening(D), D.scene = "login" => Fresh(D),
         NEW c, c = client[p].conn,
         UNCHANGED vars, nextConnId' = nextConnId,
         NEW v, NEW e,
         IF D.socket = "open"
           THEN /\ DOMAIN up' = DOMAIN up /\ up'[c] = v
                /\ DOMAIN down' = DOMAIN down /\ down'[c] = e
                /\ \A x \in Connections \ {c} : up'[x] = up[x] /\ down'[x] = down[x]
                /\ Row(v) /\ Row(e) /\ ~In(v, "FIN")
                /\ Told(p, D, v, e, Picture(c), shutdown)
           ELSE up' = up /\ down' = down
  PROVE  NetInv' /\ AllTold'
<1>1. /\ DOMAIN client = Clients /\ DOMAIN up = Connections /\ DOMAIN down = Connections
      /\ client[p].socket = "open" => c \in Connections
  BY DEF NetInv
<1>2. /\ \A x : Picture(x)' = Picture(x)
      /\ connections' = connections /\ shutdown' = shutdown
  BY ServerStands
<1>3. /\ DOMAIN client' = Clients /\ client'[p] = D
      /\ \A q \in Clients \ {p} : client'[q] = client[q]
      /\ \A q \in Clients : client'[q].socket = client[q].socket /\ client'[q].conn = client[q].conn
  BY <1>1 DEF SameSocket
<1>4. /\ DOMAIN up' = Connections /\ DOMAIN down' = Connections
      /\ \A x \in Connections : x # c \/ D.socket # "open" => up'[x] = up[x] /\ down'[x] = down[x]
      /\ D.socket = "open" => up'[c] = v /\ down'[c] = e
  BY <1>1 DEF SameSocket
<1>5. ASSUME NEW q \in Clients, q # p, NEW x \in Connections,
             client[q].socket = "open", client[q].conn = x
      PROVE  x # c \/ D.socket # "open"
  BY <1>5 DEF NetInv, SameSocket
<1>6. \A x \in Connections : Live(x)' <=> Live(x)
  BY <1>3 DEF Live, Connected
<1>7. NetInv'
  <2>1. \A x \in Connections : Row(up'[x]) /\ Row(down'[x])
    BY <1>4 DEF NetInv
  <2>2. \A q \in Clients :
          /\ IsClient(client'[q])
          /\ client'[q].socket = "connecting" => Opening(client'[q])
          /\ client'[q].scene = "login" => Fresh(client'[q])
    BY <1>3 DEF NetInv
  <2>3. ASSUME NEW q \in Clients, NEW x \in Connections, client'[q].socket = "open", client'[q].conn = x
        PROVE  x \in connections /\ ~In(up'[x], "FIN")
    <3>1. client[q].socket = "open" /\ client[q].conn = x
      BY <1>3, <2>3
    <3>2. x \in connections /\ ~In(up[x], "FIN")
      BY <3>1 DEF NetInv
    <3> QED  BY <1>4, <3>2
  <2>4. ASSUME NEW x \in Connections, ~Live(x)' PROVE down'[x] = <<>>
    <3>1. down[x] = <<>> /\ ~Live(x)
      BY <1>6, <2>4 DEF NetInv
    <3>2. x # c \/ D.socket # "open"
      BY <3>1 DEF Live, Connected, SameSocket
    <3> QED  BY <1>4, <3>1, <3>2
  <2> QED  BY <1>2, <1>3, <1>4, <2>1, <2>2, <2>3, <2>4 DEF NetInv
<1>8. AllTold'
  <2> SUFFICES ASSUME NEW q \in Clients, NEW x \in Connections,
                      client'[q].socket = "open", client'[q].conn = x
               PROVE  Told(q, client'[q], up'[x], down'[x], Picture(x)', shutdown')
    BY DEF AllTold
  <2>1. client[q].socket = "open" /\ client[q].conn = x
    BY <1>3
  <2>2. CASE q = p
    BY <1>2, <1>3, <1>4, <2>1, <2>2 DEF SameSocket
  <2>3. CASE q # p
    <3>1. Told(q, client[q], up[x], down[x], Picture(x), shutdown)
      BY <2>1 DEF AllTold
    <3> QED  BY <1>2, <1>3, <1>4, <1>5, <2>1, <2>3, <3>1
  <2> QED  BY <2>2, <2>3
<1> QED
  BY <1>7, <1>8

\* A client that is not connected does something, and is not connected.
LEMMA ClientIdles ==
  ASSUME NetInv, AllTold, NEW p \in Clients, NEW D, client' = [client EXCEPT ![p] = D],
         IsClient(D), client[p].socket # "open", D.socket # "open",
         D.socket = "connecting" => Opening(D), D.scene = "login" => Fresh(D),
         UNCHANGED <<vars, up, down, nextConnId>>
  PROVE  NetInv' /\ AllTold'
<1>1. DOMAIN client = Clients
  BY DEF NetInv
<1>2. /\ \A x : Picture(x)' = Picture(x)
      /\ connections' = connections /\ shutdown' = shutdown
  BY ServerStands
<1>3. /\ DOMAIN client' = Clients /\ client'[p] = D
      /\ \A q \in Clients \ {p} : client'[q] = client[q]
  BY <1>1
<1>4. \A x \in Connections : Live(x)' <=> Live(x)
  BY <1>3 DEF Live, Connected
<1>5. NetInv'
  <2>1. \A q \in Clients :
          /\ IsClient(client'[q])
          /\ client'[q].socket = "connecting" => Opening(client'[q])
          /\ client'[q].scene = "login" => Fresh(client'[q])
    BY <1>3 DEF NetInv
  <2>2. \A q \in Clients : client'[q].socket = "open" => q # p /\ client'[q] = client[q]
    BY <1>3
  <2> QED  BY <1>2, <1>3, <1>4, <2>1, <2>2 DEF NetInv
<1>6. AllTold'
  <2> SUFFICES ASSUME NEW q \in Clients, NEW x \in Connections,
                      client'[q].socket = "open", client'[q].conn = x
               PROVE  Told(q, client'[q], up'[x], down'[x], Picture(x)', shutdown')
    BY DEF AllTold
  <2>1. client'[q] = client[q]
    BY <1>3
  <2>2. Told(q, client[q], up[x], down[x], Picture(x), shutdown)
    BY <2>1 DEF AllTold
  <2> QED  BY <1>2, <2>1, <2>2
<1> QED
  BY <1>5, <1>6

-----------------------------------------------------------------------------
(* Connections end and start. *)

\* A connection ends.
LEMMA EndKeeps ==
  ASSUME NetInv, AllTold, NEW p \in Clients, NEW D, EndOfConnection(p, D),
         IsClient(D), D.socket = "closed", D.scene = "login" => Fresh(D)
  PROVE  NetInv' /\ AllTold'
<1> DEFINE c == client[p].conn
<1>1. /\ DOMAIN client = Clients /\ DOMAIN up = Connections /\ DOMAIN down = Connections
      /\ client[p].socket = "open" /\ c \in Connections
      /\ client' = [client EXCEPT ![p] = D] /\ down' = [down EXCEPT ![c] = <<>>]
      /\ UNCHANGED <<vars, nextConnId>>
  BY DEF NetInv, EndOfConnection, Connected
<1>2. PICK n \in 0..Len(up[c]) : up' = [up EXCEPT ![c] = Append(SubSeq(up[c], 1, n), FIN)]
  BY <1>1 DEF EndOfConnection
<1>3. /\ \A x : Picture(x)' = Picture(x)
      /\ connections' = connections /\ shutdown' = shutdown
  BY <1>1, ServerStands
<1> HIDE DEF c
<1>4. Row(up'[c]) /\ Row(down'[c])
  <2>1. PICK S : up[c] \in Seq(S)
    BY <1>1 DEF NetInv, Row
  <2>2. n \in Int /\ \A i \in 1..n : up[c][i] \in S
    BY <1>1, <1>2, <2>1, ElementOfSeq, LenProperties
  <2>3. SubSeq(up[c], 1, n) \in Seq(S)
    BY <2>2, SubSeqProperties
  <2>4. Row(Append(SubSeq(up[c], 1, n), FIN))
    BY <2>3, RowGrows DEF Row
  <2> QED  BY <1>1, <1>2, <2>4, RowEmpty
<1>5. /\ DOMAIN client' = Clients /\ client'[p] = D
      /\ \A q \in Clients \ {p} : client'[q] = client[q]
      /\ DOMAIN up' = Connections /\ DOMAIN down' = Connections
      /\ \A x \in Connections \ {c} : up'[x] = up[x] /\ down'[x] = down[x]
      /\ down'[c] = <<>>
  BY <1>1, <1>2
<1>6. ASSUME NEW q \in Clients, client'[q].socket = "open"
      PROVE  /\ q # p /\ client'[q] = client[q] /\ client[q].conn # c
             /\ client[q].conn \in Connections
  <2>1. q # p /\ client'[q] = client[q]
    BY <1>5, <1>6
  <2> QED  BY <1>1, <1>6, <2>1 DEF NetInv, c
<1>7. NetInv'
  <2>1. \A x \in Connections : Row(up'[x]) /\ Row(down'[x])
    BY <1>4, <1>5 DEF NetInv
  <2>2. \A q \in Clients :
          /\ IsClient(client'[q])
          /\ client'[q].socket = "connecting" => Opening(client'[q])
          /\ client'[q].scene = "login" => Fresh(client'[q])
    BY <1>5 DEF NetInv
  <2>3. ASSUME NEW q \in Clients, NEW x \in Connections, client'[q].socket = "open", client'[q].conn = x
        PROVE  x \in connections /\ ~In(up'[x], "FIN")
    BY <1>5, <1>6, <2>3 DEF NetInv
  <2>4. ASSUME NEW x \in Connections, ~Live(x)' PROVE down'[x] = <<>>
    <3>1. CASE x = c
      BY <1>5, <3>1
    <3>2. CASE x # c
      <4>1. ASSUME NEW q \in Clients, client[q].socket = "open", client[q].conn = x PROVE FALSE
        <5>1. q # p
          BY <3>2, <4>1 DEF c
        <5>2. client'[q] = client[q]
          BY <1>5, <5>1
        <5> QED  BY <2>4, <4>1, <5>2 DEF Live, Connected
      <4>2. ~Live(x)
        BY <4>1 DEF Live, Connected
      <4> QED  BY <1>5, <3>2, <4>2 DEF NetInv
    <3> QED  BY <3>1, <3>2
  <2>5. \A q, r \in Clients :
          client'[q].socket = "open" /\ client'[r].socket = "open" /\ client'[q].conn = client'[r].conn =>
            q = r
    BY <1>6 DEF NetInv
  <2> QED  BY <1>1, <1>3, <1>5, <1>6, <2>1, <2>2, <2>3, <2>4, <2>5 DEF NetInv
<1>8. AllTold'
  <2> SUFFICES ASSUME NEW q \in Clients, NEW x \in Connections,
                      client'[q].socket = "open", client'[q].conn = x
               PROVE  Told(q, client'[q], up'[x], down'[x], Picture(x)', shutdown')
    BY DEF AllTold
  <2>1. client'[q] = client[q] /\ x # c
    BY <1>6
  <2>2. Told(q, client[q], up[x], down[x], Picture(x), shutdown)
    BY <2>1 DEF AllTold
  <2> QED  BY <1>3, <1>5, <2>1, <2>2
<1> QED
  BY <1>7, <1>8

\* A client is connected.
LEMMA EstablishKeeps ==
  ASSUME BaseInv, NetInv, AllTold, NEW p \in Clients, Establish(p)
  PROVE  NetInv' /\ AllTold'
<1> DEFINE D == SocketConnected(client[p], nextConnId)
           r == LoginRequest(p, client[p].pendingAction)
<1> PICK c : c = nextConnId
  OBVIOUS
<1>1. /\ DOMAIN client = Clients /\ DOMAIN up = Connections /\ DOMAIN down = Connections
      /\ client[p].socket = "connecting" /\ c \in Connections /\ c \in Nat
      /\ client' = [client EXCEPT ![p] = D] /\ up' = [up EXCEPT ![c] = <<r>>]
      /\ down' = down /\ nextConnId' = c + 1 /\ Connect(c)
  BY DEF NetInv, Establish
<1>2. /\ connections' = connections \cup {c} /\ shutdown' = shutdown
      /\ shutdown \subseteq connections /\ c \notin connections
  BY <1>1 DEF Connect, BaseInv, TypeOK
<1>3. /\ \A x \in Connections : Tells("none", x)
      /\ Picture(c)' = LoggedOut
  BY <1>1, ConnectTells
<1>4. \A x \in Connections : Picture(x)' = Picture(x) \/ x = c
  <2>1. UNCHANGED <<sessions, queue, roomService, battles, events>>
    BY <1>1 DEF Connect
  <2> QED  BY <2>1 DEF Picture, PictureIn, Invited, tickets
<1>5. /\ IsClient(D) /\ D.socket = "open" /\ D.conn = c /\ D.scene = "login" /\ Fresh(D)
  <2>1. /\ client[p].scene = "login" /\ Fresh(client[p]) /\ IsClient(client[p])
    BY <1>1 DEF NetInv, Opening
  <2>2. D = SocketConnected(client[p], c)
    OBVIOUS
  <2> HIDE DEF D
  <2> QED  BY <2>1, <2>2 DEF SocketConnected, IsClient, Fresh
<1> HIDE DEF D
<1>6. r.type \notin {"MATCH_JOIN_REQ", "MATCH_CANCEL_REQ", "HERO_SELECT_REQ", "BATTLE_ATTACK_REQ", "FIN"}
  BY <1>1 DEF LoginRequest, NetInv, Opening
<1> HIDE DEF r
<1>7. Row(<<r>>) /\ ~In(<<r>>, "FIN")
  <2> PICK q : q = <<r>>
    OBVIOUS
  <2>1. q \in Seq({r}) /\ Len(q) = 1 /\ q[1] = r
    OBVIOUS
  <2>2. Row(q)
    BY <2>1 DEF Row
  <2>3. ~In(q, "FIN")
    BY <1>6, <2>1 DEF In
  <2> QED  BY <2>2, <2>3
<1>8. /\ DOMAIN client' = Clients /\ client'[p] = D
      /\ \A q \in Clients \ {p} : client'[q] = client[q]
      /\ DOMAIN up' = Connections /\ up'[c] = <<r>>
      /\ \A x \in Connections \ {c} : up'[x] = up[x]
  BY <1>1
<1>9. ASSUME NEW q \in Clients, client[q].socket = "open" PROVE client[q].conn # c /\ q # p
  BY <1>1, <1>2, <1>9 DEF NetInv
<1>10. ~Live(c) /\ down[c] = <<>>
  BY <1>1, <1>9 DEF Live, Connected, NetInv
<1>11. NetInv'
  <2>1. \A x \in Connections : Row(up'[x]) /\ Row(down'[x])
    BY <1>1, <1>7, <1>8 DEF NetInv
  <2>2. \A q \in Clients :
          /\ IsClient(client'[q])
          /\ client'[q].socket = "connecting" => Opening(client'[q])
          /\ client'[q].scene = "login" => Fresh(client'[q])
    BY <1>5, <1>8 DEF NetInv
  <2>3. ASSUME NEW q \in Clients, NEW x \in Connections, client'[q].socket = "open", client'[q].conn = x
        PROVE  x \in connections' /\ ~In(up'[x], "FIN")
    <3>1. CASE q = p
      BY <1>2, <1>5, <1>7, <1>8, <2>3, <3>1
    <3>2. CASE q # p
      <4>1. client[q].socket = "open" /\ client[q].conn = x
        BY <1>8, <2>3, <3>2
      <4>2. x # c /\ x \in connections /\ ~In(up[x], "FIN")
        BY <1>9, <4>1 DEF NetInv
      <4> QED  BY <1>2, <1>8, <4>2
    <3> QED  BY <3>1, <3>2
  <2>4. ASSUME NEW x \in Connections, ~Live(x)' PROVE down'[x] = <<>>
    <3>1. ASSUME NEW q \in Clients, client[q].socket = "open", client[q].conn = x PROVE FALSE
      <4>1. client'[q] = client[q]
        BY <1>8, <1>9, <3>1
      <4> QED  BY <2>4, <3>1, <4>1 DEF Live, Connected
    <3>2. ~Live(x)
      BY <3>1 DEF Live, Connected
    <3> QED  BY <1>1, <3>2 DEF NetInv
  <2>5. ASSUME NEW q \in Clients, NEW s \in Clients, client'[q].socket = "open",
               client'[s].socket = "open", client'[q].conn = client'[s].conn
        PROVE  q = s
    <3>1. \A t \in Clients : client'[t].socket = "open" /\ t # p =>
            client[t].socket = "open" /\ client'[t].conn = client[t].conn /\ client'[t].conn # c
      BY <1>8, <1>9
    <3> QED  BY <1>5, <1>8, <2>5, <3>1 DEF NetInv
  <2>6. \A q \in Clients : client'[q].socket = "open" => client'[q].conn \in Connections
    BY <1>1, <1>5, <1>8 DEF NetInv
  <2>7. nextConnId' \in Nat /\ \A x \in connections' : x \in Nat /\ x < nextConnId'
    BY <1>1, <1>2 DEF NetInv
  <2> QED  BY <1>1, <1>8, <2>1, <2>2, <2>3, <2>4, <2>5, <2>6, <2>7 DEF NetInv
<1>12. AllTold'
  <2> SUFFICES ASSUME NEW q \in Clients, NEW x \in Connections,
                      client'[q].socket = "open", client'[q].conn = x
               PROVE  Told(q, client'[q], up'[x], down'[x], Picture(x)', shutdown')
    BY DEF AllTold
  <2>1. CASE q = p
    <3>1. Told(p, D, <<r>>, <<>>, LoggedOut, shutdown)
      BY <1>2, <1>5, <1>6, ToldAtFirst
    <3> QED  BY <1>1, <1>2, <1>3, <1>5, <1>8, <1>10, <2>1, <3>1
  <2>2. CASE q # p
    <3>1. client'[q] = client[q] /\ x # c
      BY <1>8, <1>9, <2>2
    <3>2. Told(q, client[q], up[x], down[x], Picture(x), shutdown)
      BY <3>1 DEF AllTold
    <3> QED  BY <1>1, <1>2, <1>4, <1>8, <3>1, <3>2
  <2> QED  BY <2>1, <2>2
<1> QED
  BY <1>11, <1>12

-----------------------------------------------------------------------------
(* The server reads, and ticks. *)

\* The server has served one connection, or none, and everybody is told.
LEMMA DeliverKeeps ==
  ASSUME NetInv, Deliver, UNCHANGED <<client, nextConnId>>, connections' \subseteq connections,
         DOMAIN up' = Connections,
         \A c \in Connections : Row(up'[c]) /\ (In(up'[c], "FIN") => In(up[c], "FIN")),
         \A p \in Clients, c \in Connections :
           client[p].socket = "open" /\ client[p].conn = c =>
             /\ c \in connections'
             /\ Told(p, client[p], up'[c], down[c] \o sent'[c], Picture(c)', shutdown')
             /\ Row(down[c] \o sent'[c])
  PROVE  NetInv' /\ AllTold'
<1>1. client' = client /\ nextConnId' = nextConnId
  OBVIOUS
<1>2. \A x : Live(x)' <=> Live(x)
  BY <1>1 DEF Live
<1>3. /\ DOMAIN down' = Connections
      /\ \A c \in Connections : down'[c] = IF Live(c) THEN down[c] \o sent'[c] ELSE <<>>
  BY DEF Deliver
<1>4. ASSUME NEW p \in Clients, NEW c \in Connections, client[p].socket = "open", client[p].conn = c
      PROVE  Live(c)
  BY <1>4 DEF Live, Connected
<1>5. NetInv'
  <2>1. ASSUME NEW c \in Connections PROVE Row(up'[c]) /\ Row(down'[c])
    <3>1. CASE Live(c)
      <4>1. PICK p \in Clients : client[p].socket = "open" /\ client[p].conn = c
        BY <3>1 DEF Live, Connected
      <4> QED  BY <1>3, <3>1, <4>1
    <3>2. CASE ~Live(c)
      BY <1>3, <3>2, RowEmpty
    <3> QED  BY <3>1, <3>2
  <2>2. \A p \in Clients, c \in Connections :
          client'[p].socket = "open" /\ client'[p].conn = c => c \in connections' /\ ~In(up'[c], "FIN")
    BY <1>1 DEF NetInv
  <2> QED  BY <1>1, <1>2, <1>3, <2>1, <2>2 DEF NetInv
<1>6. AllTold'
  <2> SUFFICES ASSUME NEW p \in Clients, NEW c \in Connections,
                      client'[p].socket = "open", client'[p].conn = c
               PROVE  Told(p, client'[p], up'[c], down'[c], Picture(c)', shutdown')
    BY DEF AllTold
  <2>1. client[p].socket = "open" /\ client[p].conn = c
    BY <1>1
  <2>2. down'[c] = down[c] \o sent'[c]
    BY <1>3, <1>4, <2>1
  <2>3. Told(p, client[p], up'[c], down[c] \o sent'[c], Picture(c)', shutdown')
    BY <2>1
  <2> QED  BY <1>1, <2>2, <2>3
<1> QED
  BY <1>5, <1>6

\* What is on its way up after the server has read from one connection.
LEMMA TakenIs ==
  ASSUME NetInv, NEW conn \in Connections, up[conn] # <<>>, up' = [up EXCEPT ![conn] = Tail(@)]
  PROVE  /\ DOMAIN up' = Connections /\ up'[conn] = Tail(up[conn])
         /\ Head(up[conn]) = up[conn][1] /\ Row(up[conn])
         /\ \A c \in Connections \ {conn} : up'[c] = up[c]
         /\ \A c \in Connections : Row(up'[c]) /\ (In(up'[c], "FIN") => In(up[c], "FIN"))
<1>1. /\ DOMAIN up = Connections /\ \A c \in Connections : Row(up[c])
  BY DEF NetInv
<1>2. /\ Shorter(up[conn], Tail(up[conn])) /\ Row(Tail(up[conn])) /\ Head(up[conn]) = up[conn][1]
  BY <1>1, RowSteps
<1>3. In(Tail(up[conn]), "FIN") => In(up[conn], "FIN")
  BY <1>2, InShorter
<1> QED
  BY <1>1, <1>2, <1>3

\* A player who has asked nothing of this step is told what others have done.
LEMMA OthersHear ==
  ASSUME NetInv, AllTold, NEW p \in Clients, NEW c \in Connections,
         client[p].socket = "open", client[p].conn = c, Tells("none", c),
         c \in shutdown' <=> c \in shutdown
  PROVE  /\ Told(p, client[p], up[c], down[c] \o sent'[c], Picture(c)', shutdown')
         /\ Row(down[c] \o sent'[c])
<1>1. Told(p, client[p], up[c], down[c], Picture(c), shutdown)
  BY DEF AllTold
<1>2. Row(down[c]) /\ c \in connections
  BY DEF NetInv
<1>3. PICK ms : /\ Story("none", Picture(c), ms, Picture(c)')
                /\ sent'[c] = IF c \in connections \ shutdown THEN ms ELSE <<>>
  BY DEF Tells
<1>4. IsPicture(Picture(c))
  BY PaintedIs
<1> DEFINE Q == Picture(c)
           X == Picture(c)'
           out == sent'[c]
           over == shutdown'
           C == client[p]
<1>5. /\ Told(p, C, up[c], down[c], Q, shutdown) /\ IsPicture(Q) /\ Story("none", Q, ms, X)
      /\ out = IF C.conn \notin shutdown THEN ms ELSE <<>>
      /\ C.conn \in over <=> C.conn \in shutdown
  BY <1>1, <1>2, <1>3, <1>4
<1> HIDE DEF Q, X, out, over, C
<1>6. Told(p, C, up[c], down[c] \o out, X, over) /\ Row(down[c] \o out)
  BY <1>2, <1>5, ToldOn
<1> QED
  BY <1>6 DEF Q, X, out, over, C

\* A request has been answered.
LEMMA RequestKeeps ==
  ASSUME NetInv, AllTold, NEW conn \in Connections, NEW request,
         request \notin {"none", "malformed"},
         up[conn] # <<>>, Head(up[conn]).type = request, Receives(conn),
         up' = [up EXCEPT ![conn] = Tail(@)], Deliver, UNCHANGED <<client, nextConnId>>,
         UNCHANGED <<connections, shutdown>>, Everybody(request, conn)
  PROVE  NetInv' /\ AllTold'
<1>1. /\ DOMAIN up' = Connections /\ up'[conn] = Tail(up[conn])
      /\ Head(up[conn]) = up[conn][1] /\ Row(up[conn])
      /\ \A c \in Connections \ {conn} : up'[c] = up[c]
      /\ \A c \in Connections : Row(up'[c]) /\ (In(up'[c], "FIN") => In(up[c], "FIN"))
  BY TakenIs
<1>2. ASSUME NEW p \in Clients, NEW c \in Connections, client[p].socket = "open", client[p].conn = c
      PROVE  /\ c \in connections'
             /\ Told(p, client[p], up'[c], down[c] \o sent'[c], Picture(c)', shutdown')
             /\ Row(down[c] \o sent'[c])
  <2>1. c \in connections' /\ Row(down[c])
    BY <1>2 DEF NetInv
  <2>2. CASE c # conn
    <3>1. Tells("none", c)
      BY <2>2 DEF Everybody
    <3>2. c \in shutdown' <=> c \in shutdown
      OBVIOUS
    <3>3. /\ Told(p, client[p], up[c], down[c] \o sent'[c], Picture(c)', shutdown')
          /\ Row(down[c] \o sent'[c])
      BY <1>2, <3>1, <3>2, OthersHear
    <3> QED  BY <1>1, <2>1, <2>2, <3>3
  <2>3. CASE c = conn
    <3>1. c \in connections \ shutdown
      BY <2>3 DEF Receives
    <3>2. Tells(request, c)
      BY <2>3 DEF Everybody
    <3>3. PICK ms : Story(request, Picture(c), ms, Picture(c)') /\ sent'[c] = ms
      BY <3>1, <3>2 DEF Tells
    <3>4. Told(p, client[p], up[c], down[c], Picture(c), shutdown)
      BY <1>2 DEF AllTold
    <3> DEFINE Q == Picture(c)
               X == Picture(c)'
               C == client[p]
               u == up[c]
    <3>5. /\ Told(p, C, u, down[c], Q, shutdown) /\ Story(request, Q, ms, X)
          /\ C.conn \notin shutdown /\ Row(u) /\ u # <<>> /\ request = u[1].type
      BY <1>1, <1>2, <2>3, <3>1, <3>3, <3>4
    <3> HIDE DEF Q, X, C, u
    <3>6. Told(p, C, Tail(u), down[c] \o ms, X, shutdown) /\ Row(down[c] \o ms)
      BY <2>1, <3>5, ToldReply
    <3> QED  BY <1>1, <2>1, <2>3, <3>3, <3>6 DEF Q, X, C, u
  <2> QED  BY <2>2, <2>3
<1> QED
  BY <1>1, <1>2, DeliverKeeps

\* A frame of invalid length: the connection is about to close.
LEMMA BadFrameKeeps ==
  ASSUME NetInv, AllTold, NEW conn \in Connections, up[conn] # <<>>, BadFrame(conn),
         up' = [up EXCEPT ![conn] = Tail(@)], Deliver, UNCHANGED <<client, nextConnId>>
  PROVE  NetInv' /\ AllTold'
<1>1. /\ DOMAIN up' = Connections /\ up'[conn] = Tail(up[conn])
      /\ Row(up[conn])
      /\ \A c \in Connections \ {conn} : up'[c] = up[c]
      /\ \A c \in Connections : Row(up'[c]) /\ (In(up'[c], "FIN") => In(up[c], "FIN"))
  BY TakenIs
<1>2. /\ connections' = connections /\ shutdown' = shutdown \cup {conn} /\ sent' = Silence
      /\ UNCHANGED <<sessions, queue, roomService, battles, events>>
  BY DEF BadFrame
<1>3. \A c \in Connections : Tells("none", c)
  BY <1>2, QuietTells
<1>4. \A c : Picture(c)' = Picture(c)
  BY <1>2 DEF Picture, PictureIn, Invited, tickets
<1>5. \A c \in Connections : sent'[c] = <<>>
  BY <1>2, SilenceIs
<1>6. ASSUME NEW p \in Clients, NEW c \in Connections, client[p].socket = "open", client[p].conn = c
      PROVE  /\ c \in connections'
             /\ Told(p, client[p], up'[c], down[c] \o sent'[c], Picture(c)', shutdown')
             /\ Row(down[c] \o sent'[c])
  <2>1. c \in connections' /\ Row(down[c])
    BY <1>2, <1>6 DEF NetInv
  <2>2. CASE c # conn
    <3>1. c \in shutdown' <=> c \in shutdown
      BY <1>2, <2>2
    <3>2. Tells("none", c)
      BY <1>3
    <3>3. /\ Told(p, client[p], up[c], down[c] \o sent'[c], Picture(c)', shutdown')
          /\ Row(down[c] \o sent'[c])
      BY <1>6, <3>1, <3>2, OthersHear
    <3> QED  BY <1>1, <2>1, <2>2, <3>3
  <2>3. CASE c = conn
    <3>1. down[c] \o sent'[c] = down[c]
      BY <1>5, <2>1, RowJoins
    <3>2. Told(p, client[p], up[c], down[c], Picture(c), shutdown)
      BY <1>6 DEF AllTold
    <3>3. client[p].conn \in shutdown' /\ Row(up[c]) /\ up[c] # <<>>
      BY <1>1, <1>2, <1>6, <2>3
    <3>4. Told(p, client[p], Tail(up[c]), down[c], Picture(c), shutdown')
      BY <3>2, <3>3, ToldDropped
    <3> QED  BY <1>1, <1>4, <2>1, <2>3, <3>1, <3>4
  <2> QED  BY <2>2, <2>3
<1> QED
  BY <1>1, <1>2, <1>6, DeliverKeeps

\* The end of a connection: its client is gone.
LEMMA DisconnectKeeps ==
  ASSUME BaseInv, Agreement, EventsMatch, NetInv, AllTold, NEW conn \in Connections,
         NEW saved \in BOOLEAN, up[conn] # <<>>, Head(up[conn]) = FIN, Disconnect(conn, saved),
         up' = [up EXCEPT ![conn] = Tail(@)], Deliver, UNCHANGED <<client, nextConnId>>
  PROVE  NetInv' /\ AllTold'
<1>1. /\ DOMAIN up' = Connections /\ Head(up[conn]) = up[conn][1] /\ Row(up[conn])
      /\ \A c \in Connections \ {conn} : up'[c] = up[c]
      /\ \A c \in Connections : Row(up'[c]) /\ (In(up'[c], "FIN") => In(up[c], "FIN"))
  BY TakenIs
<1>2. connections' = connections \ {conn} /\ shutdown' = shutdown \ {conn}
  BY DEF Disconnect
<1>3. In(up[conn], "FIN")
  <2>1. Shorter(up[conn], Tail(up[conn]))
    BY <1>1, RowSteps
  <2>2. up[conn][1].type = "FIN"
    BY <1>1 DEF FIN
  <2> QED  BY <2>1, <2>2, InShorter
<1>4. ASSUME NEW p \in Clients, NEW c \in Connections, client[p].socket = "open", client[p].conn = c
      PROVE  /\ c \in connections'
             /\ Told(p, client[p], up'[c], down[c] \o sent'[c], Picture(c)', shutdown')
             /\ Row(down[c] \o sent'[c])
  <2>1. c # conn /\ c \in connections'
    BY <1>2, <1>3, <1>4 DEF NetInv
  <2>2. Tells("none", c)
    BY <2>1, DisconnectTells DEF TheOthers
  <2>3. c \in shutdown' <=> c \in shutdown
    BY <1>2, <2>1
  <2>4. /\ Told(p, client[p], up[c], down[c] \o sent'[c], Picture(c)', shutdown')
        /\ Row(down[c] \o sent'[c])
    BY <1>4, <2>2, <2>3, OthersHear
  <2> QED  BY <1>1, <2>1, <2>4
<1>5. connections' \subseteq connections
  BY <1>2
<1> QED
  BY <1>1, <1>4, <1>5, DeliverKeeps

\* The server reads a request, or the end of a stream.
LEMMA ServerReadsKeeps ==
  ASSUME BaseInv, Agreement, EventsMatch, NetInv, AllTold, NEW conn \in Connections,
         ServerReads(conn)
  PROVE  NetInv' /\ AllTold'
<1> PICK message : message = Head(up[conn])
  OBVIOUS
<1>1. /\ up[conn] # <<>> /\ Serve(conn, message) /\ up' = [up EXCEPT ![conn] = Tail(@)] /\ Deliver
      /\ UNCHANGED <<client, nextConnId>>
  BY DEF ServerReads
<1>2. ASSUME NEW request, request \notin {"none", "malformed"}, message.type = request,
             Receives(conn), UNCHANGED <<connections, shutdown>>, Everybody(request, conn)
      PROVE  NetInv' /\ AllTold'
  BY <1>1, <1>2, RequestKeeps
<1>3. CASE message.type = "LOGIN_REQ" /\ HandleLogin(conn, VerifiedAs(message.user))
  <2>1. Receives(conn) /\ UNCHANGED <<connections, shutdown>>
    BY <1>3 DEF HandleLogin
  <2> QED  BY <1>2, <1>3, <2>1, LoginTells
<1>4. CASE /\ message.type = "REGISTER_REQ"
           /\ \E saved \in BOOLEAN :
                HandleRegister(conn, message.user \notin Registered(accountRepository), saved)
  <2>1. PICK newName \in BOOLEAN, saved \in BOOLEAN : HandleRegister(conn, newName, saved)
    BY <1>4
  <2>2. Receives(conn) /\ UNCHANGED <<connections, shutdown>>
    BY <2>1 DEF HandleRegister
  <2>3. Everybody("REGISTER_REQ", conn)
    BY <2>1, RegisterTells
  <2> QED  BY <1>2, <1>4, <2>2, <2>3
<1>5. CASE message.type = "MATCH_JOIN_REQ" /\ HandleMatchJoin(conn, TRUE)
  <2>1. Receives(conn) /\ UNCHANGED <<connections, shutdown>>
    BY <1>5 DEF HandleMatchJoin
  <2>2. PICK wellFormed \in BOOLEAN : HandleMatchJoin(conn, wellFormed)
    BY <1>5
  <2>3. Everybody("MATCH_JOIN_REQ", conn)
    BY <2>2, JoinTells
  <2> QED  BY <1>2, <1>5, <2>1, <2>3
<1>6. CASE message.type = "MATCH_CANCEL_REQ" /\ HandleMatchCancel(conn, TRUE)
  <2>1. Receives(conn) /\ UNCHANGED <<connections, shutdown>>
    BY <1>6 DEF HandleMatchCancel
  <2>2. PICK wellFormed \in BOOLEAN : wellFormed /\ HandleMatchCancel(conn, wellFormed)
    BY <1>6
  <2>3. Everybody(IF wellFormed THEN "MATCH_CANCEL_REQ" ELSE "malformed", conn)
    BY <2>2, CancelTells
  <2>4. Everybody("MATCH_CANCEL_REQ", conn)
    BY <2>2, <2>3
  <2> QED  BY <1>2, <1>6, <2>1, <2>4
<1>7. CASE message.type = "HERO_SELECT_REQ" /\ HandleHeroSelect(conn, InRange(message.hero))
  <2>1. Receives(conn) /\ UNCHANGED <<connections, shutdown>>
    BY <1>7 DEF HandleHeroSelect
  <2> QED  BY <1>2, <1>7, <2>1, HeroSelectTells
<1>8. CASE message.type = "BATTLE_ATTACK_REQ" /\ \E saved \in BOOLEAN : HandleBattleAttack(conn, saved)
  <2>1. PICK saved \in BOOLEAN : HandleBattleAttack(conn, saved)
    BY <1>8
  <2>2. Receives(conn) /\ UNCHANGED <<connections, shutdown>>
    BY <2>1 DEF HandleBattleAttack
  <2> QED  BY <1>2, <1>8, <2>1, <2>2, AttackTells
<1>9. CASE BadFrame(conn)
  BY <1>1, <1>9, BadFrameKeeps
<1>10. CASE message = FIN /\ \E saved \in BOOLEAN : Disconnect(conn, saved)
  BY <1>1, <1>10, DisconnectKeeps
<1> QED
  BY <1>1, <1>3, <1>4, <1>5, <1>6, <1>7, <1>8, <1>9, <1>10 DEF Serve

\* The server ticks.
LEMMA TicksKeep ==
  ASSUME ServerInv, BaseInv', EventsMatch, NetInv, AllTold, ServerTicks
  PROVE  NetInv' /\ AllTold'
<1>1. Tick /\ Deliver /\ client' = client /\ up' = up /\ nextConnId' = nextConnId
  BY DEF ServerTicks
<1>2. connections' = connections /\ shutdown' = shutdown
  BY <1>1 DEF Tick, TickBegin, TickMatch, TickEnd
<1>3. \A c \in Connections : Tells("none", c)
  BY <1>1, TickTells
<1>4. ASSUME NEW p \in Clients, NEW c \in Connections, client[p].socket = "open", client[p].conn = c
      PROVE  /\ c \in connections'
             /\ Told(p, client[p], up'[c], down[c] \o sent'[c], Picture(c)', shutdown')
             /\ Row(down[c] \o sent'[c])
  <2>1. c \in connections'
    BY <1>2, <1>4 DEF NetInv
  <2>2. Tells("none", c) /\ (c \in shutdown' <=> c \in shutdown)
    BY <1>2, <1>3
  <2>3. /\ Told(p, client[p], up[c], down[c] \o sent'[c], Picture(c)', shutdown')
        /\ Row(down[c] \o sent'[c])
    BY <1>4, <2>2, OthersHear
  <2> QED  BY <1>1, <2>1, <2>3
<1>5. /\ DOMAIN up' = Connections
      /\ \A c \in Connections : Row(up'[c]) /\ (In(up'[c], "FIN") => In(up[c], "FIN"))
  BY <1>1 DEF NetInv
<1> QED
  BY <1>1, <1>2, <1>4, <1>5, DeliverKeeps

\* Where a player is between ticks, as the tables have it.
LEMMA SeatOf ==
  ASSUME ServerInv, EventsMatch, ~ticking, NEW c, HasSession(sessions, c),
         NEW s, s = SessionOn(sessions, c)
  PROVE  /\ Picture(c) = PictureIn(s, FALSE, tickets, roomService, battles)
         /\ s.userId \in DOMAIN tickets => s.roomId = NoRoom
         /\ s.roomId # NoRoom =>
              /\ s.roomId \in DOMAIN roomService.rooms
              /\ s.userId \in Members(roomService.rooms[s.roomId])
         /\ s.roomId \in DOMAIN battles =>
              /\ s.roomId # NoRoom
              /\ GoesOn(battles[s.roomId], roomService.rooms[s.roomId])
              /\ battles[s.roomId] \in BattleStates(UserIds, SelectableHeroes)
         /\ s.roomId # NoRoom =>
              (BothHeroesSelected(roomService, s.roomId) <=> s.roomId \in DOMAIN battles)
<1>1. BaseInv /\ TablesAreTyped /\ TablesDoAgree
  BY TypedTables, AgreementOfTables DEF ServerInv
<1>2. Picture(c) = PictureIn(s, FALSE, tickets, roomService, battles)
  BY PictureBefore
<1>3. s.userId \in DOMAIN players /\ s = players[s.userId]
  BY <1>1, PlayersAreSessions
<1>4. s.userId \in DOMAIN tickets => s.roomId = NoRoom
  BY <1>1, <1>3 DEF TablesDoAgree, TablesAgree, QueuedFree
<1>5. s.roomId # NoRoom => /\ s.roomId \in DOMAIN roomService.rooms
                           /\ s.userId \in Members(roomService.rooms[s.roomId])
  BY <1>1, <1>3 DEF TablesDoAgree, TablesAgree, RoomsMatch, HasRoom
<1>6. ASSUME s.roomId \in DOMAIN battles
      PROVE  /\ s.roomId # NoRoom
             /\ GoesOn(battles[s.roomId], roomService.rooms[s.roomId])
             /\ battles[s.roomId] \in BattleStates(UserIds, SelectableHeroes)
  <2>1. GoesOn(battles[s.roomId], roomService.rooms[s.roomId])
    BY <1>1, <1>6 DEF TablesDoAgree, TablesAgree, BattlesMatch
  <2>2. s.roomId \in Nat \ {0} /\ battles[s.roomId] \in BattleStates(UserIds, SelectableHeroes)
    BY <1>1, <1>6 DEF TablesAreTyped, TablesTyped, BattlesTyped, IsTable
  <2> QED  BY <2>1, <2>2 DEF NoRoom
<1>7. s.roomId # NoRoom =>
        (BothHeroesSelected(roomService, s.roomId) <=> s.roomId \in DOMAIN battles)
  BY <1>1, <1>5 DEF TablesDoAgree, TablesAgree, BattlesMatch, HasBattle
<1> QED
  BY <1>2, <1>4, <1>5, <1>6, <1>7

\* An attack in the turn the server gave is heeded.
LEMMA HisTurnCounts ==
  ASSUME ServerInv, EventsMatch, ~ticking, NEW c,
         Picture(c).scene = "battle", Picture(c).yourTurn
  PROVE  ~AttackIsVain(c)
<1>1. CASE ~HasSession(sessions, c)
  BY <1>1 DEF Picture, LoggedOut
<1>2. CASE HasSession(sessions, c)
  <2> DEFINE s == SessionOn(sessions, c)
  <2>1. /\ Picture(c) = PictureIn(s, FALSE, tickets, roomService, battles)
        /\ s.roomId \in DOMAIN battles =>
             /\ s.roomId # NoRoom
             /\ GoesOn(battles[s.roomId], roomService.rooms[s.roomId])
             /\ battles[s.roomId] \in BattleStates(UserIds, SelectableHeroes)
    BY <1>2, SeatOf
  <2> HIDE DEF s
  <2>2. s.roomId \in DOMAIN battles /\ Picture(c) = Fight(s, battles[s.roomId])
    BY <2>1 DEF PictureIn, Calm, Shown
  <2> DEFINE b == battles[s.roomId]
  <2>3. b.activeUserId = s.userId
    <3>1. Fight(s, b).yourTurn = (b.activeUserId = s.userId)
      BY DEF Fight, Shown
    <3> QED  BY <2>2, <3>1
  <2>4. /\ ~b.finished /\ s.userId \in {b.firstUserId, b.secondUserId}
        /\ b.firstHero \in SelectableHeroes /\ b.secondHero \in SelectableHeroes
    BY <2>1, <2>2, <2>3 DEF GoesOn, BattleStates
  <2>5. \A hero \in SelectableHeroes : heroDamage(hero) # 0
    BY DEF SelectableHeroes, heroDamage
  <2>6. CanAttack(battles, s.roomId, s.userId) /\ s.roomId # NoRoom
    BY <2>1, <2>2, <2>3, <2>4, <2>5 DEF CanAttack, HasBattle
  <2> QED  BY <1>2, <2>6 DEF AttackIsVain, s
<1> QED
  BY <1>1, <1>2

\* What the server reads without a word.
LEMMA IgnoredKeeps ==
  ASSUME ServerInv, EventsMatch, NetInv, AllTold, NEW conn \in Connections, ServerIgnores(conn)
  PROVE  NetInv' /\ AllTold'
<1>1. /\ ~ticking /\ up[conn] # <<>> /\ up' = [up EXCEPT ![conn] = Tail(@)]
      /\ UNCHANGED vars /\ client' = client /\ down' = down /\ nextConnId' = nextConnId
      /\ Head(up[conn]) # FIN
      /\ conn \in shutdown \/ (Head(up[conn]).type = "BATTLE_ATTACK_REQ" /\ AttackIsVain(conn))
  BY DEF ServerIgnores
<1>2. /\ DOMAIN up' = Connections /\ up'[conn] = Tail(up[conn])
      /\ Head(up[conn]) = up[conn][1] /\ Row(up[conn])
      /\ \A c \in Connections \ {conn} : up'[c] = up[c]
      /\ \A c \in Connections : Row(up'[c]) /\ (In(up'[c], "FIN") => In(up[c], "FIN"))
  BY <1>1, TakenIs
<1>3. /\ \A c : Picture(c)' = Picture(c)
      /\ connections' = connections /\ shutdown' = shutdown
  BY <1>1, ServerStands
<1>4. \A c \in Connections : Live(c)' <=> Live(c)
  BY <1>1 DEF Live
<1>5. NetInv'
  BY <1>1, <1>2, <1>3, <1>4 DEF NetInv
<1>6. AllTold'
  <2> SUFFICES ASSUME NEW p \in Clients, NEW c \in Connections,
                      client'[p].socket = "open", client'[p].conn = c
               PROVE  Told(p, client'[p], up'[c], down'[c], Picture(c)', shutdown')
    BY DEF AllTold
  <2>1. client[p].socket = "open" /\ client[p].conn = c
    BY <1>1
  <2>2. Told(p, client[p], up[c], down[c], Picture(c), shutdown) /\ Row(down[c])
    BY <2>1 DEF AllTold, NetInv
  <2>3. CASE c # conn
    BY <1>1, <1>2, <1>3, <2>2, <2>3
  <2>4. CASE c = conn
    <3> DEFINE u == up[c]
               d == down[c]
               C == client[p]
               Q == Picture(c)
    <3>1. Told(p, C, u, d, Q, shutdown) /\ Row(u) /\ Row(d) /\ u # <<>> /\ C.conn = c
      BY <1>1, <1>2, <2>1, <2>2, <2>4
    <3>2. /\ c \in shutdown \/ (u[1].type = "BATTLE_ATTACK_REQ" /\ AttackIsVain(c))
          /\ AttackIsVain(c) => ~(Q.scene = "battle" /\ Q.yourTurn)
      BY <1>1, <1>2, <2>4, HisTurnCounts
    <3> HIDE DEF u, d, C, Q
    <3>3. CASE c \in shutdown
      <4>1. Told(p, C, Tail(u), d, Q, shutdown)
        BY <3>1, <3>3, ToldDropped
      <4> QED  BY <1>1, <1>2, <1>3, <2>4, <4>1 DEF u, d, C, Q
    <3>4. CASE c \notin shutdown
      <4>1. Told(p, C, Tail(u), d, Q, shutdown)
        BY <3>1, <3>2, <3>4, ToldVain
      <4> QED  BY <1>1, <1>2, <1>3, <2>4, <4>1 DEF u, d, C, Q
    <3> QED  BY <3>3, <3>4
  <2> QED  BY <2>3, <2>4
<1> QED
  BY <1>5, <1>6

-----------------------------------------------------------------------------
(* The players, and what they read. *)

\* A click that sends something.
LEMMA ClickKeeps ==
  ASSUME NetInv, AllTold, NEW p \in Clients, NEW D, NEW r, Click(p, D, r), r.type # "FIN",
         IsClient(D), SameSocket(client[p], D), D.scene = "login" => Fresh(D),
         D.socket = "connecting" => Opening(D),
         \A c \in Connections :
           client[p].socket = "open" /\ client[p].conn = c =>
             Told(p, D, Append(up[c], r), down[c], Picture(c), shutdown)
  PROVE  NetInv' /\ AllTold'
<1> PICK c : c = client[p].conn
  OBVIOUS
<1>1. /\ DOMAIN up = Connections
      /\ client[p].socket = "open" =>
           c \in Connections /\ Row(up[c]) /\ Row(down[c]) /\ ~In(up[c], "FIN")
  BY DEF NetInv
<1>2. /\ client' = [client EXCEPT ![p] = D] /\ D.socket = client[p].socket /\ D.conn = c
      /\ UNCHANGED vars /\ down' = down /\ nextConnId' = nextConnId
      /\ IF D.socket = "open" THEN up' = [up EXCEPT ![D.conn] = Append(@, r)] ELSE up' = up
  BY DEF Click, Connected, SameSocket
<1> PICK v : v = Append(up[c], r)
  OBVIOUS
<1> PICK e : e = down[c]
  OBVIOUS
<1>3. IF D.socket = "open"
        THEN /\ DOMAIN up' = DOMAIN up /\ up'[c] = v
             /\ DOMAIN down' = DOMAIN down /\ down'[c] = e
             /\ \A x \in Connections \ {c} : up'[x] = up[x] /\ down'[x] = down[x]
             /\ Row(v) /\ Row(e) /\ ~In(v, "FIN")
             /\ Told(p, D, v, e, Picture(c), shutdown)
        ELSE up' = up /\ down' = down
  <2>1. CASE D.socket = "open"
    <3>1. c \in Connections /\ Row(up[c]) /\ Row(e) /\ ~In(up[c], "FIN")
      BY <1>1, <1>2, <2>1
    <3>2. Longer(up[c], r, v) /\ Row(v)
      BY <3>1, RowSteps
    <3>3. ~In(v, "FIN")
      BY <3>1, <3>2, InLonger
    <3>4. Told(p, D, v, e, Picture(c), shutdown)
      BY <1>2, <2>1, <3>1
    <3>5. /\ up' = [up EXCEPT ![c] = Append(@, r)] /\ down' = down
      BY <1>2, <2>1
    <3>6. /\ DOMAIN up' = DOMAIN up /\ up'[c] = v
          /\ \A x \in Connections \ {c} : up'[x] = up[x]
      BY <1>1, <3>1, <3>5
    <3> QED  BY <2>1, <3>1, <3>2, <3>3, <3>4, <3>5, <3>6
  <2>2. CASE D.socket # "open"
    BY <1>2, <2>2
  <2> QED  BY <2>1, <2>2
<1> QED
  BY <1>2, <1>3, ClientMoves

\* A click that sends nothing.
LEMMA QuietClickKeeps ==
  ASSUME NetInv, AllTold, NEW p \in Clients, NEW D, ClickOnly(p, D),
         IsClient(D), SameSocket(client[p], D), D.scene = "login" => Fresh(D),
         D.socket = "connecting" => Opening(D),
         \A c \in Connections :
           client[p].socket = "open" /\ client[p].conn = c =>
             Told(p, D, up[c], down[c], Picture(c), shutdown)
  PROVE  NetInv' /\ AllTold'
<1> PICK c : c = client[p].conn
  OBVIOUS
<1>1. client[p].socket = "open" =>
        c \in Connections /\ Row(up[c]) /\ Row(down[c]) /\ ~In(up[c], "FIN")
  BY DEF NetInv
<1>2. /\ client' = [client EXCEPT ![p] = D] /\ D.socket = client[p].socket
      /\ UNCHANGED vars /\ up' = up /\ down' = down /\ nextConnId' = nextConnId
  BY DEF ClickOnly, SameSocket
<1> PICK v : v = up[c]
  OBVIOUS
<1> PICK e : e = down[c]
  OBVIOUS
<1>3. IF D.socket = "open"
        THEN /\ DOMAIN up' = DOMAIN up /\ up'[c] = v
             /\ DOMAIN down' = DOMAIN down /\ down'[c] = e
             /\ \A x \in Connections \ {c} : up'[x] = up[x] /\ down'[x] = down[x]
             /\ Row(v) /\ Row(e) /\ ~In(v, "FIN")
             /\ Told(p, D, v, e, Picture(c), shutdown)
        ELSE up' = up /\ down' = down
  BY <1>1, <1>2
<1> QED
  BY <1>2, <1>3, ClientMoves

\* What a connected player is told, as the clicks need it.
LEMMA HeIsTold ==
  ASSUME NetInv, AllTold, NEW p \in Clients, NEW c \in Connections,
         client[p].socket = "open", client[p].conn = c
  PROVE  /\ Told(p, client[p], up[c], down[c], Picture(c), shutdown)
         /\ Row(up[c]) /\ Row(down[c]) /\ IsClient(client[p])
BY DEF NetInv, AllTold

\* Only a client at the login scene connects.
LEMMA OnlyOpeningConnects ==
  ASSUME NetInv, NEW p \in Clients
  PROVE  /\ IsClient(client[p])
         /\ client[p].scene # "login" => client[p].socket # "connecting"
         /\ client[p].socket = "connecting" => Opening(client[p])
         /\ client[p].scene = "login" => Fresh(client[p])
BY DEF NetInv, Opening

\* A click leaves a client, and its socket.
LEMMA ClicksKeepClients ==
  ASSUME NEW C, IsClient(C), NEW D, NEW hero,
         D = ClickMatch(C) \/ D = ClickHero(C, hero) \/ D = ClickConfirm(C) \/ D = ClickAttack(C)
  PROVE  IsClient(D) /\ SameSocket(C, D) /\ D.scene = C.scene
<1>1. CASE D = ClickMatch(C)
  BY <1>1 DEF ClickMatch, IsClient, SameSocket
<1>2. CASE D = ClickHero(C, hero)
  BY <1>2 DEF ClickHero, IsClient, SameSocket
<1>3. CASE D = ClickConfirm(C)
  BY <1>3 DEF ClickConfirm, IsClient, SameSocket
<1>4. CASE D = ClickAttack(C)
  BY <1>4 DEF ClickAttack, IsClient, SameSocket
<1> QED
  BY <1>1, <1>2, <1>3, <1>4

\* So does the way back to the lobby.
LEMMA ReturnKeepsClient ==
  ASSUME NEW C, IsClient(C), NEW D, D = ClickReturn(C)
  PROVE  IsClient(D) /\ SameSocket(C, D) /\ D.scene = "lobby"
BY DEF ClickReturn, ShowMatchmakingReady, IsClient, SameSocket

\* He presses the button of the lobby.
LEMMA PressMatchKeeps ==
  ASSUME NetInv, AllTold, NEW p \in Clients, PressMatch(p)
  PROVE  NetInv' /\ AllTold'
<1> DEFINE C == client[p]
           D == ClickMatch(C)
           r == [type |-> MatchRequest(C)]
<1>1. CanClickMatch(C) /\ Click(p, D, r) /\ C.scene = "lobby"
  BY DEF PressMatch, CanClickMatch
<1>2. r.type = MatchRequest(C) /\ r.type # "FIN"
  BY DEF MatchRequest
<1>3. IsClient(C) /\ C.socket # "connecting"
  BY <1>1, OnlyOpeningConnects
<1>4. IsClient(D) /\ SameSocket(C, D) /\ D.scene = C.scene
  BY <1>3, ClicksKeepClients
<1>5. ASSUME NEW c \in Connections, C.socket = "open", C.conn = c
      PROVE  Told(p, D, Append(up[c], r), down[c], Picture(c), shutdown)
  <2>1. Told(p, C, up[c], down[c], Picture(c), shutdown) /\ Row(up[c]) /\ Row(down[c])
    BY <1>5, HeIsTold
  <2>2. p \notin Impatient => ~AwaitsAnswer(up[c], down[c])
    BY <1>5 DEF PressMatch, AwaitsCancel, AwaitsAnswer, In, Connected
  <2> PICK Q : Q = Picture(c)
    OBVIOUS
  <2> HIDE DEF C, r
  <2>3. Told(p, ClickMatch(C), Append(up[c], r), down[c], Q, shutdown)
    BY <1>1, <1>2, <1>3, <2>1, <2>2, ToldMatch
  <2> QED  BY <2>3
<1>6. D.socket # "connecting" /\ D.scene # "login"
  BY <1>1, <1>3, <1>4 DEF SameSocket
<1> HIDE DEF D, r
<1> QED
  BY <1>1, <1>2, <1>4, <1>5, <1>6, ClickKeeps DEF C

\* He points at a hero.
LEMMA SelectHeroKeeps ==
  ASSUME NetInv, AllTold, NEW p \in Clients, SelectHeroOnScreen(p)
  PROVE  NetInv' /\ AllTold'
<1> DEFINE C == client[p]
<1>1. PICK hero : CanClickHero(C) /\ ClickOnly(p, ClickHero(C, hero)) /\ C.scene = "heroSelect"
  BY DEF SelectHeroOnScreen, CanClickHero
<1> DEFINE D == ClickHero(C, hero)
<1>3. IsClient(C) /\ C.socket # "connecting"
  BY <1>1, OnlyOpeningConnects
<1>4. IsClient(D) /\ SameSocket(C, D) /\ D.scene = C.scene
  BY <1>3, ClicksKeepClients
<1>5. ASSUME NEW c \in Connections, C.socket = "open", C.conn = c
      PROVE  Told(p, D, up[c], down[c], Picture(c), shutdown)
  <2>1. Told(p, C, up[c], down[c], Picture(c), shutdown)
    BY <1>5, HeIsTold
  <2> PICK Q : Q = Picture(c)
    OBVIOUS
  <2> HIDE DEF C
  <2>3. Told(p, ClickHero(C, hero), up[c], down[c], Q, shutdown)
    BY <1>1, <1>3, <2>1, ToldHero
  <2> QED  BY <2>3
<1>6. D.socket # "connecting" /\ D.scene # "login"
  BY <1>1, <1>3, <1>4 DEF SameSocket
<1>7. ClickOnly(p, D)
  BY <1>1
<1> HIDE DEF D
<1> QED
  BY <1>4, <1>5, <1>6, <1>7, QuietClickKeeps DEF C

\* He confirms it.
LEMMA PressConfirmKeeps ==
  ASSUME NetInv, AllTold, NEW p \in Clients, PressConfirm(p)
  PROVE  NetInv' /\ AllTold'
<1> DEFINE C == client[p]
           D == ClickConfirm(C)
           r == [type |-> "HERO_SELECT_REQ", hero |-> C.selectedHero]
<1>1. CanConfirm(C) /\ Click(p, D, r) /\ C.scene = "heroSelect"
  BY DEF PressConfirm, CanConfirm
<1>2. r.type = "HERO_SELECT_REQ" /\ r.type # "FIN"
  OBVIOUS
<1>3. IsClient(C) /\ C.socket # "connecting"
  BY <1>1, OnlyOpeningConnects
<1>4. IsClient(D) /\ SameSocket(C, D) /\ D.scene = C.scene
  BY <1>3, ClicksKeepClients
<1>5. ASSUME NEW c \in Connections, C.socket = "open", C.conn = c
      PROVE  Told(p, D, Append(up[c], r), down[c], Picture(c), shutdown)
  <2>1. Told(p, C, up[c], down[c], Picture(c), shutdown) /\ Row(up[c]) /\ Row(down[c])
    BY <1>5, HeIsTold
  <2> PICK Q : Q = Picture(c)
    OBVIOUS
  <2> HIDE DEF C, r
  <2>3. Told(p, ClickConfirm(C), Append(up[c], r), down[c], Q, shutdown)
    BY <1>1, <1>2, <1>3, <2>1, ToldConfirm
  <2> QED  BY <2>3
<1>6. D.socket # "connecting" /\ D.scene # "login"
  BY <1>1, <1>3, <1>4 DEF SameSocket
<1> HIDE DEF D, r
<1> QED
  BY <1>1, <1>2, <1>4, <1>5, <1>6, ClickKeeps DEF C

\* He attacks.
LEMMA PressAttackKeeps ==
  ASSUME NetInv, AllTold, NEW p \in Clients, PressAttack(p)
  PROVE  NetInv' /\ AllTold'
<1> DEFINE C == client[p]
           D == ClickAttack(C)
           r == [type |-> "BATTLE_ATTACK_REQ"]
<1>1. CanClickAttack(C) /\ Click(p, D, r) /\ C.scene = "battle"
  BY DEF PressAttack, CanClickAttack
<1>2. r.type = "BATTLE_ATTACK_REQ" /\ r.type # "FIN"
  OBVIOUS
<1>3. IsClient(C) /\ C.socket # "connecting"
  BY <1>1, OnlyOpeningConnects
<1>4. IsClient(D) /\ SameSocket(C, D) /\ D.scene = C.scene
  BY <1>3, ClicksKeepClients
<1>5. ASSUME NEW c \in Connections, C.socket = "open", C.conn = c
      PROVE  Told(p, D, Append(up[c], r), down[c], Picture(c), shutdown)
  <2>1. Told(p, C, up[c], down[c], Picture(c), shutdown) /\ Row(up[c])
    BY <1>5, HeIsTold
  <2> PICK Q : Q = Picture(c)
    OBVIOUS
  <2> HIDE DEF C, r
  <2>3. Told(p, ClickAttack(C), Append(up[c], r), down[c], Q, shutdown)
    BY <1>1, <1>2, <1>3, <2>1, ToldAttack
  <2> QED  BY <2>3
<1>6. D.socket # "connecting" /\ D.scene # "login"
  BY <1>1, <1>3, <1>4 DEF SameSocket
<1> HIDE DEF D, r
<1> QED
  BY <1>1, <1>2, <1>4, <1>5, <1>6, ClickKeeps DEF C

\* He returns to the lobby.
LEMMA PressReturnKeeps ==
  ASSUME NetInv, AllTold, NEW p \in Clients, PressReturn(p)
  PROVE  NetInv' /\ AllTold'
<1> DEFINE C == client[p]
           D == ClickReturn(C)
<1>1. CanClickReturn(C) /\ ClickOnly(p, D) /\ C.scene = "battle"
  BY DEF PressReturn, CanClickReturn
<1>3. IsClient(C) /\ C.socket # "connecting"
  BY <1>1, OnlyOpeningConnects
<1>4. IsClient(D) /\ SameSocket(C, D) /\ D.scene = "lobby"
  BY <1>3, ReturnKeepsClient
<1>5. ASSUME NEW c \in Connections, C.socket = "open", C.conn = c
      PROVE  Told(p, D, up[c], down[c], Picture(c), shutdown)
  <2>1. Told(p, C, up[c], down[c], Picture(c), shutdown)
    BY <1>5, HeIsTold
  <2> PICK Q : Q = Picture(c)
    OBVIOUS
  <2> HIDE DEF C
  <2>3. Told(p, ClickReturn(C), up[c], down[c], Q, shutdown)
    BY <1>1, <1>3, <2>1, ToldReturn
  <2> QED  BY <2>3
<1>6. D.socket # "connecting" /\ D.scene # "login"
  BY <1>3, <1>4 DEF SameSocket
<1> HIDE DEF D
<1> QED
  BY <1>1, <1>4, <1>5, <1>6, QuietClickKeeps DEF C

\* He sends what his client does not wait for, and his client stays as it is.
LEMMA SendsKeeps ==
  ASSUME NetInv, AllTold, NEW p \in Clients, NEW r, Click(p, client[p], r),
         r.type \notin {"MATCH_JOIN_REQ", "MATCH_CANCEL_REQ", "HERO_SELECT_REQ",
                        "BATTLE_ATTACK_REQ", "FIN"}
  PROVE  NetInv' /\ AllTold'
<1> DEFINE C == client[p]
<1>1. /\ IsClient(C) /\ SameSocket(C, C)
      /\ C.socket = "connecting" => Opening(C)
      /\ C.scene = "login" => Fresh(C)
  BY OnlyOpeningConnects DEF SameSocket
<1>2. ASSUME NEW c \in Connections, C.socket = "open", C.conn = c
      PROVE  Told(p, C, Append(up[c], r), down[c], Picture(c), shutdown)
  <2>1. Told(p, C, up[c], down[c], Picture(c), shutdown) /\ Row(up[c])
    BY <1>2, HeIsTold
  <2> PICK Q : Q = Picture(c)
    OBVIOUS
  <2> HIDE DEF C
  <2>2. Told(p, C, Append(up[c], r), down[c], Q, shutdown)
    BY <2>1, ToldOther
  <2> QED  BY <2>2
<1> QED
  BY <1>1, <1>2, ClickKeeps

\* A client as main() starts it.
LEMMA NewClientIs == IsClient(NewClient) /\ Fresh(NewClient) /\ NewClient.socket = "closed"
BY DEF NewClient, IsClient, Fresh

\* A client whose connection has ended, or never came to be.
LEMMA FailedClientIs ==
  ASSUME NEW C, IsClient(C), NEW D, D = SocketFailed(C)
  PROVE  /\ IsClient(D) /\ D.socket = "closed" /\ D.scene = C.scene
         /\ Fresh(C) => Fresh(D)
BY DEF SocketFailed, IsClient, Fresh

\* A click at the login scene without a connection.
LEMMA ConnectingClientIs ==
  ASSUME NEW C, IsClient(C), Fresh(C), C.scene = "login", NEW action \in {"LOGIN_REQ", "REGISTER_REQ"},
         NEW D, D = StartConnecting(C, action)
  PROVE  IsClient(D) /\ D.socket = "connecting" /\ Opening(D) /\ Fresh(D)
BY DEF StartConnecting, IsClient, Fresh, Opening

\* The login scene.
LEMMA LoginKeeps ==
  ASSUME NetInv, AllTold, NEW p \in Clients, LoginOrRegister(p)
  PROVE  NetInv' /\ AllTold'
<1> DEFINE C == client[p]
<1>1. PICK action \in {"LOGIN_REQ", "REGISTER_REQ"} :
        \/ Click(p, C, LoginRequest(p, action))
        \/ CanStartConnecting(C) /\ ClickOnly(p, StartConnecting(C, action))
  BY DEF LoginOrRegister
<1>2. CASE Click(p, C, LoginRequest(p, action))
  <2> PICK r : r = LoginRequest(p, action)
    OBVIOUS
  <2>1. r.type \notin {"MATCH_JOIN_REQ", "MATCH_CANCEL_REQ", "HERO_SELECT_REQ",
                       "BATTLE_ATTACK_REQ", "FIN"}
    BY DEF LoginRequest
  <2> QED  BY <1>2, <2>1, SendsKeeps
<1>3. CASE CanStartConnecting(C) /\ ClickOnly(p, StartConnecting(C, action))
  <2> PICK D : D = StartConnecting(C, action)
    OBVIOUS
  <2>1. C.scene = "login" /\ C.socket = "closed" /\ IsClient(C) /\ Fresh(C)
    BY <1>3, OnlyOpeningConnects DEF CanStartConnecting
  <2>2. IsClient(D) /\ D.socket = "connecting" /\ Opening(D) /\ Fresh(D)
    BY <2>1, ConnectingClientIs
  <2>3. client' = [client EXCEPT ![p] = D] /\ UNCHANGED <<vars, up, down, nextConnId>>
    BY <1>3 DEF ClickOnly
  <2>4. client[p].socket # "open" /\ D.socket # "open"
    BY <2>1, <2>2
  <2> QED  BY <2>2, <2>3, <2>4, ClientIdles
<1> QED
  BY <1>1, <1>2, <1>3

\* Whatever a player does at his computer.
LEMMA UserKeeps ==
  ASSUME NetInv, AllTold, NEW p \in Clients, User(p) \/ SendGarbage(p)
  PROVE  NetInv' /\ AllTold'
<1>1. CASE SendGarbage(p)
  <2> PICK r : r = Garbage
    OBVIOUS
  <2>1. Click(p, client[p], r)
    BY <1>1 DEF SendGarbage
  <2>2. r.type \notin {"MATCH_JOIN_REQ", "MATCH_CANCEL_REQ", "HERO_SELECT_REQ",
                       "BATTLE_ATTACK_REQ", "FIN"}
    BY DEF Garbage
  <2> QED  BY <2>1, <2>2, SendsKeeps
<1>2. CASE User(p)
  BY <1>2, LoginKeeps, PressMatchKeeps, SelectHeroKeeps, PressConfirmKeeps, PressAttackKeeps,
     PressReturnKeeps DEF User
<1> QED
  BY <1>1, <1>2

\* A connection is refused.
LEMMA RefusedKeeps ==
  ASSUME NetInv, AllTold, NEW p \in Clients, ConnectionRefused(p)
  PROVE  NetInv' /\ AllTold'
<1> PICK D : D = SocketFailed(client[p])
  OBVIOUS
<1>1. /\ client[p].socket = "connecting"
      /\ client' = [client EXCEPT ![p] = D] /\ UNCHANGED <<vars, up, down, nextConnId>>
  BY DEF ConnectionRefused, ClickOnly
<1>2. IsClient(client[p]) /\ Fresh(client[p])
  BY <1>1, OnlyOpeningConnects DEF Opening
<1>3. IsClient(D) /\ D.socket = "closed" /\ Fresh(D)
  BY <1>2, FailedClientIs
<1>4. client[p].socket # "open" /\ D.socket # "open" /\ D.socket # "connecting"
  BY <1>1, <1>3
<1> QED
  BY <1>1, <1>3, <1>4, ClientIdles

\* A connection breaks.
LEMMA BreakKeeps ==
  ASSUME NetInv, AllTold, NEW p \in Clients, Break(p)
  PROVE  NetInv' /\ AllTold'
<1> PICK D : D = SocketFailed(client[p])
  OBVIOUS
<1>1. EndOfConnection(p, D)
  BY DEF Break
<1>2. IsClient(client[p]) /\ (client[p].scene = "login" => Fresh(client[p]))
  BY OnlyOpeningConnects
<1>3. IsClient(D) /\ D.socket = "closed" /\ (D.scene = "login" => Fresh(D))
  BY <1>2, FailedClientIs
<1> QED
  BY <1>1, <1>3, EndKeeps

\* A player starts his client again.
LEMMA RestartKeeps ==
  ASSUME NetInv, AllTold, NEW p \in Clients, Restart(p)
  PROVE  NetInv' /\ AllTold'
<1> PICK D : D = NewClient
  OBVIOUS
<1>1. IsClient(D) /\ Fresh(D) /\ D.socket = "closed"
  BY NewClientIs
<1>2. CASE EndOfConnection(p, D)
  BY <1>1, <1>2, EndKeeps
<1>3. CASE ~Connected(client[p]) /\ ClickOnly(p, D)
  <2>1. /\ client[p].socket # "open" /\ D.socket # "open" /\ D.socket # "connecting"
        /\ client' = [client EXCEPT ![p] = D] /\ UNCHANGED <<vars, up, down, nextConnId>>
    BY <1>1, <1>3 DEF Connected, ClickOnly
  <2> QED  BY <1>1, <2>1, ClientIdles
<1> QED
  BY <1>2, <1>3 DEF Restart

\* What a client shows that has read is told in the story.
LEMMA ToldLogin ==
  ASSUME NEW p, NEW C, NEW u, NEW d, NEW Q, NEW closed, Told(p, C, u, d, Q, closed)
  PROVE  C.scene = "login" => Fresh(C)
BY DEF Told, Knows, Remembers

\* A client reads.
LEMMA ClientReadsKeeps ==
  ASSUME NetInv, AllTold, NEW p \in Clients, ClientReads(p)
  PROVE  NetInv' /\ AllTold'
<1> PICK c : c = client[p].conn
  OBVIOUS
<1> PICK C : C = client[p]
  OBVIOUS
<1> PICK D : D = Read(C, Head(down[c]))
  OBVIOUS
<1> PICK v : v = up[c]
  OBVIOUS
<1> PICK e : e = Tail(down[c])
  OBVIOUS
<1>1. /\ C.socket = "open" /\ down[c] # <<>> /\ client' = [client EXCEPT ![p] = D]
      /\ down' = [down EXCEPT ![c] = Tail(@)] /\ up' = up
      /\ UNCHANGED vars /\ nextConnId' = nextConnId
  BY DEF ClientReads, Connected, NetInv
<1>2. /\ c \in Connections /\ DOMAIN down = Connections /\ ~In(up[c], "FIN")
      /\ Row(up[c]) /\ Row(down[c]) /\ IsClient(C)
      /\ Told(p, C, up[c], down[c], Picture(c), shutdown)
  BY <1>1 DEF NetInv, AllTold
<1> PICK Q : Q = Picture(c)
  OBVIOUS
<1>3. Told(p, D, v, e, Q, shutdown) /\ IsClient(D) /\ SameSocket(C, D)
  <2> PICK d : d = down[c]
    OBVIOUS
  <2> QED  BY <1>1, <1>2, ToldRead
<1>4. D.socket = "open" /\ (D.scene = "login" => Fresh(D))
  BY <1>1, <1>3, ToldLogin DEF SameSocket
<1>5. Row(e)
  BY <1>1, <1>2, RowSteps
<1>6. /\ DOMAIN up' = DOMAIN up /\ up'[c] = v
      /\ DOMAIN down' = DOMAIN down /\ down'[c] = e
      /\ \A x \in Connections \ {c} : up'[x] = up[x] /\ down'[x] = down[x]
  BY <1>1, <1>2
<1>7. IF D.socket = "open"
        THEN /\ DOMAIN up' = DOMAIN up /\ up'[c] = v
             /\ DOMAIN down' = DOMAIN down /\ down'[c] = e
             /\ \A x \in Connections \ {c} : up'[x] = up[x] /\ down'[x] = down[x]
             /\ Row(v) /\ Row(e) /\ ~In(v, "FIN")
             /\ Told(p, D, v, e, Picture(c), shutdown)
        ELSE up' = up /\ down' = down
  BY <1>2, <1>3, <1>4, <1>5, <1>6
<1> QED
  BY <1>1, <1>3, <1>4, <1>7, ClientMoves

\* The start of the system.
LEMMA SystemInvInit == SystemInit => SystemInv
<1> SUFFICES ASSUME SystemInit PROVE SystemInv
  OBVIOUS
<1>1. /\ Init /\ client = [p \in Clients |-> NewClient] /\ nextConnId = 1
      /\ up = [conn \in Connections |-> <<>>] /\ down = [conn \in Connections |-> <<>>]
  BY DEF SystemInit
<1>2. ServerInv /\ EventsMatch
  BY <1>1, BaseInvInit, AgreementInit, EventsInit DEF ServerInv
<1>3. connections = {}
  BY <1>1 DEF Init
<1>4. \A p \in Clients : IsClient(client[p]) /\ Fresh(client[p]) /\ client[p].socket = "closed"
  BY <1>1, NewClientIs
<1>5. NetInv
  BY <1>1, <1>3, <1>4, RowEmpty DEF NetInv
<1>6. AllTold
  BY <1>4 DEF AllTold
<1> QED
  BY <1>2, <1>5, <1>6 DEF SystemInv

\* Every step keeps the invariant.
LEMMA SystemInvNext == SystemInv /\ [SystemNext]_systemVars => SystemInv'
<1> SUFFICES ASSUME SystemInv, [SystemNext]_systemVars PROVE SystemInv'
  OBVIOUS
<1>1. ServerInv /\ BaseInv /\ Agreement /\ EventsMatch /\ NetInv /\ AllTold
  BY DEF SystemInv, ServerInv
<1>2. [Next]_vars
  BY SystemStep
<1>3. ServerInv' /\ BaseInv'
  BY <1>1, <1>2, ServerInvNext DEF ServerInv
<1>4. EventsMatch'
  <2>1. CASE Next
    BY <1>1, <1>3, <2>1, EverybodyIsTold
  <2>2. CASE UNCHANGED vars
    BY <1>1, <2>2 DEF vars, EventsMatch
  <2> QED  BY <1>2, <2>1, <2>2
<1>5. NetInv' /\ AllTold'
  <2>1. CASE \E p \in Clients :
               User(p) \/ SendGarbage(p) \/ Establish(p) \/ ConnectionRefused(p) \/ Break(p)
                 \/ Restart(p) \/ ClientReads(p)
    BY <1>1, <2>1, UserKeeps, EstablishKeeps, RefusedKeeps, BreakKeeps, RestartKeeps,
       ClientReadsKeeps
  <2>2. CASE \E conn \in Connections : ServerReads(conn) \/ ServerIgnores(conn)
    BY <1>1, <2>2, ServerReadsKeeps, IgnoredKeeps
  <2>3. CASE ServerTicks
    BY <1>1, <1>3, <2>3, TicksKeep
  <2>4. CASE UNCHANGED systemVars
    <3>1. UNCHANGED vars /\ client' = client /\ up' = up /\ down' = down /\ nextConnId' = nextConnId
      BY <2>4 DEF systemVars
    <3>2. /\ \A c : Picture(c)' = Picture(c)
          /\ connections' = connections /\ shutdown' = shutdown
      BY <3>1, ServerStands
    <3>3. \A c \in Connections : Live(c)' <=> Live(c)
      BY <3>1 DEF Live
    <3>4. NetInv'
      BY <1>1, <3>1, <3>2, <3>3 DEF NetInv
    <3>5. AllTold'
      BY <1>1, <3>1, <3>2 DEF AllTold
    <3> QED  BY <3>4, <3>5
  <2> QED  BY <2>1, <2>2, <2>3, <2>4 DEF SystemNext
<1> QED
  BY <1>3, <1>4, <1>5 DEF SystemInv

\* What each player has been told and is about to be told, he is told in order.
THEOREM SystemInvariant == SystemSpec => []SystemInv
BY SystemInvInit, SystemInvNext, PTL DEF SystemSpec

-----------------------------------------------------------------------------
(* What the invariant says of the screens. *)

\* The room a client remembers is the one its next notification is about, for any number of
\* players, connections and requests on their way, whatever breaks and whoever is impatient.
THEOREM NotificationsAlwaysFindTheirRoom == SystemSpec => []NotificationsFindTheirRoom
<1>1. SystemInv => NotificationsFindTheirRoom
  <2> SUFFICES ASSUME SystemInv, NEW p \in Clients,
                      Connected(client[p]), down[client[p].conn] # <<>>,
                      Head(down[client[p].conn]).type \in RoomNotifications
               PROVE  OfMyRoom(client[p], Head(down[client[p].conn]))
    BY DEF NotificationsFindTheirRoom
  <2> PICK c : c = client[p].conn
    OBVIOUS
  <2> PICK C : C = client[p]
    OBVIOUS
  <2> PICK d : d = down[c]
    OBVIOUS
  <2>1. c \in Connections /\ C.socket = "open" /\ Row(d) /\ d # <<>>
    BY DEF SystemInv, NetInv, Connected
  <2>2. Told(p, C, up[c], d, Picture(c), shutdown)
    BY <2>1 DEF SystemInv, AllTold
  <2>3. PICK P : Follows(P, d) /\ Remembers(C, P[0])
    BY <2>2 DEF Told, Knows
  <2>4. Head(d) = d[1] /\ 1 \in 1..Len(d)
    BY <2>1, RowShrinks
  <2>5. Leads(P[0], d[1], P[1])
    <3>1. Leads(P[1 - 1], d[1], P[1])
      BY <2>3, <2>4 DEF Follows
    <3> QED  BY <3>1
  <2>6. d[1].type \in RoomNotifications
    BY <2>4
  <2>7. d[1].roomId = P[0].roomId /\ P[0].scene \in RoomScenes
    BY <2>5, <2>6 DEF Leads, RoomNotifications, RoomScenes
  <2>8. d[1].roomId = C.matchedRoomId
    BY <2>3, <2>7 DEF Remembers
  <2> QED  BY <2>4, <2>8 DEF OfMyRoom
<1> QED
  BY <1>1, SystemInvariant, PTL

\* Of an attack there is one at most, and it is the attacker's move.
LEMMA AttackIsHisMove ==
  ASSUME NEW p, p \notin Impatient, NEW C, NEW u, NEW d, NEW Q, NEW closed,
         Told(p, C, u, d, Q, closed), Row(d)
  PROVE  /\ \A i, j \in 1..Len(u) :
              u[i].type = "BATTLE_ATTACK_REQ" /\ u[j].type = "BATTLE_ATTACK_REQ" => i = j
         /\ In(u, "BATTLE_ATTACK_REQ") => HisMove(Q)
<1>1. PICK P : Knows(P, p, C, u, d, Q, closed)
  BY DEF Told
<1>2. Patient(C, u, d, P)
  BY <1>1 DEF Knows
<1>3. \A i, j \in 1..Len(u) :
        u[i].type = "BATTLE_ATTACK_REQ" /\ u[j].type = "BATTLE_ATTACK_REQ" => i = j
  BY <1>2 DEF Patient, OneAtATime, Once
<1>4. Len(d) \in Nat
  BY RowSteps
<1>5. In(u, "BATTLE_ATTACK_REQ") => HisMove(P[Len(d)])
  BY <1>2, <1>4 DEF Patient, StaysTimely
<1>6. HisMove(P[Len(d)]) => HisMove(Q)
  BY <1>1 DEF Knows
<1> QED
  BY <1>3, <1>5, <1>6

\* A set of which any two members are the same has one at most.
LEMMA OneAtMost ==
  ASSUME NEW S, \A x, y \in S : x = y
  PROVE  Cardinality(S) <= 1
<1>1. CASE S = {}
  BY <1>1, FS_EmptySet
<1>2. CASE S # {}
  <2>1. PICK x \in S : TRUE
    BY <1>2
  <2>2. S = {x}
    BY <2>1
  <2> QED  BY <2>2, FS_Singleton
<1> QED
  BY <1>1, <1>2

\* The attack of a player who waits for his answers reaches the server in his turn, unless the
\* battle is over, for any number of players and however long the requests are on their way:
\* none is dropped in a battle that goes on.
THEOREM AttacksAreAlwaysTimely == SystemSpec => []AttacksAreTimely
<1>1. SystemInv => AttacksAreTimely
  <2> SUFFICES ASSUME SystemInv, NEW p \in Clients \ Impatient, Connected(client[p])
               PROVE  LET conn == client[p].conn
                          attacks == {i \in 1..Len(up[conn]) : up[conn][i].type = "BATTLE_ATTACK_REQ"}
                      IN  /\ Cardinality(attacks) <= 1
                          /\ attacks # {} /\ SessionFor(p).roomId # NoRoom =>
                               /\ HasBattle(battles, SessionFor(p).roomId)
                               /\ BattleFor(p).activeUserId = SessionFor(p).userId
    BY DEF AttacksAreTimely
  <2> PICK c : c = client[p].conn
    OBVIOUS
  <2> PICK u : u = up[c]
    OBVIOUS
  <2> DEFINE attacks == {i \in 1..Len(u) : u[i].type = "BATTLE_ATTACK_REQ"}
             s == SessionOn(sessions, c)
  <2>1. c \in Connections /\ Row(down[c])
    BY DEF SystemInv, NetInv, Connected
  <2>2. Told(p, client[p], u, down[c], Picture(c), shutdown)
    BY <2>1 DEF SystemInv, AllTold, Connected
  <2>3. /\ \A i, j \in attacks : i = j
        /\ attacks # {} => HisMove(Picture(c))
    BY <2>1, <2>2, AttackIsHisMove DEF In
  <2>4. Cardinality(attacks) <= 1
    BY <2>3, OneAtMost
  <2>5. ASSUME HisMove(Picture(c)), s.roomId # NoRoom
        PROVE  s.roomId \in DOMAIN battles /\ battles[s.roomId].activeUserId = s.userId
    <3>1. HasSession(sessions, c)
      BY <2>5 DEF Picture, LoggedOut, HisMove
    <3>2. Picture(c) = PictureIn(s, Invited(s), tickets, roomService, battles)
      BY <3>1 DEF Picture
    <3> HIDE DEF s
    <3>3. s.roomId \in DOMAIN battles /\ Picture(c) = Fight(s, battles[s.roomId])
      BY <2>5, <3>2 DEF PictureIn, Calm, Shown, HisMove
    <3>4. /\ Fight(s, battles[s.roomId]).yourTurn = (battles[s.roomId].activeUserId = s.userId)
          /\ Fight(s, battles[s.roomId]).scene = "battle"
      BY DEF Fight, Shown
    <3>5. Picture(c).yourTurn
      BY <2>5, <3>3, <3>4 DEF HisMove
    <3> QED  BY <3>3, <3>4, <3>5
  <2> HIDE DEF attacks
  <2> QED  BY <2>3, <2>4, <2>5 DEF attacks, SessionFor, BattleFor, HasBattle
<1> QED
  BY <1>1, SystemInvariant, PTL

\* When everything said has been heard.
LEMMA QuietShows ==
  ASSUME NEW p, p \notin Impatient, NEW C, NEW u, NEW d, NEW Q, NEW closed, C.conn \notin closed,
         Told(p, C, u, d, Q, closed), u = <<>>, d = <<>>
  PROVE  /\ Remembers(C, Q) /\ OnScreen(C, Q)
         /\ Q.scene = "lobby" /\ C.scene = "lobby" => C.matchButton
         /\ Q.scene = "queued" => C.matchButton
         /\ Q.scene = "heroSelect" => C.heroButtons
         /\ Q.scene = "battle" /\ Q.yourTurn => C.attackButton
<1>1. PICK P : Knows(P, p, C, u, d, Q, closed)
  BY DEF Told
<1>2. Len(u) = 0 /\ Len(d) = 0 /\ 1..0 = {}
  BY RowEmpty
<1>3. Patient(C, u, d, P) /\ WillBeAsked(C, u, d, P) /\ P[0] = Q /\ Remembers(C, Q)
  BY <1>1, <1>2 DEF Knows
<1>4. \A type : ~In(u, type) /\ ~In(d, type)
  BY <1>2 DEF In
<1>5. OnScreen(C, Q)
  BY <1>3 DEF Patient
<1>6. ~AwaitsJoin(u, d) /\ ~AwaitsAnswer(u, d) /\ ~AwaitsHero(u, d)
  BY <1>4 DEF AwaitsJoin, AwaitsAnswer, AwaitsHero
<1> QED
  BY <1>2, <1>3, <1>4, <1>5, <1>6 DEF WillBeAsked

\* A battle is on the screen of its two players as it is.
LEMMA BattleOnScreen ==
  ASSUME SystemInv, NEW p \in Clients \ Impatient, Quiet(p), HasSession(sessions, client[p].conn),
         HasBattle(battles, SessionFor(p).roomId)
  PROVE  BattleAgrees(p) /\ client[p].scene # "lobby"
<1> PICK c : c = client[p].conn
  OBVIOUS
<1> PICK C : C = client[p]
  OBVIOUS
<1> PICK s : s = SessionOn(sessions, c)
  OBVIOUS
<1> PICK b : b = battles[s.roomId]
  OBVIOUS
<1> PICK room : room = roomService.rooms[s.roomId]
  OBVIOUS
<1>1. /\ SessionFor(p) = s /\ BattleFor(p) = b /\ RoomFor(p) = room
      /\ c \in Connections /\ ~ticking /\ C.socket = "open" /\ C.conn = c
  BY DEF SessionFor, BattleFor, RoomFor, SystemInv, NetInv, Quiet, Connected
<1>2. /\ Told(p, C, up[c], down[c], Picture(c), shutdown)
      /\ up[c] = <<>> /\ down[c] = <<>> /\ C.conn \notin shutdown
  BY <1>1 DEF SystemInv, AllTold, Quiet
<1>3. /\ Remembers(C, Picture(c)) /\ OnScreen(C, Picture(c))
      /\ Picture(c).scene = "battle" /\ Picture(c).yourTurn => C.attackButton
  BY <1>2, QuietShows
<1>4. /\ Picture(c) = PictureIn(s, FALSE, tickets, roomService, battles)
      /\ s.userId \in DOMAIN tickets => s.roomId = NoRoom
      /\ s.roomId # NoRoom /\ GoesOn(b, room) /\ b \in BattleStates(UserIds, SelectableHeroes)
      /\ s.roomId \in DOMAIN battles
  BY <1>1, SeatOf DEF SystemInv, HasBattle
<1>5. Picture(c) = Fight(s, b)
  BY <1>4 DEF PictureIn
<1> DEFINE F == Fight(s, b)
<1>6. /\ F.scene = "battle" /\ F.yourTurn = (b.activeUserId = s.userId)
      /\ F.health = IF s.userId = b.firstUserId THEN <<b.firstHealth, b.secondHealth>>
                                                ELSE <<b.secondHealth, b.firstHealth>>
  BY DEF Fight, Shown
<1> HIDE DEF F
<1>7. b.firstHealth > 0 /\ b.secondHealth > 0 /\ b.firstUserId = room.firstUserId
  BY <1>4 DEF GoesOn
<1>8. F.health # <<0, 0>>
  BY <1>6, <1>7
<1>9. C.health = F.health /\ C.scene = "battle" /\ ~C.returnLobbyButton
  BY <1>3, <1>5, <1>6, <1>8 DEF Remembers, OnScreen, F
<1>10. C.attackButton <=> b.activeUserId = s.userId
  <2>1. C.attackButton <=> F.yourTurn
    BY <1>3, <1>5, <1>6 DEF OnScreen, F
  <2> QED  BY <1>6, <2>1
<1>11. C.health = IF IsFirst(p) THEN <<b.firstHealth, b.secondHealth>>
                                ELSE <<b.secondHealth, b.firstHealth>>
  BY <1>1, <1>6, <1>7, <1>9 DEF IsFirst
<1> QED
  BY <1>1, <1>9, <1>10, <1>11 DEF BattleAgrees

\* So is the choice of a hero.
LEMMA HeroesOnScreen ==
  ASSUME SystemInv, NEW p \in Clients \ Impatient, Quiet(p), HasSession(sessions, client[p].conn),
         SessionFor(p).roomId # NoRoom, ~HasBattle(battles, SessionFor(p).roomId)
  PROVE  HeroSelectAgrees(p) /\ client[p].scene # "lobby"
<1> PICK c : c = client[p].conn
  OBVIOUS
<1> PICK C : C = client[p]
  OBVIOUS
<1> PICK s : s = SessionOn(sessions, c)
  OBVIOUS
<1>1. /\ SessionFor(p) = s /\ RoomFor(p) = roomService.rooms[s.roomId]
      /\ c \in Connections /\ ~ticking /\ C.socket = "open" /\ C.conn = c
  BY DEF SessionFor, RoomFor, SystemInv, NetInv, Quiet, Connected
<1>2. /\ Told(p, C, up[c], down[c], Picture(c), shutdown)
      /\ up[c] = <<>> /\ down[c] = <<>> /\ C.conn \notin shutdown
  BY <1>1 DEF SystemInv, AllTold, Quiet
<1>3. /\ OnScreen(C, Picture(c)) /\ IsClient(C)
      /\ Picture(c).scene = "heroSelect" => C.heroButtons
  BY <1>1, <1>2, QuietShows DEF SystemInv, NetInv
<1>4. /\ Picture(c) = PictureIn(s, FALSE, tickets, roomService, battles)
      /\ s.userId \notin DOMAIN tickets
  BY <1>1, SeatOf DEF SystemInv
<1> PICK hero : hero = OwnHero(s, roomService)
  OBVIOUS
<1>5. Picture(c).scene = IF hero = NoHero THEN "heroSelect" ELSE "heroConfirmed"
  BY <1>1, <1>4 DEF PictureIn, Calm, Shown, HasBattle
<1>6. hero = IF IsFirst(p) THEN RoomFor(p).firstHero ELSE RoomFor(p).secondHero
  BY <1>1 DEF OwnHero, IsFirst
<1>7. C.scene = "heroSelect" /\ (C.heroButtons <=> hero = NoHero)
  BY <1>3, <1>5 DEF OnScreen
<1>8. CanConfirm(C) <=> hero = NoHero /\ C.selectedHero # NoHero
  BY <1>3, <1>5, <1>7 DEF OnScreen, CanConfirm
<1> QED
  BY <1>6, <1>7, <1>8 DEF HeroSelectAgrees

\* And the lobby.
LEMMA LobbyOnScreen ==
  ASSUME SystemInv, NEW p \in Clients \ Impatient, Quiet(p), HasSession(sessions, client[p].conn),
         SessionFor(p).roomId = NoRoom
  PROVE  LobbyAgrees(p) /\ (client[p].scene = "lobby" => (client[p].matchmakingQueued <=> ~IsIdle(p)))
<1> PICK c : c = client[p].conn
  OBVIOUS
<1> PICK C : C = client[p]
  OBVIOUS
<1> PICK s : s = SessionOn(sessions, c)
  OBVIOUS
<1>1. /\ SessionFor(p) = s /\ c \in Connections /\ ~ticking /\ C.socket = "open" /\ C.conn = c
  BY DEF SessionFor, SystemInv, NetInv, Quiet, Connected
<1>2. /\ Told(p, C, up[c], down[c], Picture(c), shutdown)
      /\ up[c] = <<>> /\ down[c] = <<>> /\ C.conn \notin shutdown
  BY <1>1 DEF SystemInv, AllTold, Quiet
<1>3. /\ OnScreen(C, Picture(c))
      /\ Picture(c).scene = "lobby" /\ C.scene = "lobby" => C.matchButton
      /\ Picture(c).scene = "queued" => C.matchButton
  BY <1>2, QuietShows
<1>4. Picture(c) = PictureIn(s, FALSE, tickets, roomService, battles)
  BY <1>1, SeatOf DEF SystemInv
<1>5. Picture(c).scene = IF s.userId \in DOMAIN tickets THEN "queued" ELSE "lobby"
  BY <1>1, <1>4 DEF PictureIn, Calm, Shown
<1>6. IsIdle(p) <=> s.userId \notin DOMAIN tickets
  BY <1>1 DEF IsIdle, IsQueued, tickets
<1> QED
  BY <1>3, <1>5, <1>6 DEF OnScreen, LobbyAgrees, CanClickReturn

\* Whatever crossed on the way, once everything has been heard the screen of every player who
\* waits for his answers goes with his state on the server, and neither side waits for the
\* other: for any number of players, connections and messages on their way, and whatever breaks.
THEOREM ScreensAlwaysAgree == SystemSpec => []ScreensAgree
<1>1. SystemInv => ScreensAgree
  <2> SUFFICES ASSUME SystemInv, NEW p \in Clients \ Impatient, Quiet(p)
               PROVE  IF ~HasSession(sessions, client[p].conn) THEN client[p].scene = "login"
                      ELSE /\ client[p].elo = SessionFor(p).elo
                           /\ SessionFor(p).roomId # NoRoom =>
                                client[p].matchedRoomId = SessionFor(p).roomId
                           /\ client[p].scene = "lobby" => (client[p].matchmakingQueued <=> ~IsIdle(p))
                           /\ IF SessionFor(p).roomId = NoRoom THEN LobbyAgrees(p)
                              ELSE IF HasBattle(battles, SessionFor(p).roomId) THEN BattleAgrees(p)
                              ELSE HeroSelectAgrees(p)
    BY DEF ScreensAgree
  <2> PICK c : c = client[p].conn
    OBVIOUS
  <2> PICK C : C = client[p]
    OBVIOUS
  <2>1. c \in Connections /\ ~ticking /\ C.socket = "open" /\ C.conn = c
    BY DEF SystemInv, NetInv, Quiet, Connected
  <2>2. /\ Told(p, C, up[c], down[c], Picture(c), shutdown)
        /\ up[c] = <<>> /\ down[c] = <<>> /\ C.conn \notin shutdown
    BY <2>1 DEF SystemInv, AllTold, Quiet
  <2>3. Remembers(C, Picture(c))
    BY <2>2, QuietShows
  <2>4. CASE ~HasSession(sessions, c)
    <3>1. Picture(c).scene = "login"
      BY <2>4 DEF Picture, LoggedOut
    <3> QED  BY <2>3, <2>4, <3>1 DEF Remembers
  <2>5. CASE HasSession(sessions, c)
    <3> PICK s : s = SessionOn(sessions, c)
      OBVIOUS
    <3>1. /\ SessionFor(p) = s
          /\ Picture(c) = PictureIn(s, FALSE, tickets, roomService, battles)
          /\ s.userId \in DOMAIN tickets => s.roomId = NoRoom
      BY <2>1, <2>5, SeatOf DEF SystemInv, SessionFor
    <3>2. /\ Picture(c).scene # "login" /\ Picture(c).elo = s.elo
          /\ s.roomId # NoRoom => Picture(c).scene \in RoomScenes /\ Picture(c).roomId = s.roomId
      BY <3>1 DEF PictureIn, Calm, Fight, Shown, RoomScenes
    <3>3. C.elo = s.elo /\ (s.roomId # NoRoom => C.matchedRoomId = s.roomId)
      BY <2>3, <3>2 DEF Remembers
    <3>4. HasSession(sessions, client[p].conn)
      BY <2>5
    <3>5. SessionFor(p).roomId = NoRoom =>
            LobbyAgrees(p) /\ (client[p].scene = "lobby" => (client[p].matchmakingQueued <=> ~IsIdle(p)))
      BY <3>4, LobbyOnScreen
    <3>6. HasBattle(battles, SessionFor(p).roomId) => BattleAgrees(p) /\ client[p].scene # "lobby"
      BY <3>4, BattleOnScreen
    <3>7. SessionFor(p).roomId # NoRoom /\ ~HasBattle(battles, SessionFor(p).roomId) =>
            HeroSelectAgrees(p) /\ client[p].scene # "lobby"
      BY <3>4, HeroesOnScreen
    <3> QED  BY <3>1, <3>3, <3>4, <3>5, <3>6, <3>7
  <2> QED  BY <2>4, <2>5
<1> QED
  BY <1>1, SystemInvariant, PTL
=============================================================================
