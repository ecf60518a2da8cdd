# Verification of the arena server

TLA+ models of the arena game in `src/`: a C++17 server (`src/server/game` on top of the
network library `src/server/muduo`), the wire protocol shared with the client (`src/common`),
and a Qt client (`src/client/ArenaClient`). Two players log in, are matched by ELO, choose a
hero each, and fight a duel by turns; 25 points of ELO pass from the loser to the winner.

Every definition is translated from the source. `PROJECT.json` names, for each definition, the
lines it stands for; this file says what the models mean and what the checks and proofs show.

## 1. The system

### Components

| component | source | state | operations |
|---|---|---|---|
| GameServer | `server/game/GameServer.cc` | open connections, and one instance of each service below | connect, disconnect, the six request handlers, the matchmaking tick |
| SessionService | `server/game/SessionService.cc` | session by connection, connection by user | bind, remove, setElo, markInRoom, clearRoom |
| MatchQueue | `server/game/MatchQueue.cc` | ticket by user, tickets ordered by waiting time, tickets ordered by ELO | join, cancel, tryMatch |
| MatchmakingService | `server/game/MatchmakingService.cc` | a MatchQueue | join, cancel, tick |
| RoomService | `server/game/Room.cc` | room by id, next id | createRoom, selectHero, removeRoom |
| BattleService | `server/game/BattleService.cc` | battle by room | start, attack, forfeit, remove, calculateElo |
| AccountRepository | `server/game/AccountRepository.cc` | accounts in memory, the account file, a temporary file, next user id | load, registerUser, verify, updateEloPair |
| EventLoop and its threads | `server/muduo/EventLoop*.cc` | pending functors, the wake-up descriptor, quit flag | loop, quit, runInLoop, queueInLoop |
| Timers | `server/muduo/Timer*.cc` | timers by expiry, timers by address, timerfd | addTimer, cancel, handleRead |
| TCP connections and poller | `TcpServer.cc`, `TcpConnection.cc`, `Acceptor.cc`, `Channel.cc`, `EPollPoller.cc` | connection by name, channel by descriptor, state and output buffer of a connection | accept, read, write, close, send, shutdown |
| Stream buffers | `server/muduo/Buffer.h/.cc` | one byte buffer with two indices | append, retrieve, readFd |
| Logging | `AsyncLogging.cc`, `Logger.cc`, `LogStream.*` | two buffers, a vector of full ones | append, the writing thread, stop |
| Wire protocol | `common/*.h` | none | encode, decode |
| Client scenes | `client/ArenaClient/mainwindow.cpp`, `scenes/*.cc` | the scene on the screen, the buttons of all scenes, the room remembered | a slot for each message and each button |
| Client network | `client/ArenaClient/network` | a socket, a receive buffer | connect, send, receive, framing |

### How they interact

All of the game runs on one thread: `GameServer` never calls `setThreadNum`, so the connections,
the timer and the handlers share the main `EventLoop`. A handler is therefore atomic with
respect to the others, and what makes the server hard is not data races but *tables that must
agree*: a player is a session, perhaps a ticket in three containers, perhaps a member of a room,
perhaps a side of a battle, and an account in memory and on disk. Each handler updates several
of these by separate calls with early returns between them, and the next handler, of any
player, relies on the result.

- A connection calls `GameServer::onConnection` and `onMessage`; the latter decodes frames and
  calls a handler per request. An invalid length half-closes the connection and leaves the bad
  bytes where they are, so nothing is ever read from it again.
- A 0.1 s timer calls `processMatchmakingTick`, which lets `MatchmakingService::tick` move
  players from the queue into rooms, then notifies them.
- A handler that ends a battle writes both ELOs to the account file before it updates the
  sessions and tells the players.
- A disconnect does what the state of the player calls for: cancel the ticket, close the room
  and free the opponent, or forfeit the battle.
- A client shows what the server's messages tell it. It disables a button when it is pressed and
  waits for an answer to enable it again, and drops notifications about any room but the one it
  remembers. Requests and notifications cross on the way; no message carries a number by which
  an answer could be told from the answer to an older request, and none is ever sent twice.

### Where it is hard

The list with a line for each is under `hazards` in `PROJECT.json`. In short: a disconnect at
any point of a match; a save that fails or a process that dies half way; two ordered sets and a
hash table kept in step; a search that looks at two neighbours for a match the whole queue
should be searched for; unsigned arithmetic at both ends of the ELO scale; a `while(true)`; and
below the game, functors, timers and channels that outlive the batch of events they belong to.
Between client and server: answers that arrive after the scene has changed, connections that
break at any moment, and a byte stream cut into pieces anywhere.

### What makes each component correct

- **SessionService**: the two tables are inverse to each other and name open connections only.
- **MatchQueue**: the three containers hold the same tickets; if anybody can be matched,
  somebody is; the match is the one that the longest waiting player would choose from the whole
  queue; nobody starves.
- **RoomService, BattleService**: a room has both of its members, a battle exists exactly in a
  room with two heroes, is not over, and is settled exactly once.
- **AccountRepository**: an answered registration or result survives anything but the loss of
  the disk; a failed or interrupted save leaves no trace.
- **GameServer**: the tables of the services agree; every player is told of every change of his
  state; seen from outside, players go through a handful of states together with their opponent.
- **The client**: once everything said has been heard, it shows what the server holds, and lets
  the player do what the server waits for and nothing else.
- **The wire**: handlers are told what was sent, in order, each message once; a malformed payload
  never passes for a message; a buffer is a queue of bytes.

## 2. The modules

```
UnorderedMap                       partial functions as std::unordered_map
SessionService  RoomService  BattleService  MatchQueue  AccountLedger      one service each
      \             \             |            |    \         /   |  \
       \             \            |            |   Matchmaking    |  DurableLedger <= AccountRepository
        +-------------+-------- GameServer ----+------------------+
                                /    |    \
              ArenaRefinement => Arena  ClientView  ArenaSystem => GameServer
                                                     |
                                              ClientScenes         clients, network, server

StreamBuffer  GameMessages
        \     /
         Wire                       one TCP connection, byte by byte, in either direction

EventLoop   TimerQueue   TcpServer   AsyncLogging       what GameServer runs on, one module each
```

(`=>`: the module on the left is shown to implement the one on the right.)

| module | what it is |
|---|---|
| `UnorderedMap` | `Put`, `Erase`, `IsTable`: partial functions the way the services use `unordered_map`. |
| `SessionService`, `RoomService`, `BattleService`, `MatchQueue`, `AccountLedger` | A service as a value and operators on it. A C++ member function that may refuse is two operators: `CanX`, its conditions, and `X`, its effect. `AccountLedger` is what the rest of the server sees of `AccountRepository`: ids and ELO, with an argument that says whether the save succeeded. |
| `Matchmaking` | `MatchQueue` and the tick under a clock, with any players: join, cancel, and one step for each iteration of the loop in `MatchmakingService::tick`. |
| `GameServer` | The composition: one action per handler, making every call the C++ handler makes in the same order. `sent` is what the handler sent, by connection. |
| `ClientView` | What a client shows that has read everything sent to it: a fold of the messages. |
| `Arena`, `ArenaRefinement` | The abstract promise, *player by player*: `status`, `opponent`, `elo`, and nine ways in which they change. `ArenaRefinement` computes the three from the tables of the server. |
| `ClientScenes` | One running client as a value: the scene, the buttons of all scenes, what it remembers; an operator for each slot. |
| `ArenaSystem` | The whole game: clients and `GameServer` with two queues of messages for each connection between them, players who press what can be pressed, connections that break, clients that are closed and started again; fairness and `BattlesEnd`. |
| `StreamBuffer` | `Buffer`: a vector with two indices, byte by byte. |
| `GameMessages` | `BinaryWriter`, `BinaryReader` and every `encode` and `decode`. A message is a list of fields, its layout a list of kinds. |
| `Wire` | Sender, stream and receiver of one connection: framing, partial reads, the two receiving loops, malformed frames, loss and reconnection. |
| `AccountRepository`, `DurableLedger` | `registerUser` and `updateEloPair` down to the system calls of `save()`, with failures and crashes; the abstract ledger in which each happens at once and for good. |
| `EventLoop` | One loop on its own thread: the queue of functors, the wake-up descriptor, `quit`, and the start and end of the `EventLoopThread` around it, with other threads that queue functors. |
| `TimerQueue` | The timers behind one timerfd: adding, cancelling, the batch of expired timers, re-arming, under two clocks. |
| `TcpServer` | Acceptor, connections, channels and poller of one loop, the sockets beneath, and an application that sends and shuts down from its callbacks. |
| `AsyncLogging` | The appenders, the writing thread and `stop()`. |
| `MatchQueueLemmas`, `MatchmakingProofs`, `GameServerProofs`, `ArenaSystemProofs`, `EventLoopProofs`, `TcpServerProofs`, `StorageProofs`, `WireProofs` | Theorems, see section 5. |
| `MC*` | Values of the constants, symmetry sets and views for TLC. |

Operators commented *Faulty variant* are deliberate mistakes, each like a definition next to it:
a forgotten check, a missing reset, a swapped order. No specification uses them. Put in the
place of the definition they resemble, each makes TLC report a violation of the property its
comment names, which is how we know that the property can fail.

### Correspondence with the code

`GameServer.tla`: `connections` is `connections_`; `shutdown` the connections on which
`shutdown()` was called (`TcpConnection::send` does nothing on them); `sessions`, `queue`,
`roomService`, `battles` and `accountRepository` are the services; `now` is `MatchClock::now()`
in seconds; `ticking` and `events` are the program counter and the local vector of
`processMatchmakingTick`.

| action | code |
|---|---|
| `Connect`, `Disconnect` | `onConnection` with its three cleanups (queue, hero selection, battle) |
| `BadFrame` | the invalid-length branch of `onMessage` |
| `HandleRegister`, `HandleLogin`, `HandleMatchJoin`, `HandleMatchCancel`, `HandleHeroSelect`, `HandleBattleAttack` | the handlers of the same names |
| `TickBegin`, `TickMatch`, `TickEnd` | the timer callback: entry, one iteration of `tick()`, the notifications |
| `Advance` | time between callbacks |

Data are abstracted to what the properties tell apart. Credentials are gone: a login names the
user they verify as, or none. A malformed request is a `FALSE` or `NoHero` argument. User names
are left out of sessions. Heroes keep their real health and damage. ELO arithmetic saturates as
in `calculateElo`, at the constant `EloMax` in the place of 2^32 - 1. Connection ids, which the
server never reuses, may appear again after a close; `SessionsInverse` is why that makes no
difference.

`ClientScenes.tla`: `C.scene` is the widget on top of `stack_`; `matchButton`, `heroButtons`,
`confirmButton`, `attackButton` and `returnLobbyButton` are what `setEnabled` made of the buttons,
also of scenes that are not on the screen; `matchmakingQueued`, `selectedHero`, `matchedRoomId`,
`pendingAction` and `elo` are the members of these names. `Read` is the handler of each message.

`ArenaSystem.tla`: `up[c]` and `down[c]` are what is on its way on connection c, in both sockets and
the network between. The server's action is always one of `GameServer`'s; what it puts into `sent`
joins `down`. The end of a connection is three separate events, as in the code: the client notices
(`SocketFailed`), what was on its way to it is lost, and the server reads the end of the stream after
some prefix of what was on its way there. A client that is started again logs in on a new
connection while the server may still hold the old one. `ServerIgnores` are the early returns of
the handlers that answer nothing. `Impatient` names the players who press START again before the
answer to their last cancellation has come; all others wait for it (`AwaitsCancel`). Both kinds
exist as far as the code is concerned, and the properties say which of them they are about. The clock stands still, so that any two players of the instance
match at the next tick.

`Wire.tla`: `wire` is the bytes in the sockets and the network, `buffer` the `inputBuffer_` of the
server's `TcpConnection`, `recvBuf` the `recvBuf_` of the client. The server gets a new buffer with
each connection; the client keeps its own, also with part of a frame in it. `Clean` names the
connections that began with an empty one, and the properties are stated of those. For the
others nothing can be promised: after a connection lost in the middle of a `LOGIN_RSP`, the next
one is read out of step until the client is restarted. (Only the login scene connects again, so
only its two answers can be cut so.)

`AccountRepository.tla`: an operation changes memory, then walks through `save()`: open the
temporary file, write a record, flush, rename, each of which may fail, with the C++ rollback;
`Crash` may happen anywhere and is followed by `load()`. The file at start is one the program
wrote: ids are unique and records complete.

`EventLoop.tla`: `loopAt` is the program counter of the loop thread, one step for each access of
something shared: the flag `callingPendingFunctors_`, the swap under the lock, the tests of
`quit_`. `queueInLoop` from another thread is two steps, the push under the lock and the wake-up.
The owner is the thread that makes and destroys the `EventLoopThread`.

`TimerQueue.tla`: `heap` holds the `Timer` objects by address, and an address is used again after
`delete`. A `TimerId` is an address and a sequence number, as in the code, and may be cancelled at
any time after it was issued. Times are kept relative to now, so that time passing makes
expirations smaller and the state space stays finite; `AdjustClock` sets the wall clock, which the
expirations are measured by, while the timerfd counts the monotonic one.

`TcpServer.tla`: `conn` holds the `TcpConnection` objects alive, each with its channel and
descriptor, `connections` and `held` are the maps of `TcpServer` and `GameServer`, `channels` and
`interest` the poller's table and the kernel's epoll set. `poll()` takes a snapshot of what is
ready; the parts of a channel's `revents_` are handled one at a time, in the order of
`handleEventWithGuard`, and peers act in between. In each callback the application may send to,
and shut down, any connection it holds. A message is two units, so that a socket with room for
one takes half of it. `write()` to a socket whose peer has gone reports the socket's error once and
raises SIGPIPE from then on, which ends the process: nothing in `src/` ignores the signal.

`AsyncLogging.tla`: a line is a number, a buffer a sequence of lines, a moved-from pointer `Null`.
Whether a line still fits is left open, except that an empty buffer takes any line.

## 3. The runs

| run | question | instance |
|---|---|---|
| `matchmaking` | Does the queue find the best match, always, in agreement with itself? Does anybody starve, or a tick not end? | 4 players, 3 ELOs (100 and 401 and 501 apart: inside the narrowest range, inside the widest only, outside), the clock in steps of 10 s to 30 s |
| `server` | Do the five tables agree, and with what the players were told? | 3 connections, accounts 1..3 and a fourth id to register, two rooms, two heroes of different figures |
| `arena_refinement` | Is every handler one change of the abstract arena? | 4 connections, one new account, ELOs near 0 and near `EloMax`, two rooms at once, the clock at 0 or 10 s |
| `system` | Do screens and server agree once all is heard? Can a message be lost to a guard? Does every battle end? | 2 clients, 2 connections in all, one account to register first, one hero, one room, 2 messages on their way for each player, a client that may send an invalid frame, one patient player and one impatient |
| `stale_lobby` | Does the lobby show what the server holds? (No: see below.) | 2 clients, 3 connections, 2 rooms, 1 hero |
| `wire` | Are handlers told what was sent, however the stream is cut? | every message type, 2 frames on a connection, 2 connections; bytes of 12 values, a buffer of 8 bytes behind 2, an extrabuf of 6 |
| `accounts` | Do file and memory go through whole operations only, whatever fails? | 3 names, 2 ELOs, every system call may fail, any number of crashes |
| `timers` | Is a timer ever freed twice, run after its cancellation, or forgotten? | 3 timers at 2 addresses, due now or in 2 units, single or repeating, the clock set once, by 1 either way |
| `loop` | Does a functor ever wait for the poll's timeout? Does `quit()` end the loop? | 2 threads besides the loop and its owner, 4 functors |
| `connections` | Does a pointer dangle, a stream get out of order, or the loop wait for the wrong thing? | 3 connections, 2 descriptors, 2 messages of 2 units, sockets that hold 1 |
| `connections_end` | Is every connection its peer ends destroyed, and every shutdown completed? | 2 connections at once, 1 message |
| `logging` | Is every line written, once and in order, and does `stop()` return? | 6 lines, any division into buffers |

**Why the bounds are enough.** In `matchmaking` a pair needs two players; a third is one who is
passed over, a fourth a second pair in the same tick or a second neighbour on the other side.
Ranges stop growing, for the ELO differences of the instance, within 30 s. In `server` two
players share a room while a third waits, disconnects, or logs in to an account that is in use;
since there are only two colours of table (by user and by connection), a fourth connection adds
only a second room, which is the instance of `arena_refinement`. `MaxRoomId` bounds the number
of rooms ever made: no one joins the queue beyond it. `MaxTime` bounds the clock; what reads it
is the range of a ticket, covered by `matchmaking`. `MaxUserId` is 4 so that the counter of user
ids reaches its end. `EloMax` is 1020 in `arena_refinement`, so that a winner at 1010 is capped,
and a loser at 15 is floored.

In `timers`, three timers at two addresses are a batch of two with an address used again, by the
callback of one of them; delays of 0 and 2 and intervals of 0 and 1 give timers due together, one
after the other and at once again. The loop is late by at most one unit, enough for a timer to be
overdue when it is added. In `loop`, two other threads race with each other and with functors that
queue functors; four functors are two batches with two left over. In `connections`, the third
connection gets the descriptor of the first or second while the other is open, and until then
`accept` fails with EMFILE; the first message leaves half of itself in the output buffer and the
second meets it there. `connections_end` is smaller because liveness needs the whole graph: the
half of one message that waits is what a shutdown has to wait for. In `logging`, six lines fill up to
six buffers while the two spare ones are away.

In `system`, two messages on their way for each player are a request that crosses with a notification,
the least at which either side acts on what is no longer so. An impatient player can do no harm before the
second room (see `stale_lobby`), which is beyond this instance and is what the theorems of section 5 are
for. Two connections are either two players
who meet, or one who breaks down and logs in again while the server still holds his first
connection; with a third the graph is too large for the liveness property. One hero is enough, as the
heroes differ in figures only, which `server` tells apart. `stale_lobby` has
three connections and a second room because a player has to search again after his room was
closed. `MaxTime` is 0 in both: the widening of ranges is `matchmaking`'s subject.

In `wire`, payloads are 0 to 20 bytes long, those of requests up to 11, so that two frames fill the
server's buffer of 8, spill into `extrabuf`, make the vector grow and, once the first is taken, move to
the front. A byte has 12
values, so that the widest number that occurs needs several bytes and still fits TLC's
integers; 12^2 is more than the largest message type and 12^4 more than `MAX_FRAME`. Lengths one below
`HEADER_SIZE` and one above `MAX_FRAME` are the boundaries of the test, a payload one byte short or
long those of `decode`.

`server` and `arena_refinement` use symmetry over connections (nothing orders them) and a view
without `sent`, which no handler reads. `stale_lobby` uses the same view. `system` uses neither, as
liveness requires.

### What the properties say

- `IndicesAgree`, `NoPairLeftBehind`, `MatchesAreBest`, `NobodyStarves` (`matchmaking`):
  `tryMatch` walks the tickets from the oldest and looks at the ELO neighbours of each. When it
  finds nothing, no two players in the queue are compatible; when it finds a pair, no player
  who has waited longer could have been matched and no opponent in the whole queue is nearer.
- `SessionsInverse`, `QueuedPlayersAreFree`, `RoomsMatchSessions`, `BattlesMatchRooms`,
  `EloAgreesWithAccount` (`server`): the tables agree pairwise.
- `PlayersAreToldTheTruth` (`server`): between callbacks, what a client that has read everything
  shows (scene, room, ELO, healths, turn) is what the server holds.
- `ImplementsArena` (`arena_refinement`): a refinement. An ELO changes only at the end of a fight
  between two players and in both at once, nobody is left in a room alone, and no
  handler takes a player through two states.
- `TicksReturn` (`matchmaking`): the `while(true)` of a tick ends.
- `ScreensAgree` (`system`): whenever everything said between a player and the server has been
  heard, his scene, his figures and his buttons are those that go with his state on the server,
  whatever crossed on the way. No button is dead, no scene is left behind, and the lobby shows a search
  exactly to those who are searching. Of impatient players this is not claimed.
- `NotificationsFindTheirRoom` (`system`): the client's test of the room id never drops a notification.
- `AttacksAreTimely` (`system`): an attack on its way is the only one, and it is its sender's turn,
  or the battle is over. The server drops others without an answer. Nor is this claimed of the impatient.
- `BattlesEnd` (`system`): every battle ends between clients that show what they are sent.
- `LobbyObeysServer` (`stale_lobby`, violated): that the lobby's button offers to start a search
  exactly to those who are not searching. It need not. `MainWindow` takes *any* `MATCH_CANCEL_RSP`
  read in the lobby for the end of a search. A player cancels as he is matched; his opponent leaves and
  the room is closed; he presses START; the refusal of the old cancellation arrives and enables START
  again; he presses it once more. The server accepts the first request and refuses the second,
  and the lobby, having read the refusal last, shows START to a player who is in the queue and can no
  longer cancel. The next match sets it right, unless he was matched between his two requests: the second is
  then served when he is in the next lobby. As requests carry no room id (`GameMessages.h:93`), a choice of
  hero or an attack behind it may be served in another room than it was made for, an attack may be dropped
  as untimely, and, because `startBattle` (`mainwindow.cpp:77`) does not disable the return button of
  the battle scene, a player can be offered the lobby in the middle of a battle he then cannot reach. An execution
  scripted through several rooms shows all of this; it is far beyond what TLC can search exhaustively, and the
  reason why `ScreensAgree` and `AttacksAreTimely` exempt the players in `Impatient`. The design document
  (`docs/superpowers/plans/2026-09-03-authoritative-matchmaking-room.md`, line 171) asks for a lobby
  that obeys the server state.
- `HandledAsSent`, `NothingIsHeldBack`, `BytesConserved` (`wire`): however TCP cuts the stream, the
  handlers are told what was sent, in order, each message once; a payload that is not exactly one
  of its type arrives as malformed, and the frames behind it are found; a frame that has arrived
  waits for no other; and the buffer loses, doubles and moves no byte.
- `IdleMatchesFile`, `AcknowledgedAreDurable`, `ImplementsLedger` (`accounts`): between
  operations memory equals the file; what was answered with success survives crashes; and the
  file, seen through `load()`, is the abstract ledger.

- `MemorySafe`, `CancelIsFinal`, `ArmedInTime`, `RepeatingTimersFire` (`timers`): every live timer
  is owned by the queue or by the batch, once, whoever cancels what in which callback; a
  cancelled timer does not come back; the timerfd is always armed for the earliest; and a
  repeating timer, such as the matchmaking tick, fires for ever. Setting the wall clock
  forward delays a timer by as much, and no more.
- `FunctorsInOrder`, `NoFunctorSleeps`, `FunctorsRun`, `QuitIsObeyed` (`loop`). Two exceptions are
  the code's, and the properties name them: what the thread's init callback queues from the loop
  thread waits until the first poll returns for another reason; and a `quit()` before `loop()`
  is entered is lost, because `loop()` begins with `quit_ = false`.
- `PointersLive`, `StreamInOrder`, `ReadyToWait` (`connections`), `ClosedAreForgotten`,
  `ShutdownCompletes` (`connections_end`): see the comments in `TcpServer`.
- `LinesInOrder`, `LinesAreWritten`, `StopReturns` (`logging`). `stop()` can miss the waiting thread,
  and returns all the same because the wait times out. What is appended after the last swap is
  not written once `stop()` has been called; in this program that can be the message of the
  `LOG_FATAL` that ends it.

## 4. Fairness

- `Matchmaking`: weak fairness of the tick, because the repeating timer re-arms itself, and
  strong fairness of `Advance`, because time passes between two callbacks. Nothing of players.
- `ArenaSystem`: weak fairness of the tick, which the repeating timer calls for ever, and of a client's
  reading what has come and noticing the end of the stream, which Qt's event loop does; strong
  fairness of the server's reading from each connection, because a tick in between, which disables
  it, always returns (`TicksReturn`); weak fairness of a player's pressing the attack button while it
  can be pressed. Nobody needs to connect, break, restart, log in, or choose. The fairness of the
  player is needed: *the server never times out a player*. Someone who neither attacks nor leaves
  keeps his opponent in the battle, and someone who does not choose a hero keeps him in the room.
  `BattlesEnd` says that nothing else can hold a battle up. The server's and the client's reads are
  named by the queue they take from, so that a read must be possible in whichever way the code
  handles what is there.
- `TimerQueue`: weak fairness of the poll, of each step of `handleRead`, and of time.
- `EventLoop`: weak fairness of each thread's next step. None of `PollOther`: the 10 s timeout of
  the poll would hide a missing wake-up. The owner need not quit.
- `TcpServer`: weak fairness of the loop (its callbacks return) and of a peer's reading. A peer that
  never reads keeps its output and its shutdown pending for ever; the code has no timeout.
- `AsyncLogging`: weak fairness of the writing thread, whose wait times out, and of `stop()`.

## 5. What is proved

TLAPS checks the following for all values of the constants that meet the `ASSUME`s of the
modules: ids are positive, `NoConnection` is not a connection, initial ELOs are in range, the
mark `NoFile` for a file that does not exist is not the contents of one; for `Wire`, see below.

| theorem | statement |
|---|---|
| `GameServerProofs!ServerTypeCorrect` | `Spec => []TypeOK` |
| `GameServerProofs!SessionsAlwaysInverse` | `Spec => []SessionsInverse` |
| `GameServerProofs!QueuedPlayersAlwaysFree` | `Spec => []QueuedPlayersAreFree` |
| `GameServerProofs!RoomsAlwaysMatchSessions` | `Spec => []RoomsMatchSessions` |
| `GameServerProofs!BattlesAlwaysMatchRooms` | `Spec => []BattlesMatchRooms` |
| `GameServerProofs!EloAlwaysAgrees` | `Spec => []EloAgreesWithAccount` |
| `ArenaSystemProofs!ServerImplementsArena` | `Spec => ImplementsArena` |
| `ArenaSystemProofs!SystemImplementsServer` | `SystemSpec => Spec` (of `GameServer`) |
| `ArenaSystemProofs!SystemSessionsInverse` | `SystemSpec => []SessionsInverse` |
| `ArenaSystemProofs!SystemTablesAgree` | the same for the agreement of all the tables |
| `ArenaSystemProofs!SystemImplementsArena` | `SystemSpec => ImplementsArena` |
| `ArenaSystemProofs!PlayersAreAlwaysToldTheTruth` | `ViewSpec => []PlayersAreToldTheTruth` |
| `ArenaSystemProofs!SystemInvariant` | `SystemSpec => []SystemInv`, the inductive invariant of the system |
| `ArenaSystemProofs!ScreensAlwaysAgree` | `SystemSpec => []ScreensAgree` |
| `ArenaSystemProofs!NotificationsAlwaysFindTheirRoom` | `SystemSpec => []NotificationsFindTheirRoom` |
| `ArenaSystemProofs!AttacksAreAlwaysTimely` | `SystemSpec => []AttacksAreTimely` |
| `MatchmakingProofs!TypeCorrect` | `Spec => []TypeOK` |
| `MatchmakingProofs!ContainersAlwaysAgree` | `Spec => []IndicesAgree` |
| `MatchmakingProofs!NoPairIsLeftBehind` | `Spec => []NoPairLeftBehind` |
| `MatchmakingProofs!MatchesAreAlwaysBest` | `Spec => MatchesAreBest` |
| `StorageProofs!IdleAlwaysMatchesFile` | `Spec => []IdleMatchesFile` |
| `StorageProofs!AcknowledgedAlwaysDurable` | `Spec => []AcknowledgedAreDurable` |
| `StorageProofs!RepositoryImplementsLedger` | `Spec => ImplementsLedger` (of `AccountRepository`) |
| `StorageProofs!StoreTypeCorrect` | `Spec => []TypeOK` (of `AccountRepository`) |
| `StorageProofs!LinesAlwaysInOrder` | `LogSpec => []LinesInOrder` |
| `TcpServerProofs!ServerTypes` | `Spec => []TypeOK` |
| `TcpServerProofs!PointersAlwaysLive` | `Spec => []PointersLive` |
| `TcpServerProofs!StreamsInOrder` | `Spec => []StreamInOrder` |
| `TcpServerProofs!AlwaysReadyToWait` | `Spec => []ReadyToWait` |
| `WireProofs!HandlersAreToldWhatWasSent` | `Spec => []HandledAsSent` (of `Wire`) |
| `WireProofs!NoFrameIsHeldBack` | `Spec => []NothingIsHeldBack` |
| `WireProofs!BytesAreNeitherLostNorMoved` | `Spec => []BytesConserved` |
| `WireProofs!WireInvariant` | `Spec => []WireInv`, the inductive invariant of a connection |
| `WireProofs!AppendIsAppend` | what can be read after `append(data)` is what could be, followed by `data` |
| `WireProofs!ReadFdIsAppend` | the same of `readFd`, with or without `extrabuf` |
| `WireProofs!RetrieveIsDrop` | what can be read after `retrieve(len)` is all but the first `len` bytes |
| `EventLoopProofs!TimersAreMemorySafe` | `TimerSpec => []MemorySafe` |
| `EventLoopProofs!CancelledForGood` | `TimerSpec => []CancelIsFinal` |
| `EventLoopProofs!AlwaysArmedInTime` | `TimerSpec => []ArmedInTime` |
| `EventLoopProofs!NoFunctorEverSleeps` | `Spec => []NoFunctorSleeps` |
| `EventLoopProofs!FunctorsAlwaysInOrder` | `Spec => []FunctorsInOrder` |

Two chains of implementation follow: `SystemSpec => Spec => ImplementsArena`, from the clients and
the network through the server's tables to the promise made to each player; and
`Spec => ImplementsLedger` of `AccountRepository`, from the system calls of `save()` to a ledger that changes at once.

### The server (`GameServerProofs`)

The inductive invariant is `ServerInv`, in two layers.

`BaseInv` has the types, `SessionsInverse`, and the agreement of the three containers of the queue. None
of the three is inductive alone. The types of a battle's outcome come from the sessions
`finishBattle` finds through `connectionByUserId_`, so they need the tables to be inverse; the tables
stay inverse only if a user found through one has a session in the other; and the tick pairs
the users of keys in the ordered sets, who must have tickets for their ELO to be typed. There is one
lemma per action of `GameServer`, each resting on a lemma per service operation.

`Agreement` relates the tables to each other: the four invariants above, and that the id the next
registration gets is new (`NextIdIsNew`: with an id given
twice, a registration could put a fresh ELO into the account of a player who is online, and the
two copies would differ). It is not proved handler by handler on the tables themselves. A handler
is first shown to be one of ten changes of the players, tickets, rooms, battles and accounts, or none
(`TablesStep`: an account is added, a player logs in, joins, cancels or departs, two meet in a room, a
hero is chosen, which may start the battle, a blow falls, a room closes, a battle ends). Each of
the changes keeps `Agreement`, and each is an action of `Arena` or a stutter, which gives
`ServerImplementsArena` from the same lemmas.

The whole system implements the server alone: `SystemImplementsServer` needs no invariant, as each step
of `ArenaSystem` either leaves the server's variables alone or is the action of `GameServer` that the
message at the head of a queue calls for, on an open connection. So whatever is proved of `GameServer`
for requests from anywhere holds among its clients; the other theorems on the system are such
consequences.

### What players are told (`ArenaSystemProofs`)

`view` folds `Learn` over the messages of a step, so the proof begins by showing that `FoldLeft` takes them
one at a time (`FoldGoesUp`, `ReadOne` to `ReadThree`); the same lemma unrolls the fold with which
`processMatchmakingTick` sends its notifications (`InvitationsAreSent`). The invariant `ToldInv` holds
within a tick too: each client shows what the tables hold of its session, except that one whom the
present tick has put in a room still shows the queue, and the pending events are about rooms that are new,
different and without heroes (`EventsMatch`). Without it nothing would say that the notifications at the end
of the tick reach exactly those who still wait for them. There is one lemma per handler
(`LoginTold` to `TickEndTold`). Each says of everybody connected whether he takes part, and then that the
messages, in their order, leave him with the new state, or that he is a bystander whom nothing of it
concerns (`Stands`). The hard ones are those with three messages or two recipients: the second choice of a
hero, which is answered before the battle starts; the last blow, whose state is shown before the result
names an ELO that has just changed, or not, if it could not be saved; and a departure that ends a battle.

### What is on its way (`ArenaSystemProofs`, last part)

`ScreensAgree` speaks of quiet moments only; what makes it true is an invariant about every moment, with any
number of messages on their way in both directions. `SystemInv` says of each connected client that there is a *path*
of pictures `P[0], P[1], ..., P[Len(d)]`, one more than messages on their way down to it (`Told`):

- `P[0]` is what the client shows and remembers (`Remembers`, and `OnScreen` for the patient);
- each message leads from one picture to the next (`Follows`, `Leads`), which is where the client's guards
  and early returns are used: a notification read at `P[k - 1]` is about the room of `P[k - 1]`, and so
  `NotificationsFindTheirRoom` follows for everybody;
- the last picture is what the server holds of the player (`Picture`), so that a queue that is empty leaves
  the screen with the truth.

A handler of the server lengthens the path at its end, by the messages it sends (what `ToldInv`'s lemmas already
say, one handler after the other); a client that reads shortens it at its beginning. The requests on their way up are about
earlier pictures than the server's, and `Patient` says why none of them is taken for something else: what is asked is
asked once (`OneAtATime`), the button that asked it stays disabled until the answer is read (`ButtonWaits`), until
then nothing happens on the path that would make the request untimely (`StaysTimely`: it stays a player's turn until he has attacked,
or the battle ends by a forfeit), and no attack or choice of hero comes behind a request to join (`LastToJoin`), so that
what was meant for one room is read before there is another. Conversely a disabled button will be enabled by something
on its way (`WillBeAsked`), which is why none stays dead. On a connection the server has begun to shut down,
the client is told nothing more; all that is left there is that a turn is not lost.

A click is the one step at which a request enters the row; that it meets the conditions of `Patient` is where
the guard of `PressMatch` is needed, and only there: an impatient player breaks `OneAtATime`.

### Matchmaking (`MatchQueueLemmas`, `MatchmakingProofs`)

`MatchQueueLemmas` proves once what `Join`, `RemoveTicket` and `RemovePair` preserve, and that a non-empty
set of naturals has a least element (`LeastNatural`), on which tryMatch's walk from the oldest
ticket depends. `MatchInv` adds to the agreement of the containers that a ticket
carries its player's ELO and that the user ids in the queue are bounded, so that a ticket that has
any before it in an order has one right before it. That looking at two neighbours is enough is then arithmetic on
the order of `ticketsByElo_`: if any ticket were acceptable to a player, the nearest on its side, which
lies between the two, would be at least as near to him.

### Files and log (`StorageProofs`)

`StoreInv` says for each position of the thread in `save()` what the memory, the temporary file
and the account file hold (`Progress`): the memory is ahead of the file from the insertion until
the rename or the undoing, the temporary file is a part of the memory while it is written and all of
it afterwards. With it, the rename is the one step in which the contents of the file change, and
the only one `DurableLedger` sees; a failed call or a crash anywhere else is a stutter. `Told`
says that what was acknowledged had been renamed by then, and the ids in the file are distinct, so
that an id told is nobody else's.

`LogInv` says of the logger where its buffers are: the writing thread has both its spare ones
unless it writes, and when one is missing a full one is there to replace it (`BuffersGoRound`). `LinesInOrder` speaks of all buffers one after the other, which is a recursive
function of the vector; that it has a value at every length is proved by the least counterexample (`NoLeastIsEmpty`), not by the library's induction theorem, which
the provers cannot instantiate.

### The network library (`EventLoopProofs`, `TcpServerProofs`)

The timers need `BatchOK` besides the three properties and the types: what a batch holds, and that a
cancelled timer of the batch is in `cancelingTimers_` unless it will not be restarted anyway; without
it `Reset` might bring it back.

The loop needs `Covered`, which says for every position of
the loop thread why a pending functor will be seen (a swap is still to come, the descriptor is
readable, or a thread is about to make it so), and `Private`, which says that until the loop is
published nobody but its own thread has queued anything. The order needs in addition that a batch is taken only when none is left of
the one before (`BatchTaken`).

The connections need three parts. `Heap` relates the objects to the tables: who is in neither map is
in a functor, no two connections own one descriptor, an entry of the epoll set is the channel's of
the descriptor's owner. `Loop` ties what the loop still has to handle to the states: a
connection is disconnected exactly while it is being told so or its functor is queued, and it has no
read event left, so that it is never told twice. `Healthy` says of one connection and its
socket that what it waits for follows from its state and its output, and that what was written and
what is left make up what was accepted. It is proved on records alone (`SendHealthy`,
`WriteHealthy`); `OneConnection` then lifts every step that changes one connection to the tables.

### The wire (`WireProofs`)

The proof goes from the bottom up, and nothing in it depends on the values of `MCWire`.

1. *Numbers.* `ShiftRight` is a recursive function and `ReadUnsigned` a fold; both have a value at every
   length, again by the least counterexample. A number that fits its width is what its bytes are read as
   (`NumberReadBack`).
2. *Fields and payloads.* Every kind of field is read back from the front of what was written, whatever follows
   (`FieldReadsBack`). So a payload of all the fields is decoded to them, and `reader.eof()` refuses one
   that is longer (`DecodedAsEncoded`, `LongerIsMalformed`). One without its last byte fails at its last field
   (`CutIsMalformed`). For these the layout the reader takes must be the writer's (`SameLayout`), and the one
   thing that decides between two layouts is the flag in front.
3. *Frames and streams.* The header is read back before the rest has come (`HeaderIsRead`), and the type's code stands
   for one type only (`CodesDiffer`). The bytes of a stream are those of its first frames followed by the next one's
   (`NextInStream`).
4. *Buffers.* A `Buffer` is a queue of bytes, for a vector of any size and indices anywhere in it, as long as they
   are in order (`IsBuffer`, which every operation preserves). The proof compares the readable sequence
   byte by byte before and after; that of `append` has a case for enough space, for `resize` and for the
   move to the front.
5. *The connection.* None of the three properties is inductive: that the handlers were told the right things so far says
   nothing of what they will be told next. `WireInv` says where the receiver stands. On a connection that
   began clean there is a `k` such that the first k frames of the stream have possible lengths, the handlers have been told of exactly
   these, and what was received, followed by what is on its way, is the rest of the stream (`AtFrame`);
   and out of its loop there is no whole frame in front of it. A frame that is taken
   leads from k to k + 1 (`StandsTaken`); bytes that are sent or arrive leave k alone.

`WireAssumption`, with the sizes in `BufferAssumption` and `CodecAssumption`, is what the steps need of the constants: the messages are values of the structs, that is, their
numbers fit their members; the fields of the header and of a string's length can hold what is put into them; what a client
sends is no response, and shorter than the longest frame (the code has strings of at most 1024 bytes and
frames of at most 65536). The last of these is used for a stranger's payload that is a byte too long: it is refused
by `decode`, and not already by the loop.

### Only model-checked

- **Liveness** (`BattlesEnd`, `TicksReturn` and the other properties under fairness of section 4): out of the
  prover's reach, as is `ENABLED`.
- **Impatient players**: `ScreensAgree` and `AttacksAreTimely` are not claimed of them; `LobbyObeysServer`, which is, is
  false.

## 6. What is not modelled

- **Power failure.** No call to `fsync` exists; what a disk holds after a power cut is not in
  the code. `Crash` is the death of the process.
- **Passwords and account syntax** (`isValidInput`, `verify`): a login either verifies as a user
  or does not.
- **Failures to encode** on the server: a handler whose encoding fails returns early; none can
  fail for the messages it builds, all of them well below the size limit. (`Wire` has the strings that
  are too long for a client to send.)
- **Floats and the heartbeat**: no message has a float, and nothing sends a heartbeat.
- **The output buffer's bytes**: `TcpServer` has the order of what is written; `writeFd` and the
  functions of `Buffer` that return strings are left out.
- **The register page** of the login scene and its timer, which changes pages only.
- **Ends of the library objects**: the destructors of `TimerQueue` and `TcpServer`, a loop quit from
  its own thread, and connections spread over several loops. The program has one loop that
  nothing quits, and neither object is destroyed.
- **Callers of timers on other threads**: none in this program. (A timer added by another thread and
  cancelled before the queued insertion runs would stay.)
- **Configuration, main, logging text, colours and layout of the client.**
- **A slow or dead player**: there is no timeout to model.

## 7. Plan

Done: the core (`GameServer` with its services, `Matchmaking`, `AccountRepository`), what it stands on
(`EventLoop`, `TimerQueue`, `TcpServer`, `AsyncLogging`), and what stands around it (`ClientScenes`,
`ArenaSystem`, `GameMessages`, `StreamBuffer`, `Wire`). In order, what is left:

1. A power failure in `AccountRepository`, stated as how far `load()` can trust the file.
