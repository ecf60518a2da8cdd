------------------------------ MODULE TcpServer ------------------------------
(***************************************************************************)
(* The connections of one TcpServer on one loop: Acceptor, TcpConnection,  *)
(* Channel and EPollPoller of src/server/muduo, the sockets of the kernel  *)
(* beneath them, and above them an application that may send and shut down *)
(* any of its connections whenever the loop calls it, as the handlers and  *)
(* the tick of GameServer do. The peers act at any time.                   *)
(*                                                                         *)
(* A connection is named by its id. `conn` is the heap: its domain are the *)
(* TcpConnections alive, each with its Channel and the descriptor it owns. *)
(* The library does not ignore SIGPIPE, and neither does the server: a     *)
(* write to a socket whose peer has gone ends the process.                 *)
(***************************************************************************)
EXTENDS Integers, SequencesExt, UnorderedMap

CONSTANTS
  Fds,             \* descriptors the process may have for connections
  Capacity,        \* units that a socket holds until its peer has read them
  MaxConnections,  \* bound: connections made
  MaxMessages      \* bound: messages sent on all of them

ASSUME ServerAssumption ==
  /\ Fds \subseteq Nat
  /\ Capacity \in Nat /\ MaxConnections \in Nat /\ MaxMessages \in Nat

VARIABLES
  conn,         \* the TcpConnections alive: id -> TcpConnection with its Channel
  sock,         \* their sockets: id -> socket
  connections,  \* TcpServer::connections_
  held,         \* the connections the application holds
  nextConnId,   \* nextConnId_
  channels,     \* Poller::channels_: descriptor -> the id of the Channel
  interest,     \* the epoll set: descriptor -> the id of the Channel and its events
  loopAt,       \* "poll" or "events"
  active,       \* activeChannels_: channel -> those of its revents_ still to be handled
  current,      \* the channel in whose handleEvent the loop is, or None
  callback,     \* the application's callback that runs in it, or "none"
  functors,     \* connections whose connectDestroyed is queued
  backlog,      \* connections the kernel has ready for accept
  killed,       \* SIGPIPE
  sent          \* messages sent

connVars == <<conn, sock>>
tableVars == <<connections, held, nextConnId, channels, interest>>
eventVars == <<active, current, callback>>
vars == <<connVars, tableVars, loopAt, eventVars, functors, backlog, killed, sent>>

Ids == 1..MaxConnections
None == -1
Listener == 0   \* acceptChannel_

Init ==
  /\ conn = <<>> /\ sock = <<>>
  /\ connections = {} /\ held = {} /\ nextConnId = 1
  /\ channels = <<>> /\ interest = <<>>
  /\ loopAt = "poll" /\ active = <<>> /\ current = None /\ callback = "none"
  /\ functors = {}
  /\ backlog = 0 /\ killed = FALSE /\ sent = 0

-----------------------------------------------------------------------------
(* The kernel. *)

\* Units taken by a write that does not fail.
Taken(s, units) == IF Len(units) < s.room THEN Len(units) ELSE s.room

WriteFails(s) == s.err # "none"

\* An error is reported once, and ends in SIGPIPE from then on; so does a write
\* after the half-close.
WriteKills(s) == s.fin \/ s.err = "EPIPE" \/ (s.err = "none" /\ s.peer = "gone")

\* The socket after write(units).
Written(s, units) ==
  IF WriteFails(s) THEN [s EXCEPT !.err = "none"]
  ELSE LET n == Taken(s, units)
       IN [s EXCEPT !.wire = @ \o SubSeq(units, 1, n), !.room = @ - n]

\* What epoll_wait reports for a socket watched for `events`. EPOLLHUP comes
\* with EPOLLIN, as every channel in the set is watched for reading.
Revents(s, events) ==
  {part \in {"error", "read", "write"} :
     \/ part = "error" /\ s.err # "none"
     \/ part = "read" /\ "read" \in events /\ (s.inbox \/ s.peer # "open")
     \/ part = "write" /\ "write" \in events /\ (s.room > 0 \/ s.peer = "gone")}

ReadyChannels ==
  {id \in {interest[fd].channel : fd \in DOMAIN interest} :
     \E fd \in DOMAIN interest :
       interest[fd].channel = id /\ Revents(sock[id], interest[fd].events) # {}}

PeerStep ==
  ~killed /\ UNCHANGED <<conn, tableVars, loopAt, eventVars, functors, killed, sent>>

PeerConnect ==
  /\ PeerStep
  /\ backlog + nextConnId <= MaxConnections
  /\ backlog' = backlog + 1
  /\ UNCHANGED sock

PeerSend(id) ==
  /\ PeerStep
  /\ sock[id].peer = "open"
  /\ sock' = [sock EXCEPT ![id].inbox = TRUE]
  /\ UNCHANGED backlog

PeerRead(id) ==
  /\ PeerStep
  /\ sock[id].peer # "gone" /\ sock[id].room < Capacity
  /\ sock' = [sock EXCEPT ![id].room = @ + 1]
  /\ UNCHANGED backlog

PeerClose(id) ==
  /\ PeerStep
  /\ sock[id].peer = "open"
  /\ sock' = [sock EXCEPT ![id].peer = "closed"]
  /\ UNCHANGED backlog

\* The peer resets the connection, or keep-alive gives it up.
PeerVanish(id, err) ==
  /\ PeerStep
  /\ \/ sock[id].peer = "open" /\ err \in {"ECONNRESET", "ETIMEDOUT"}
     \/ sock[id].peer = "closed" /\ err = "EPIPE"
  /\ sock' = [sock EXCEPT ![id].peer = "gone", ![id].err = err]
  /\ UNCHANGED backlog

-----------------------------------------------------------------------------
(* Channel::update and EPollPoller::updateChannel. *)

Writing(k) == "write" \in k.events

Updated(k, events) ==
  [k EXCEPT !.events = events,
            !.index = IF @ = "added" /\ events = {} THEN "deleted" ELSE "added"]

\* The epoll set when the channel of `id` has become that of k.
InterestOf(id, k) ==
  IF k.index = "added" THEN Put(interest, k.fd, [channel |-> id, events |-> k.events])
  ELSE Erase(interest, k.fd)

\* conn[id] becomes k, and the poller is told of its channel.
SetConnection(id, k) ==
  /\ conn' = [conn EXCEPT ![id] = k]
  /\ interest' = InterestOf(id, k)
  /\ UNCHANGED channels

Die ==
  /\ killed' = TRUE
  /\ UNCHANGED <<connVars, tableVars, loopAt, eventVars, functors, backlog, sent>>

-----------------------------------------------------------------------------
(* What the application does: TcpConnection::send and shutdown. *)

\* It has the loop in one of its callbacks, or in that of a timer.
AppRuns == ~killed /\ loopAt = "events" /\ (current = None \/ callback # "none")

AppStep ==
  UNCHANGED <<connections, held, nextConnId, loopAt, eventVars, functors, backlog, killed>>

\* Faulty variant, to confirm that StreamInOrder can fail: a new message is
\* written at once whenever there is room.
DirectlyIfRoom(k) == TRUE

\* sendInLoop writes at once only if nothing waits to be written.
Directly(k) == ~Writing(k) /\ k.output = <<>>

\* Faulty variant, to confirm that ReadyToWait can fail: what could not be
\* written is kept, but the channel does not wait for room.
QueuedOnly(k, rest) == [k EXCEPT !.output = @ \o rest]

\* What could not be written is kept, and the channel waits for room.
Queued(k, rest) ==
  IF rest = <<>> THEN k
  ELSE LET kept == [k EXCEPT !.output = @ \o rest]
       IN IF Writing(k) THEN kept ELSE Updated(kept, k.events \cup {"write"})

\* The next message; no two have a unit in common.
Message == <<2 * sent + 1, 2 * sent + 2>>

MaySend(id) ==
  AppRuns /\ id \in held /\ conn[id].state = "connected" /\ sent < MaxMessages

\* send(). A message is dropped if write() says the peer has gone.
Send(id) ==
  LET k == conn[id]
      s == sock[id]
      dropped == Directly(k) /\ s.err = "ECONNRESET"
      n == IF Directly(k) /\ ~WriteFails(s) THEN Taken(s, Message) ELSE 0
      rest == IF dropped THEN <<>> ELSE SubSeq(Message, n + 1, 2)
  IN /\ MaySend(id)
     /\ ~(Directly(k) /\ WriteKills(s))
     /\ SetConnection(id, Queued([k EXCEPT !.accepted = @ \o Message], rest))
     /\ sock' = IF Directly(k) THEN [sock EXCEPT ![id] = Written(s, Message)] ELSE sock
     /\ sent' = sent + 1
     /\ AppStep

SendKills(id) ==
  /\ MaySend(id)
  /\ Directly(conn[id]) /\ WriteKills(sock[id])
  /\ Die

\* shutdownInLoop.
HalfClosed(k, s) == IF Writing(k) THEN s ELSE [s EXCEPT !.fin = TRUE]

Shutdown(id) ==
  /\ AppRuns
  /\ id \in held
  /\ conn[id].state = "connected"
  /\ conn' = [conn EXCEPT ![id].state = "disconnecting"]
  /\ sock' = [sock EXCEPT ![id] = HalfClosed(conn[id], @)]
  /\ AppStep /\ UNCHANGED <<channels, interest, sent>>

-----------------------------------------------------------------------------
(* The loop. *)

\* poll() returns with all that is ready, or for a timer.
Poll ==
  /\ ~killed
  /\ loopAt = "poll"
  /\ loopAt' = "events"
  /\ active' = [id \in ReadyChannels \cup {l \in {Listener} : backlog > 0} |->
                  IF id = Listener THEN {"read"}
                  ELSE Revents(sock[id], interest[conn[id].fd].events)]
  /\ UNCHANGED <<connVars, tableVars, current, callback, functors, backlog, killed, sent>>

\* handleEventWithGuard, of the channel it is in or else of the next, handles
\* `part`, the parts being in this order. The tie keeps the TcpConnection alive.
Handles(id, part) ==
  /\ ~killed
  /\ loopAt = "events" /\ callback = "none"
  /\ current \in {None, id}
  /\ id \in DOMAIN active /\ part \in active[id]
  /\ part = "read" => "error" \notin active[id]
  /\ part = "write" => active[id] = {"write"}
  /\ active' = IF active[id] = {part} THEN Erase(active, id)
               ELSE [active EXCEPT ![id] = @ \ {part}]
  /\ UNCHANGED <<loopAt, functors, killed, sent>>

\* The channel goes on with its other parts, if any.
Continue(id) == current' = IF id \in DOMAIN active' THEN id ELSE None

NoCallback(id) == Continue(id) /\ UNCHANGED callback

\* The application gets the loop.
CallBack(id, which) == current' = id /\ callback' = which

FreeFds == Fds \ {conn[id].fd : id \in DOMAIN conn}

NewSocket == [wire |-> <<>>, room |-> Capacity, inbox |-> FALSE, peer |-> "open",
              err |-> "none", fin |-> FALSE]

\* Acceptor::handleRead, newConnection, connectEstablished, and onConnection
\* with it. The kernel gives the lowest descriptor that is free.
Accept ==
  /\ Handles(Listener, "read")
  /\ \E fd \in FreeFds :
       LET k == Updated([state |-> "connected", fd |-> fd, index |-> "new", events |-> {},
                         output |-> <<>>, accepted |-> <<>>], {"read"})
       IN /\ \A free \in FreeFds : fd <= free
          /\ conn' = Put(conn, nextConnId, k)
          /\ sock' = Put(sock, nextConnId, NewSocket)
          /\ channels' = Put(channels, fd, nextConnId)
          /\ interest' = InterestOf(nextConnId, k)
  /\ connections' = connections \cup {nextConnId}
  /\ held' = held \cup {nextConnId}
  /\ nextConnId' = nextConnId + 1
  /\ backlog' = backlog - 1
  /\ CallBack(Listener, "up")

\* accept() has no descriptor to give: EMFILE.
AcceptFails ==
  /\ Handles(Listener, "read")
  /\ FreeFds = {}
  /\ NoCallback(Listener)
  /\ UNCHANGED <<connVars, tableVars, backlog>>

\* handleError: getsockopt takes the error of the socket.
HandleError(id) ==
  /\ Handles(id, "error")
  /\ sock' = [sock EXCEPT ![id].err = "none"]
  /\ NoCallback(id)
  /\ UNCHANGED <<conn, tableVars, backlog>>

\* handleRead with something to read: messageCallback_.
ReadMessage(id) ==
  /\ Handles(id, "read")
  /\ id # Listener /\ sock[id].inbox
  /\ sock' = [sock EXCEPT ![id].inbox = FALSE]
  /\ CallBack(id, "message")
  /\ UNCHANGED <<conn, tableVars, backlog>>

\* handleRead with an error, which it takes.
ReadError(id) ==
  /\ Handles(id, "read")
  /\ id # Listener /\ ~sock[id].inbox /\ sock[id].err # "none"
  /\ sock' = [sock EXCEPT ![id].err = "none"]
  /\ NoCallback(id)
  /\ UNCHANGED <<conn, tableVars, backlog>>

\* handleRead at the end of the stream: handleClose as far as onConnection.
ReadEnd(id) ==
  /\ Handles(id, "read")
  /\ id # Listener /\ ~sock[id].inbox /\ sock[id].err = "none"
  /\ SetConnection(id, Updated([conn[id] EXCEPT !.state = "disconnected"], {}))
  /\ CallBack(id, "down")
  /\ UNCHANGED <<sock, connections, held, nextConnId, backlog>>

\* Faulty variant, to confirm that ShutdownCompletes can fail: a shutdown() that
\* found output pending is forgotten.
DrainedOnly(k, s) == s

\* The output has been written: a shutdown() that found it pending goes on.
Drained(k, s) == IF k.state = "disconnecting" THEN HalfClosed(k, s) ELSE s

\* handleWrite. Without the write event it does nothing.
HandleWrite(id) ==
  LET k == conn[id]
      s == Written(sock[id], k.output)
      n == IF WriteFails(sock[id]) THEN 0 ELSE Taken(sock[id], k.output)
      left == [k EXCEPT !.output = SubSeq(@, n + 1, Len(@))]
      done == Updated(left, k.events \ {"write"})
  IN /\ Handles(id, "write")
     /\ IF ~Writing(k) THEN UNCHANGED <<conn, sock, channels, interest>>
        ELSE /\ ~WriteKills(sock[id])
             /\ IF n > 0 /\ left.output = <<>>
                  THEN SetConnection(id, done) /\ sock' = [sock EXCEPT ![id] = Drained(done, s)]
                  ELSE SetConnection(id, left) /\ sock' = [sock EXCEPT ![id] = s]
     /\ NoCallback(id)
     /\ UNCHANGED <<connections, held, nextConnId, backlog>>

WriteEventKills(id) ==
  /\ loopAt = "events" /\ callback = "none" /\ current \in {None, id}
  /\ id \in DOMAIN active /\ active[id] = {"write"}
  /\ Writing(conn[id]) /\ WriteKills(sock[id])
  /\ ~killed /\ Die

Return == callback' = "none" /\ UNCHANGED active /\ Continue(current)

\* onConnection or onMessage returns.
CallbackReturns ==
  /\ ~killed
  /\ callback \in {"up", "message"}
  /\ Return
  /\ UNCHANGED <<connVars, tableVars, loopAt, functors, backlog, killed, sent>>

\* Faulty variant, to confirm that ClosedAreForgotten can fail.
NothingQueued == functors

DestroyQueued == functors \cup {current}

\* onConnection returns having dropped the connection; then closeCallback_,
\* which is removeConnection.
RemoveConnection ==
  /\ ~killed
  /\ callback = "down"
  /\ Return
  /\ held' = held \ {current}
  /\ connections' = connections \ {current}
  /\ functors' = DestroyQueued
  /\ UNCHANGED <<connVars, nextConnId, channels, interest, loopAt, backlog, killed,
                 sent>>

\* Faulty variant, to confirm that PointersLive can fail: connectDestroyed does
\* not remove the channel.
ChannelsStay == channels

ChannelsLeft ==
  [fd \in DOMAIN channels \ {conn[id].fd : id \in functors} |-> channels[fd]]

\* doPendingFunctors: connectDestroyed of every connection queued. They have
\* been disconnected, so the channel is just removed. With the vector the last
\* pointers go, and the destructors close the descriptors.
DoPendingFunctors ==
  /\ ~killed
  /\ loopAt = "events" /\ active = <<>> /\ current = None
  /\ loopAt' = "poll"
  /\ channels' = ChannelsLeft
  /\ LET freed == functors \ (connections \cup held) IN
       /\ interest' = [fd \in DOMAIN interest \ {conn[id].fd : id \in freed} |-> interest[fd]]
       /\ conn' = [id \in DOMAIN conn \ freed |->
                     IF id \in functors THEN [conn[id] EXCEPT !.index = "new"] ELSE conn[id]]
       /\ sock' = [id \in DOMAIN sock \ freed |-> sock[id]]
  /\ functors' = {}
  /\ UNCHANGED <<connections, held, nextConnId, eventVars, backlog, killed, sent>>

LoopStep ==
  \/ Poll \/ DoPendingFunctors
  \/ Accept \/ AcceptFails
  \/ \E id \in DOMAIN conn :
       \/ HandleError(id) \/ ReadMessage(id) \/ ReadError(id) \/ ReadEnd(id)
       \/ HandleWrite(id) \/ WriteEventKills(id)
  \/ CallbackReturns \/ RemoveConnection

Next ==
  \/ LoopStep
  \/ \E id \in DOMAIN conn :
       \/ Send(id) \/ SendKills(id) \/ Shutdown(id)
       \/ PeerSend(id) \/ PeerRead(id) \/ PeerClose(id)
       \/ \E err \in {"ECONNRESET", "ETIMEDOUT", "EPIPE"} : PeerVanish(id, err)
  \/ PeerConnect

Spec == Init /\ [][Next]_vars

\* The loop runs and its callbacks return; a peer that stays reads.
Fairness ==
  /\ WF_vars(LoopStep)
  /\ \A id \in Ids : WF_vars(id \in DOMAIN conn /\ PeerRead(id))

FairSpec == Spec /\ Fairness

-----------------------------------------------------------------------------
Units == 1..(2 * MaxMessages)

Connection == [state : {"connected", "disconnecting", "disconnected"}, fd : Fds,
               index : {"new", "added", "deleted"}, events : SUBSET {"read", "write"},
               output : Seq(Units), accepted : Seq(Units)]

Socket == [wire : Seq(Units), room : 0..Capacity, inbox : BOOLEAN,
           peer : {"open", "closed", "gone"},
           err : {"none", "ECONNRESET", "ETIMEDOUT", "EPIPE"}, fin : BOOLEAN]

TypeOK ==
  /\ IsTable(conn, Ids, Connection) /\ IsTable(sock, Ids, Socket)
  /\ DOMAIN sock = DOMAIN conn
  /\ \A id \in DOMAIN conn : conn[id].index = "added" <=> conn[id].events # {}
  /\ connections \subseteq Ids /\ held \subseteq Ids /\ functors \subseteq Ids
  /\ nextConnId \in 1..(MaxConnections + 1)
  /\ IsTable(channels, Fds, Ids)
  /\ IsTable(interest, Fds, [channel : Ids, events : SUBSET {"read", "write"}])
  /\ loopAt \in {"poll", "events"}
  /\ IsTable(active, {Listener} \cup Ids, SUBSET {"error", "read", "write"})
  /\ current \in {None, Listener} \cup Ids
  /\ callback \in {"none", "up", "message", "down"}
  /\ backlog \in 0..MaxConnections
  /\ killed \in BOOLEAN
  /\ sent \in 0..MaxMessages

\* Nothing points to a TcpConnection or Channel that has been destroyed, and the
\* poller and the kernel agree on every channel: the batch of events, the queued
\* functors, the tables by id, the table by descriptor and the epoll set hold
\* live connections only, the latter two under the descriptor each owns, which
\* may have belonged to another before.
PointersLive ==
  /\ connections \cup held \cup functors \cup (DOMAIN active \ {Listener}) \subseteq DOMAIN conn
  /\ current \in {None, Listener} \cup DOMAIN conn
  /\ \A fd \in DOMAIN channels : channels[fd] \in DOMAIN conn /\ conn[channels[fd]].fd = fd
  /\ \A fd \in DOMAIN interest : interest[fd].channel \in DOMAIN conn
  /\ \A id \in DOMAIN conn :
       LET k == conn[id] IN
       (k.fd \in DOMAIN interest /\ interest[k.fd].channel = id)
         <=> k.index = "added"
  /\ \A fd \in DOMAIN interest : interest[fd].events = conn[interest[fd].channel].events

\* What the peer gets is what was sent, in order and without a gap; while the
\* peer is there, the rest waits in the output buffer; and the half-close comes
\* after all of it. Messages come from several handlers, some while earlier ones
\* wait for room, and shutdown() in between.
StreamInOrder ==
  \A id \in DOMAIN conn :
    /\ IsPrefix(sock[id].wire, conn[id].accepted)
    /\ sock[id].peer # "gone" => sock[id].wire \o conn[id].output = conn[id].accepted
    /\ sock[id].fin => conn[id].output = <<>>

\* When the loop waits, it waits for all that matters and nothing else: every
\* connection that is alive, and so every descriptor, is known to the server and
\* to the application; each is watched for reading, and for writing exactly if it
\* has output, or it would hang or spin; and a shutdown is still under way only
\* because of output.
ReadyToWait ==
  loopAt = "poll" =>
    /\ DOMAIN conn = connections /\ connections = held
    /\ \A id \in DOMAIN conn :
         LET k == conn[id] IN
         /\ k.events = IF k.output = <<>> THEN {"read"} ELSE {"read", "write"}
         /\ sock[id].fin <=> (k.state = "disconnecting" /\ k.output = <<>>)

\* A connection whose peer has closed it, or vanished, is told to the application
\* and destroyed, so that its descriptor is free again.
ClosedAreForgotten ==
  \A id \in Ids :
    (id \in DOMAIN conn /\ sock[id].peer # "open") ~> (id \notin DOMAIN conn \/ killed)

\* shutdown() half-closes the connection at last, all output having been written,
\* unless the peer ends it first.
ShutdownCompletes ==
  \A id \in Ids :
    (id \in DOMAIN conn /\ conn[id].state = "disconnecting") ~>
      (id \notin DOMAIN conn \/ sock[id].fin \/ killed)

=============================================================================
