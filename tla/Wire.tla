-------------------------------- MODULE Wire --------------------------------
(***************************************************************************)
(* How messages get from one end of a TCP connection to the other: framed   *)
(* by GameServer::sendToConnection or GameClient::sendMessage, cut by TCP   *)
(* into whatever pieces it likes, collected in a buffer, and taken out of   *)
(* it by the loop of GameServer::onMessage or GameClient::processBuffer.    *)
(* The two receivers are written alike but their buffers differ: the server *)
(* has a Buffer for each connection, the client one QByteArray for all the  *)
(* connections it ever makes.                                               *)
(***************************************************************************)
EXTENDS StreamBuffer, GameMessages

CONSTANTS
  Requests,       \* the messages a client may send
  Answers,        \* the messages the server may send
  MAX_FRAME,      \* the length of the longest frame
  MaxFrames,      \* bound: the frames sent on one connection
  MaxConnections  \* bound: the connections made, one after the other

HEADER_SIZE == 6

ASSUME WireAssumption ==
  /\ MAX_FRAME \in Nat /\ MaxFrames \in Nat /\ MaxConnections \in Nat
  /\ \A message \in Requests \cup Answers : IsMessage(message)
  \* The fields of the header, and of the length of a string, are wide enough.
  /\ HEADER_SIZE <= MAX_FRAME /\ ShiftRight(MAX_FRAME + 1, Width["u32"]) = 0
  /\ \A type \in DOMAIN MsgType : ShiftRight(MsgType[type], Width["u16"]) = 0
  /\ ShiftRight(kMaxStringBytes, Width["u32"]) = 0
  \* What a client sends are no responses, and the longest is shorter than the
  \* longest frame.
  /\ \A message \in Requests :
       /\ message.type \notin Responses
       /\ Encodable(message) => HEADER_SIZE + Len(Encode(message)) < MAX_FRAME

VARIABLES
  side,       \* who receives: "server" or "client"
  connection, \* how many connections there have been
  open,       \* the last one still is
  sent,       \* the frames sent on it
  wire,       \* the bytes sent on it that have not arrived
  buffer,     \* inputBuffer_ of the server's connection
  recvBuf,    \* recvBuf_ of the client
  reading,    \* the receiver is in its loop
  handled,    \* what it has handed to the handlers since the connection was made
  leftover    \* what was in recvBuf_ then

vars == <<side, connection, open, sent, wire, buffer, recvBuf, reading, handled, leftover>>

-----------------------------------------------------------------------------
(* The sender. *)

\* A frame is a message, and what is wrong with it.
Intact(message) == [message |-> message, damage |-> "none"]

\* What a stranger may send to the server: a payload one byte short or too long,
\* or a frame whose length cannot be one.
Damages == {"none", "cut", "longer", "tooShort", "tooLong"}

Frames ==
  IF side = "client" THEN {Intact(message) : message \in Answers}
  ELSE {[message |-> m, damage |-> d] : m \in Requests, d \in Damages}

Payload(frame) ==
  LET payload == Encode(frame.message) IN
  CASE frame.damage = "cut"    -> Front(payload)
    [] frame.damage = "longer" -> Append(payload, 1)
    [] OTHER                   -> payload

TotalLen(frame) ==
  CASE frame.damage = "tooShort" -> HEADER_SIZE - 1
    [] frame.damage = "tooLong"  -> MAX_FRAME + 1
    [] OTHER                     -> HEADER_SIZE + Len(Payload(frame))

FrameBytes(frame) ==
  WriteUnsigned(TotalLen(frame), Width["u32"])
    \o WriteUnsigned(MsgType[frame.message.type], Width["u16"])
    \o Payload(frame)

\* A message that cannot be encoded is not sent, nor does the server send one that
\* would make too long a frame.
CanSend(frame) ==
  /\ Encodable(frame.message)
  /\ frame.damage = "cut" => Encode(frame.message) # <<>>
  /\ side = "client" => Len(Encode(frame.message)) <= MAX_FRAME - HEADER_SIZE

Send ==
  /\ open
  /\ Len(sent) < MaxFrames
  /\ \E frame \in Frames :
       /\ CanSend(frame)
       /\ sent' = Append(sent, frame)
       /\ wire' = wire \o FrameBytes(frame)
  /\ UNCHANGED <<side, connection, open, buffer, recvBuf, reading, handled, leftover>>

-----------------------------------------------------------------------------
(* The receiver. *)

\* What it has received and not taken.
Received == IF side = "server" THEN Readable(buffer) ELSE recvBuf

\* The parts of the frame in front: readU32 and readU16 of the header.
FrontLength == ReadUnsigned(Received, Width["u32"])

FrontType ==
  LET code == ReadUnsigned(SubSeq(Received, Width["u32"] + 1, HEADER_SIZE), Width["u16"])
      types == {type \in DOMAIN MsgType : MsgType[type] = code}
  IN  IF types = {} THEN "unknown" ELSE CHOOSE type \in types : TRUE

FrontPayload == SubSeq(Received, HEADER_SIZE + 1, FrontLength)

LengthIsValid == FrontLength >= HEADER_SIZE /\ FrontLength <= MAX_FRAME

HasHeader == Len(Received) >= HEADER_SIZE

HasFrame == HasHeader /\ LengthIsValid /\ Len(Received) >= FrontLength

\* handleRead and onReadyRead: some of what is on its way has arrived.
Receive ==
  /\ open /\ ~reading
  /\ \E n \in 1..Len(wire) :
       /\ IF side = "server"
            THEN /\ n <= ReadRoom(buffer)
                 /\ buffer' = ReadFd(buffer, SubSeq(wire, 1, n))
                 /\ UNCHANGED recvBuf
            ELSE /\ recvBuf' = recvBuf \o SubSeq(wire, 1, n)
                 /\ UNCHANGED buffer
       /\ wire' = SubSeq(wire, n + 1, Len(wire))
  /\ reading' = TRUE
  /\ UNCHANGED <<side, connection, open, sent, handled, leftover>>

\* The messages that go to a handler. The others are skipped.
HandledTypes(at) ==
  LET requests == {"LOGIN_REQ", "REGISTER_REQ", "MATCH_JOIN_REQ", "MATCH_CANCEL_REQ",
                   "HERO_SELECT_REQ", "BATTLE_ATTACK_REQ"}
  IN  IF at = "server" THEN requests
      ELSE DOMAIN MsgType \ (requests \cup {"HEARTBEAT_REQ", "HEARTBEAT_RSP"})

Handle(type, payload) ==
  IF type \in HandledTypes(side) THEN Append(handled, Decode(type, payload)) ELSE handled

\* retrieve() and remove(), first of the header and then of the payload.
TakeFrame(B) == Retrieve(Retrieve(B, HEADER_SIZE), FrontLength - HEADER_SIZE)

\* Faulty variant, to confirm that NothingIsHeldBack can fail: one frame is taken
\* for each piece that arrives.
HandleOneFrame ==
  /\ reading /\ HasFrame
  /\ handled' = Handle(FrontType, FrontPayload)
  /\ IF side = "server"
       THEN buffer' = TakeFrame(buffer) /\ UNCHANGED recvBuf
       ELSE recvBuf' = SubSeq(recvBuf, FrontLength + 1, Len(recvBuf)) /\ UNCHANGED buffer
  /\ reading' = FALSE
  /\ UNCHANGED <<side, connection, open, sent, wire, leftover>>

\* An iteration of the loop that finds a whole frame.
HandleFrame ==
  /\ reading /\ HasFrame
  /\ handled' = Handle(FrontType, FrontPayload)
  /\ IF side = "server"
       THEN buffer' = TakeFrame(buffer) /\ UNCHANGED recvBuf
       ELSE recvBuf' = SubSeq(recvBuf, FrontLength + 1, Len(recvBuf)) /\ UNCHANGED buffer
  /\ UNCHANGED <<side, connection, open, sent, wire, reading, leftover>>

\* The loop ends for want of a whole frame.
AwaitMore ==
  /\ reading
  /\ HasHeader => LengthIsValid /\ Len(Received) < FrontLength
  /\ reading' = FALSE
  /\ UNCHANGED <<side, connection, open, sent, wire, buffer, recvBuf, handled, leftover>>

\* A length that cannot be one. The client closes its socket. The server shuts
\* down its sending side only; nothing is retrieved, so it gets here again when
\* more arrives.
RefuseLength ==
  /\ reading /\ HasHeader /\ ~LengthIsValid
  /\ reading' = FALSE
  /\ IF side = "client" THEN open' = FALSE /\ wire' = <<>> ELSE UNCHANGED <<open, wire>>
  /\ UNCHANGED <<side, connection, sent, buffer, recvBuf, handled, leftover>>

-----------------------------------------------------------------------------
(* The connection. *)

\* The connection ends, and what has not arrived is lost.
Lose ==
  /\ open /\ ~reading
  /\ open' = FALSE
  /\ wire' = <<>>
  /\ UNCHANGED <<side, connection, sent, buffer, recvBuf, reading, handled, leftover>>

\* The server makes a new TcpConnection, with a Buffer of its own. The client
\* connects the same socket again, and nothing empties recvBuf_.
Reconnect ==
  /\ ~open
  /\ connection < MaxConnections
  /\ connection' = connection + 1
  /\ open' = TRUE
  /\ sent' = <<>> /\ handled' = <<>>
  /\ buffer' = NewBuffer
  /\ leftover' = recvBuf
  /\ UNCHANGED <<side, wire, recvBuf, reading>>

Init ==
  /\ side \in {"server", "client"}
  /\ connection = 1 /\ open = TRUE
  /\ sent = <<>> /\ wire = <<>> /\ handled = <<>>
  /\ buffer = NewBuffer /\ recvBuf = <<>> /\ leftover = <<>>
  /\ reading = FALSE

Next ==
  \/ Send \/ Receive \/ HandleFrame \/ AwaitMore \/ RefuseLength
  \/ Lose \/ Reconnect

Spec == Init /\ [][Next]_vars

-----------------------------------------------------------------------------
BytesOf(frames) == FlattenSeq([i \in DOMAIN frames |-> FrameBytes(frames[i])])

\* The frames up to the first whose length cannot be one: nothing that follows
\* can be told from garbage.
Proper ==
  LET bad == SelectInSeq(sent, LAMBDA frame : frame.damage \in {"tooShort", "tooLong"}) IN
  IF bad = 0 THEN sent ELSE SubSeq(sent, 1, bad - 1)

Meaning(frame) ==
  IF frame.damage = "none"
    THEN [type |-> frame.message.type, ok |-> TRUE, fields |-> frame.message.fields]
    ELSE Malformed(frame.message.type)

\* What the handlers at one end should be told of the frames sent.
Tell(at, told, frame) ==
  IF frame.message.type \in HandledTypes(at) THEN Append(told, Meaning(frame)) ELSE told

Expected == FoldLeft(LAMBDA told, frame : Tell(side, told, frame), <<>>, Proper)

\* The connection began with nothing left from the one before. It always does on
\* the server. On the client it does unless the connection before was lost in the
\* middle of a frame (the client does not empty recvBuf_); the rest of that frame
\* then swallows the beginning of the new stream, and nothing can be promised.
Clean == leftover = <<>>

\* However TCP cuts the stream, the handlers are told what was sent, in order,
\* each message once and with the values it was sent with; a payload that is not
\* exactly one of its type, by a byte too few or too many, reaches the handler as
\* malformed and never as a message; and the frames behind it are still found.
HandledAsSent == Clean => IsPrefix(handled, Expected)

\* A frame that has arrived whole never waits for another to arrive: the loops go
\* on until they are short of bytes.
NothingIsHeldBack == Clean /\ open /\ ~reading /\ wire = <<>> => handled = Expected

\* No byte is lost, doubled or moved on its way through the socket and the buffer,
\* while the buffer grows, spills into extrabuf, moves to the front and is emptied;
\* and the receiver always stands at the beginning of a frame.
BytesConserved ==
  Clean /\ open =>
    \E k \in 0..Len(Proper) :
      BytesOf(sent) = BytesOf(SubSeq(sent, 1, k)) \o Received \o wire

=============================================================================
