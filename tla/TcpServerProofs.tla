--------------------------- MODULE TcpServerProofs ---------------------------
(***************************************************************************)
(* The server never follows a dangling pointer, waits for all that matters *)
(* and delivers what it was given in order, for any descriptors, socket    *)
(* buffers, connections and messages.                                      *)
(***************************************************************************)
EXTENDS TcpServer, SequenceTheorems, TLAPS

InOrder(k, s) ==
  /\ IsPrefix(s.wire, k.accepted)
  /\ s.peer # "gone" => s.wire \o k.output = k.accepted
  /\ s.fin => k.output = <<>>

\* A connection and its socket, at every step: what it waits for, and how far a
\* shutdown has come, follow from its state and its output.
Healthy(k, s) ==
  /\ k.index # "new"
  /\ k.index = "added" <=> k.events # {}
  /\ k.events = IF k.state = "disconnected" THEN {}
                ELSE IF k.output = <<>> THEN {"read"} ELSE {"read", "write"}
  /\ k.state # "disconnected" => (s.fin <=> (k.state = "disconnecting" /\ k.output = <<>>))
  /\ s.err # "none" => s.peer = "gone"
  /\ InOrder(k, s)

\* The connections and the tables that point to them. One that neither table
\* knows is kept by the queued functor alone, and no two own one descriptor.
Heap ==
  /\ IsTable(conn, Ids, Connection) /\ IsTable(sock, Ids, Socket)
  /\ DOMAIN sock = DOMAIN conn
  /\ IsTable(channels, Fds, Ids)
  /\ IsTable(interest, Fds, [channel : Ids, events : SUBSET {"read", "write"}])
  /\ \A fd \in DOMAIN channels : channels[fd] \in DOMAIN conn /\ conn[channels[fd]].fd = fd
  /\ \A fd \in DOMAIN interest :
       /\ interest[fd].channel \in DOMAIN conn
       /\ conn[interest[fd].channel].fd = fd
       /\ interest[fd].events = conn[interest[fd].channel].events
  /\ \A id \in DOMAIN conn :
       (conn[id].fd \in DOMAIN interest /\ interest[conn[id].fd].channel = id)
         <=> conn[id].index = "added"
  /\ \A id, other \in DOMAIN conn : conn[id].fd = conn[other].fd => id = other
  /\ connections = held
  /\ DOMAIN conn = connections \cup functors /\ connections \cap functors = {}
  /\ nextConnId \in 1..(MaxConnections + 1) /\ backlog \in 0..MaxConnections
  /\ backlog + nextConnId <= MaxConnections + 1
  /\ \A id \in DOMAIN conn : id < nextConnId
  /\ \A id \in DOMAIN conn : Healthy(conn[id], sock[id])

\* The loop: it comes back to poll with nothing left over, and what it still
\* has to handle never tells a connection a second time that it is down.
Loop ==
  /\ loopAt \in {"poll", "events"}
  /\ IsTable(active, {Listener} \cup Ids, SUBSET {"error", "read", "write"})
  /\ DOMAIN active \ {Listener} \subseteq DOMAIN conn
  /\ current \in {None, Listener} \cup DOMAIN conn
  /\ callback \in {"none", "up", "message", "down"}
  /\ loopAt = "poll" => functors = {} /\ active = <<>> /\ current = None /\ callback = "none"
  /\ callback # "none" => current # None
  /\ callback = "down" => current \in connections
  /\ \A id \in DOMAIN conn :
       conn[id].state = "disconnected" <=> (id \in functors \/ (callback = "down" /\ current = id))
  /\ \A id \in DOMAIN active \ {Listener} :
       "read" \in active[id] => conn[id].state # "disconnected"
  /\ Listener \in DOMAIN active => backlog > 0 /\ active[Listener] = {"read"}

Counters == killed \in BOOLEAN /\ sent \in 0..MaxMessages

Inv == Heap /\ Loop /\ Counters


-----------------------------------------------------------------------------
(* Streams of units. *)

LEMMA PrefixOfConcat ==
  ASSUME NEW S, NEW w \in Seq(S), NEW o \in Seq(S), NEW a \in Seq(S), w \o o = a
  PROVE  IsPrefix(w, a)
<1>1. Len(a) = Len(w) + Len(o) /\ Len(w) \in Nat /\ Len(o) \in Nat
  BY ConcatProperties, LenProperties
<1>2. SubSeq(w, 1, Len(w)) \in Seq(S) /\ Len(SubSeq(w, 1, Len(w))) = Len(w)
  BY SubSeqFull
<1>3. \A i \in 1..Len(w) : a[i] = w[i] /\ a[i] \in S
  BY <1>1, ConcatProperties, LenProperties
<1>4. /\ SubSeq(a, 1, Len(w)) \in Seq(S)
      /\ Len(SubSeq(a, 1, Len(w))) = Len(w)
      /\ \A i \in 1..Len(w) : SubSeq(a, 1, Len(w))[i] = a[i]
  <2>1. 1 \in Int /\ Len(w) \in Int
    BY <1>1
  <2> QED BY <1>1, <1>3, <2>1, SubSeqProperties
<1>5. \A i \in 1..Len(w) : SubSeq(a, 1, Len(w))[i] = w[i]
  BY <1>3, <1>4
<1>6. SubSeq(a, 1, Len(w)) = w
  BY <1>4, <1>5, SeqEqual
<1> QED BY <1>1, <1>6, SubSeqFull DEF IsPrefix

\* A prefix is completed by some sequence.
LEMMA PrefixHasRest ==
  ASSUME NEW S, NEW w \in Seq(S), NEW a \in Seq(S), IsPrefix(w, a)
  PROVE  \E o \in Seq(S) : w \o o = a
<1>1. Len(w) \in Nat /\ Len(a) \in Nat /\ Len(w) <= Len(a)
  BY LenProperties DEF IsPrefix
<1>2. SubSeq(a, 1, Len(w)) = w
  BY SubSeqFull DEF IsPrefix
<1>3. /\ 1 \in 1..(Len(a) + 1) /\ Len(w) \in (1 - 1)..Len(a)
      /\ Len(a) \in Len(w)..Len(a)
  BY <1>1
<1>4. SubSeq(a, 1, Len(w)) \o SubSeq(a, Len(w) + 1, Len(a)) = SubSeq(a, 1, Len(a))
  BY <1>3, ConcatAdjacentSubSeq
<1>5. SubSeq(a, Len(w) + 1, Len(a)) \in Seq(S)
  <2>1. Len(w) + 1 \in Int /\ Len(a) \in Int
    BY <1>1
  <2>2. \A i \in (Len(w) + 1)..Len(a) : a[i] \in S
    BY <1>1, ElementOfSeq
  <2> QED BY <2>1, <2>2, SubSeqProperties
<1> QED BY <1>2, <1>4, <1>5, SubSeqFull

LEMMA PrefixOfLonger ==
  ASSUME NEW S, NEW w \in Seq(S), NEW a \in Seq(S), NEW m \in Seq(S), IsPrefix(w, a)
  PROVE  IsPrefix(w, a \o m)
<1>1. PICK o \in Seq(S) : w \o o = a
  BY PrefixHasRest
<1>2. o \o m \in Seq(S) /\ a \o m \in Seq(S)
  BY ConcatProperties
<1>3. (w \o o) \o m = w \o (o \o m)
  BY ConcatAssociative
<1>4. w \o (o \o m) = a \o m
  BY <1>1, <1>3
<1> QED BY <1>2, <1>4, PrefixOfConcat

\* What is written, and what is not, of `o`.
LEMMA Cut ==
  ASSUME NEW S, NEW o \in Seq(S), NEW n \in 0..Len(o)
  PROVE  /\ SubSeq(o, 1, n) \in Seq(S) /\ SubSeq(o, n + 1, Len(o)) \in Seq(S)
         /\ SubSeq(o, 1, n) \o SubSeq(o, n + 1, Len(o)) = o
         /\ n < Len(o) => SubSeq(o, n + 1, Len(o)) # <<>>
<1>1. Len(o) \in Nat /\ n \in Int /\ 1 \in Int /\ n + 1 \in Int /\ Len(o) \in Int
  BY LenProperties
<1>2. \A i \in 1..Len(o) : o[i] \in S
  BY ElementOfSeq
<1>3. SubSeq(o, 1, n) \in Seq(S)
  BY <1>1, <1>2, SubSeqProperties
<1>4. /\ SubSeq(o, n + 1, Len(o)) \in Seq(S)
      /\ Len(SubSeq(o, n + 1, Len(o))) = IF n + 1 <= Len(o) THEN Len(o) - (n + 1) + 1 ELSE 0
  BY <1>1, <1>2, SubSeqProperties
<1>5. 1 \in 1..(Len(o) + 1) /\ n \in (1 - 1)..Len(o) /\ Len(o) \in n..Len(o)
  BY <1>1
<1>6. SubSeq(o, 1, n) \o SubSeq(o, n + 1, Len(o)) = SubSeq(o, 1, Len(o))
  BY <1>5, ConcatAdjacentSubSeq
<1>7. n < Len(o) => SubSeq(o, n + 1, Len(o)) # <<>>
  <2> SUFFICES ASSUME n < Len(o), SubSeq(o, n + 1, Len(o)) = <<>> PROVE FALSE
    BY Zenon
  <2>1. Len(SubSeq(o, n + 1, Len(o))) > 0
    BY <1>1, <1>4
  <2>2. Len(SubSeq(o, n + 1, Len(o))) = Len(<<>>)
    BY Zenon
  <2>3. Len(<<>>) = 0
    BY EmptySeq
  <2> QED BY <2>1, <2>2, <2>3
<1> QED BY <1>3, <1>4, <1>6, <1>7, SubSeqFull

-----------------------------------------------------------------------------
(* One connection and its socket. *)

LEMMA Regrouped ==
  \A a, b, c \in Seq(Units) : (a \o b) \o c = a \o (b \o c)
  BY ConcatAssociative

LEMMA UpdatedWaits ==
  ASSUME NEW k \in Connection, NEW events \in SUBSET {"read", "write"},
         k.index = "added" \/ events # {}
  PROVE  /\ Updated(k, events) \in Connection
         /\ Updated(k, events).index = IF events = {} THEN "deleted" ELSE "added"
         /\ Updated(k, events).events = events
         /\ Updated(k, events).fd = k.fd
         /\ Updated(k, events).state = k.state
         /\ Updated(k, events).output = k.output
         /\ Updated(k, events).accepted = k.accepted
  BY DEF Updated, Connection

LEMMA WrittenUnits ==
  ASSUME NEW s \in Socket, NEW units \in Seq(Units), ~WriteFails(s)
  PROVE  /\ Taken(s, units) \in 0..Len(units)
         /\ Written(s, units) \in Socket
         /\ Written(s, units).wire = s.wire \o SubSeq(units, 1, Taken(s, units))
         /\ Written(s, units).peer = s.peer
         /\ Written(s, units).err = s.err
         /\ Written(s, units).fin = s.fin
<1>1. Len(units) \in Nat /\ s.room \in 0..Capacity /\ Capacity \in Nat
  BY LenProperties, ServerAssumption DEF Socket
<1>2. Taken(s, units) \in 0..Len(units) /\ s.room - Taken(s, units) \in 0..Capacity
  BY <1>1 DEF Taken
<1>3. s.wire \o SubSeq(units, 1, Taken(s, units)) \in Seq(Units)
  <2>1. SubSeq(units, 1, Taken(s, units)) \in Seq(Units) /\ s.wire \in Seq(Units)
    BY <1>2, Cut DEF Socket
  <2> QED BY <2>1, ConcatProperties
<1>4. Written(s, units) = [s EXCEPT !.wire = @ \o SubSeq(units, 1, Taken(s, units)),
                                    !.room = @ - Taken(s, units)]
  BY DEF Written
<1> HIDE DEF Taken
<1> QED BY <1>2, <1>3, <1>4 DEF Socket

LEMMA WrittenError ==
  ASSUME NEW s \in Socket, NEW units, WriteFails(s)
  PROVE  /\ Written(s, units) = [s EXCEPT !.err = "none"]
         /\ Written(s, units) \in Socket
  BY DEF Written, Socket

\* What Send keeps of message m, and what it makes of the connection and socket.
Kept(k, s, m) ==
  IF Directly(k) /\ s.err = "ECONNRESET" THEN <<>>
  ELSE SubSeq(m, (IF Directly(k) /\ ~WriteFails(s) THEN Taken(s, m) ELSE 0) + 1, 2)
Accepting(k, m) == [k EXCEPT !.accepted = @ \o m]
SentConnection(k, s, m) == Queued(Accepting(k, m), Kept(k, s, m))
SentSocket(k, s, m) == IF Directly(k) THEN Written(s, m) ELSE s

LEMMA SendHealthy ==
  ASSUME NEW k \in Connection, NEW s \in Socket, NEW m \in Seq(Units), Len(m) = 2,
         Healthy(k, s), k.state = "connected", ~(Directly(k) /\ WriteKills(s))
  PROVE  /\ SentConnection(k, s, m) \in Connection /\ SentSocket(k, s, m) \in Socket
         /\ Healthy(SentConnection(k, s, m), SentSocket(k, s, m))
         /\ SentConnection(k, s, m).fd = k.fd /\ SentConnection(k, s, m).state = k.state
<1> DEFINE rest == Kept(k, s, m)
           k2 == SentConnection(k, s, m)
           s2 == SentSocket(k, s, m)
<1> SUFFICES k2 \in Connection /\ s2 \in Socket /\ Healthy(k2, s2)
             /\ k2.fd = k.fd /\ k2.state = k.state
  OBVIOUS
<1>0. /\ rest = IF Directly(k) /\ s.err = "ECONNRESET" THEN <<>>
                ELSE SubSeq(m, (IF Directly(k) /\ ~WriteFails(s) THEN Taken(s, m) ELSE 0) + 1, 2)
      /\ k2 = Queued(Accepting(k, m), rest)
      /\ s2 = IF Directly(k) THEN Written(s, m) ELSE s
  BY DEF Kept, SentConnection, SentSocket
<1> HIDE DEF rest, k2, s2
<1> USE <1>0
<1> DEFINE ka == Accepting(k, m)
<1>1. /\ s.wire \in Seq(Units) /\ k.output \in Seq(Units) /\ k.accepted \in Seq(Units)
      /\ k.accepted \o m \in Seq(Units)
  BY ConcatProperties DEF Connection, Socket
<1>2. /\ ka \in Connection /\ ka.accepted = k.accepted \o m /\ ka.output = k.output
      /\ ka.fd = k.fd /\ ka.state = k.state /\ ka.events = k.events /\ ka.index = k.index
  BY <1>1 DEF Connection, Accepting
<1>3. /\ k.events = IF k.output = <<>> THEN {"read"} ELSE {"read", "write"}
      /\ k.index = "added" /\ (s.err # "none" => s.peer = "gone") /\ ~s.fin
      /\ IsPrefix(s.wire, k.accepted)
      /\ s.peer # "gone" => s.wire \o k.output = k.accepted
      /\ Directly(k) <=> k.output = <<>>
  <2>1. "write" \notin {"read"} /\ "write" \in {"read", "write"} /\ "read" # "write"
    OBVIOUS
  <2> QED BY <2>1 DEF Healthy, InOrder, Directly, Writing
<1> HIDE DEF ka
\* What was not written goes to the end of the output.
<1>4. ASSUME rest \in Seq(Units)
      PROVE  /\ k2 \in Connection /\ k2.accepted = k.accepted \o m
             /\ k2.output = k.output \o rest
             /\ k2.fd = k.fd /\ k2.state = k.state /\ k2.index = "added"
             /\ k2.events = IF k.output \o rest = <<>> THEN {"read"} ELSE {"read", "write"}
  <2> DEFINE kept == [ka EXCEPT !.output = @ \o rest]
  <2>1. k.output \o rest \in Seq(Units)
    BY <1>1, <1>4, ConcatProperties
  <2>2. /\ kept \in Connection /\ kept.accepted = ka.accepted /\ kept.output = k.output \o rest
        /\ kept.fd = ka.fd /\ kept.state = ka.state /\ kept.events = ka.events
        /\ kept.index = ka.index
    BY <1>2, <2>1 DEF Connection
  <2>3. k2 = Queued(ka, rest)
    BY DEF ka
  <2> HIDE DEF kept
  <2>4. CASE rest = <<>>
    <3>1. k2 = ka
      BY <2>3, <2>4 DEF Queued
    <3>2. k.output \o rest = k.output
      BY <1>1, <2>4, ConcatEmptySeq
    <3> QED BY <1>2, <1>3, <3>1, <3>2
  <2>5. CASE rest # <<>>
    <3>1. k2 = IF Writing(ka) THEN kept ELSE Updated(kept, ka.events \cup {"write"})
      BY <2>3, <2>5 DEF Queued, kept
    <3>2. k.output \o rest # <<>>
      BY <1>1, <1>4, <2>5, ConcatEqualIffEmpty
    <3>3. CASE Writing(ka)
      <4>1. ka.events = {"read", "write"}
        BY <1>2, <1>3, <3>3 DEF Writing
      <4> QED BY <1>2, <1>3, <2>2, <3>1, <3>2, <3>3, <4>1
    <3>4. CASE ~Writing(ka)
      <4>1. ka.events \cup {"write"} = {"read", "write"}
        BY <1>2, <1>3
      <4>2. k2 = Updated(kept, {"read", "write"})
        BY <3>1, <3>4, <4>1
      <4> DEFINE waits == {"read", "write"}
      <4>3. waits # {} /\ waits \in SUBSET {"read", "write"}
        OBVIOUS
      <4> HIDE DEF waits
      <4>4. /\ Updated(kept, waits) \in Connection
            /\ Updated(kept, waits).index = IF waits = {} THEN "deleted" ELSE "added"
            /\ Updated(kept, waits).events = waits /\ Updated(kept, waits).fd = kept.fd
            /\ Updated(kept, waits).state = kept.state
            /\ Updated(kept, waits).output = kept.output
            /\ Updated(kept, waits).accepted = kept.accepted
        <5>1. kept \in Connection
          BY <2>2
        <5>2. waits \in SUBSET {"read", "write"} /\ waits # {}
          BY <4>3
        <5> HIDE DEF kept
        <5> QED BY <5>1, <5>2 DEF Updated, Connection
      <4> QED BY <1>2, <2>2, <3>2, <4>2, <4>3, <4>4 DEF waits
    <3> QED BY <3>3, <3>4
  <2> QED BY <2>4, <2>5
<1>5. ASSUME rest \in Seq(Units), s2 \in Socket, s2.fin = s.fin,
             s2.err # "none" => s2.peer = "gone",
             IsPrefix(s2.wire, k.accepted \o m),
             s2.peer # "gone" => s2.wire \o (k.output \o rest) = k.accepted \o m
      PROVE  k2 \in Connection /\ s2 \in Socket /\ Healthy(k2, s2)
             /\ k2.fd = k.fd /\ k2.state = k.state
  <2>1. /\ k2 \in Connection /\ k2.accepted = k.accepted \o m
        /\ k2.output = k.output \o rest
        /\ k2.fd = k.fd /\ k2.state = k.state /\ k2.index = "added"
        /\ k2.events = IF k2.output = <<>> THEN {"read"} ELSE {"read", "write"}
    BY <1>4, <1>5
  <2>2. k2.events # {}
    BY <2>1
  <2> QED BY <1>3, <1>5, <2>1, <2>2 DEF Healthy, InOrder
<1>6. IsPrefix(s.wire, k.accepted \o m)
  BY <1>1, <1>3, PrefixOfLonger
<1>7. SubSeq(m, 0 + 1, 2) = m
  BY SubSeqFull
<1>8. CASE ~Directly(k)
  <2>1. rest = m /\ s2 = s
    BY <1>7, <1>8
  <2>2. s.wire \o (k.output \o m) = (s.wire \o k.output) \o m
    BY <1>1, SubSeqFull, Regrouped
  <2> QED BY <1>3, <1>5, <1>6, <2>1, <2>2
<1>9. CASE Directly(k) /\ WriteFails(s)
  <2>1. rest \in Seq(Units)
    BY <1>7, <1>9, EmptySeq
  <2>2. s2 = [s EXCEPT !.err = "none"] /\ s2 \in Socket
    BY <1>9, WrittenError
  <2>3. s2.peer = "gone" /\ s2.wire = s.wire /\ s2.fin = s.fin /\ s2.err = "none"
    BY <1>3, <1>9, <2>2 DEF WriteFails, Socket
  <2> QED BY <1>5, <1>6, <2>1, <2>2, <2>3
<1>10. CASE Directly(k) /\ ~WriteFails(s)
  <2> DEFINE n == Taken(s, m)
  <2>1. /\ n \in 0..Len(m) /\ s2 \in Socket /\ s2.wire = s.wire \o SubSeq(m, 1, n)
        /\ s2.peer = s.peer /\ s2.err = s.err /\ s2.fin = s.fin
    BY <1>10, WrittenUnits
  <2>2. rest = SubSeq(m, n + 1, Len(m))
    BY <1>10 DEF WriteFails
  <2>3. s.err = "none" /\ s.peer # "gone"
    BY <1>10 DEF WriteFails, WriteKills
  <2> HIDE DEF n
  <2>4. /\ SubSeq(m, 1, n) \in Seq(Units) /\ rest \in Seq(Units)
        /\ SubSeq(m, 1, n) \o rest = m
    BY <2>1, <2>2, Cut
  <2>5. k.output = <<>> /\ k.output \o rest = rest
    BY <1>3, <1>10, <2>4, ConcatEmptySeq
  <2>6. s.wire = k.accepted
    BY <1>1, <1>3, <2>3, <2>5, ConcatEmptySeq
  <2>7. s2.wire \o rest = k.accepted \o m
    <3>1. (s.wire \o SubSeq(m, 1, n)) \o rest = s.wire \o (SubSeq(m, 1, n) \o rest)
      <4>1. s.wire \in Seq(Units)
        BY <1>1
      <4>2. SubSeq(m, 1, n) \in Seq(Units) /\ rest \in Seq(Units)
        BY <2>4
      <4> QED BY <4>1, <4>2, Regrouped, Zenon
    <3> QED BY <2>1, <2>4, <2>6, <3>1
  <2>8. s2.wire \in Seq(Units)
    BY <2>1 DEF Socket
  <2>9. IsPrefix(s2.wire, k.accepted \o m)
    BY <1>1, <2>4, <2>7, <2>8, PrefixOfConcat
  <2> QED BY <1>5, <2>1, <2>3, <2>4, <2>5, <2>7, <2>9
<1> QED BY <1>8, <1>9, <1>10

\* What HandleWrite leaves of the output, and what it makes of the connection.
UnitsWritten(k, s) == IF WriteFails(s) THEN 0 ELSE Taken(s, k.output)
Left(k, s) == [k EXCEPT !.output = SubSeq(@, UnitsWritten(k, s) + 1, Len(@))]
Done(k, s) == Updated(Left(k, s), k.events \ {"write"})
AllWritten(k, s) == UnitsWritten(k, s) > 0 /\ Left(k, s).output = <<>>

LEMMA WriteHealthy ==
  ASSUME NEW k \in Connection, NEW s \in Socket, Healthy(k, s), Writing(k), ~WriteKills(s)
  PROVE  /\ Left(k, s).fd = k.fd /\ Left(k, s).state = k.state
         /\ Done(k, s).fd = k.fd /\ Done(k, s).state = k.state
         /\ AllWritten(k, s) =>
              /\ Done(k, s) \in Connection
              /\ Drained(Done(k, s), Written(s, k.output)) \in Socket
              /\ Healthy(Done(k, s), Drained(Done(k, s), Written(s, k.output)))
         /\ ~AllWritten(k, s) =>
              /\ Left(k, s) \in Connection /\ Written(s, k.output) \in Socket
              /\ Healthy(Left(k, s), Written(s, k.output))
<1> DEFINE n == UnitsWritten(k, s)
           s1 == Written(s, k.output)
           left == Left(k, s)
           done == Done(k, s)
<1>0. /\ n = IF WriteFails(s) THEN 0 ELSE Taken(s, k.output)
      /\ s1 = Written(s, k.output)
      /\ left = [k EXCEPT !.output = SubSeq(@, n + 1, Len(@))]
      /\ done = Updated(left, k.events \ {"write"})
      /\ AllWritten(k, s) <=> (n > 0 /\ left.output = <<>>)
  BY DEF UnitsWritten, Left, Done, AllWritten
<1> HIDE DEF n, s1, left, done
<1> USE <1>0
<1>1. /\ s.wire \in Seq(Units) /\ k.output \in Seq(Units) /\ k.accepted \in Seq(Units)
      /\ Len(k.output) \in Nat
  BY LenProperties DEF Connection, Socket
<1>2. /\ k.state # "disconnected" /\ k.output # <<>> /\ k.events = {"read", "write"}
      /\ k.index = "added" /\ (s.err # "none" => s.peer = "gone") /\ ~s.fin
      /\ IsPrefix(s.wire, k.accepted)
      /\ s.peer # "gone" => s.wire \o k.output = k.accepted
  <2>1. "write" \notin {"read"} /\ "write" \notin {}
    OBVIOUS
  <2> QED BY <2>1 DEF Healthy, InOrder, Writing
<1>3. n \in 0..Len(k.output)
  <2>1. CASE WriteFails(s)
    BY <1>1, <2>1
  <2>2. CASE ~WriteFails(s)
    BY <1>1, <2>2, WrittenUnits
  <2> QED BY <2>1, <2>2
<1>4. /\ SubSeq(k.output, 1, n) \in Seq(Units)
      /\ SubSeq(k.output, n + 1, Len(k.output)) \in Seq(Units)
      /\ SubSeq(k.output, 1, n) \o SubSeq(k.output, n + 1, Len(k.output)) = k.output
  BY <1>1, <1>3, Cut
<1>5. /\ left \in Connection /\ left.output = SubSeq(k.output, n + 1, Len(k.output))
      /\ left.accepted = k.accepted /\ left.fd = k.fd /\ left.state = k.state
      /\ left.events = {"read", "write"} /\ left.index = "added"
  BY <1>2, <1>4 DEF Connection
\* The socket after the write, with respect to the output that is left.
<1>6. /\ s1 \in Socket /\ ~s1.fin /\ (s1.err # "none" => s1.peer = "gone")
      /\ IsPrefix(s1.wire, k.accepted)
      /\ s1.peer # "gone" => s1.wire \o left.output = k.accepted
      /\ n = 0 => left.output # <<>>
  <2>1. CASE WriteFails(s)
    <3>1. s1 = [s EXCEPT !.err = "none"] /\ s1 \in Socket
      BY <2>1, WrittenError
    <3>2. s1.wire = s.wire /\ s1.fin = s.fin /\ s1.peer = s.peer /\ s1.err = "none"
      BY <3>1 DEF Socket
    <3>3. n = 0 /\ SubSeq(k.output, 0 + 1, Len(k.output)) = k.output
      BY <1>1, <2>1, SubSeqFull
    <3>4. left.output = k.output
      BY <1>5, <3>3
    <3> QED BY <1>2, <3>1, <3>2, <3>4
  <2>2. CASE ~WriteFails(s)
    <3>1. /\ s1 \in Socket /\ s1.wire = s.wire \o SubSeq(k.output, 1, n)
          /\ s1.peer = s.peer /\ s1.err = s.err /\ s1.fin = s.fin
      BY <1>1, <2>2, WrittenUnits
    <3>2. s.err = "none" /\ s.peer # "gone"
      BY <2>2 DEF WriteFails, WriteKills
    <3>3. s1.wire \o left.output = k.accepted
      <4>1. SubSeq(k.output, n + 1, Len(k.output)) \in Seq(Units)
        BY <1>4
      <4>2. SubSeq(k.output, 1, n) \in Seq(Units)
        BY <1>4
      <4>3. s.wire \in Seq(Units)
        BY <1>1
      <4>4. (s.wire \o SubSeq(k.output, 1, n)) \o SubSeq(k.output, n + 1, Len(k.output))
              = s.wire \o (SubSeq(k.output, 1, n) \o SubSeq(k.output, n + 1, Len(k.output)))
        BY <4>1, <4>2, <4>3, Regrouped, Zenon
      <4> QED BY <1>2, <1>4, <1>5, <3>1, <3>2, <4>4
    <3>4. IsPrefix(s1.wire, k.accepted)
      <4>1. s1.wire \in Seq(Units) /\ left.output \in Seq(Units)
        BY <1>4, <1>5, <3>1 DEF Socket
      <4> QED BY <1>1, <3>3, <4>1, PrefixOfConcat
    <3>5. n = 0 => left.output # <<>>
      <4> SUFFICES ASSUME n = 0 PROVE left.output # <<>>
        OBVIOUS
      <4>1. SubSeq(k.output, 0 + 1, Len(k.output)) = k.output
        BY <1>1, SubSeqFull
      <4> QED BY <1>2, <1>5, <4>1
    <3> QED BY <1>2, <3>1, <3>2, <3>3, <3>4, <3>5
  <2> QED BY <2>1, <2>2
<1>7. /\ done \in Connection /\ done.index = "added" /\ done.events = {"read"}
      /\ done.fd = k.fd /\ done.state = k.state
      /\ done.output = left.output /\ done.accepted = k.accepted
  <2>1. k.events \ {"write"} = {"read"}
    BY <1>2
  <2> QED BY <1>5, <2>1 DEF Updated, Connection
<1>8. ASSUME n > 0, left.output = <<>>
      PROVE  Drained(done, s1) \in Socket /\ Healthy(done, Drained(done, s1))
  <2> DEFINE s2 == Drained(done, s1)
  <2>1. ~Writing(done)
    BY <1>7 DEF Writing
  <2>2. s2 = IF k.state = "disconnecting" THEN [s1 EXCEPT !.fin = TRUE] ELSE s1
    BY <1>7, <2>1 DEF Drained, HalfClosed
  <2>3. /\ s2 \in Socket /\ s2.wire = s1.wire /\ s2.peer = s1.peer /\ s2.err = s1.err
        /\ s2.fin <=> k.state = "disconnecting"
    <3>1. CASE k.state = "disconnecting"
      <4>1. s2 = [s1 EXCEPT !.fin = TRUE]
        BY <2>2, <3>1
      <4> QED BY <1>6, <3>1, <4>1 DEF Socket
    <3>2. CASE k.state # "disconnecting"
      BY <1>6, <2>2, <3>2
    <3> QED BY <3>1, <3>2
  <2> HIDE DEF s2
  <2> QED BY <1>2, <1>6, <1>7, <1>8, <2>3 DEF Healthy, InOrder, s2
<1>9. ASSUME ~(n > 0 /\ left.output = <<>>)
      PROVE  Healthy(left, s1)
  <2>1. left.output # <<>>
    BY <1>1, <1>3, <1>6, <1>9
  <2>2. {"read", "write"} # {}
    OBVIOUS
  <2> QED BY <1>2, <1>5, <1>6, <2>1, <2>2 DEF Healthy, InOrder
<1> QED BY <1>5, <1>6, <1>7, <1>8, <1>9 DEF n, s1, left, done

-----------------------------------------------------------------------------
(* Steps that change one connection and its socket. *)

LEMMA InterestKept ==
  ASSUME Heap, NEW id \in DOMAIN conn, NEW k, k.fd = conn[id].fd, k.index = conn[id].index,
         k.events = conn[id].events
  PROVE  InterestOf(id, k) = interest
<1> DEFINE fd == conn[id].fd
           entry == [channel |-> id, events |-> conn[id].events]
<1>1. interest \in [DOMAIN interest -> [channel : Ids, events : SUBSET {"read", "write"}]]
  BY DEF Heap, IsTable
<1>2. CASE k.index = "added"
  <2>1. /\ fd \in DOMAIN interest /\ interest[fd].channel = id
        /\ interest[fd].events = conn[id].events
    <3>1. (fd \in DOMAIN interest /\ interest[fd].channel = id) <=> conn[id].index = "added"
      BY DEF Heap
    <3>2. \A d \in DOMAIN interest : interest[d].events = conn[interest[d].channel].events
      BY DEF Heap
    <3> HIDE DEF fd
    <3> QED BY <1>2, <3>1, <3>2
  <2>2. interest[fd] = entry
    BY <1>1, <2>1
  <2>3. InterestOf(id, k) = [d \in DOMAIN interest \cup {fd} |->
                               IF d = fd THEN entry ELSE interest[d]]
    BY <1>2 DEF InterestOf, Put
  <2>4. DOMAIN interest \cup {fd} = DOMAIN interest
    BY <2>1
  <2> HIDE DEF entry, fd
  <2> QED BY <1>1, <2>2, <2>3, <2>4
<1>3. CASE k.index # "added"
  <2>1. fd \notin DOMAIN interest
    BY <1>3 DEF Heap
  <2>2. InterestOf(id, k) = [d \in DOMAIN interest \ {fd} |-> interest[d]]
    BY <1>3 DEF InterestOf, Erase, Restrict
  <2>3. DOMAIN interest \ {fd} = DOMAIN interest
    BY <2>1
  <2> QED BY <1>1, <2>2, <2>3
<1> QED BY <1>2, <1>3

LEMMA OneConnection ==
  ASSUME Heap, NEW id \in DOMAIN conn, NEW k \in Connection, NEW s \in Socket,
         k.fd = conn[id].fd, Healthy(k, s),
         conn' = [conn EXCEPT ![id] = k], sock' = [sock EXCEPT ![id] = s],
         interest' = InterestOf(id, k),
         UNCHANGED <<connections, held, nextConnId, channels, functors, backlog>>
  PROVE  /\ Heap'
         /\ DOMAIN conn' = DOMAIN conn /\ conn'[id] = k
         /\ \A other \in DOMAIN conn \ {id} : conn'[other] = conn[other]
<1> DEFINE fd == conn[id].fd
           entry == [channel |-> id, events |-> k.events]
<1>1. /\ conn \in [DOMAIN conn -> Connection] /\ DOMAIN conn \subseteq Ids
      /\ sock \in [DOMAIN conn -> Socket] /\ DOMAIN sock = DOMAIN conn
      /\ interest \in [DOMAIN interest -> [channel : Ids, events : SUBSET {"read", "write"}]]
      /\ DOMAIN interest \subseteq Fds
  BY DEF Heap, IsTable
<1>2. /\ DOMAIN conn' = DOMAIN conn /\ conn'[id] = k
      /\ \A other \in DOMAIN conn \ {id} : conn'[other] = conn[other]
      /\ DOMAIN sock' = DOMAIN conn /\ sock'[id] = s
      /\ \A other \in DOMAIN conn \ {id} : sock'[other] = sock[other]
      /\ conn' \in [DOMAIN conn' -> Connection] /\ sock' \in [DOMAIN sock' -> Socket]
  BY <1>1
<1>3. \A other \in DOMAIN conn : conn'[other].fd = conn[other].fd
  BY <1>2
<1>4. \A other \in DOMAIN conn : Healthy(conn'[other], sock'[other])
  BY <1>2 DEF Heap
<1>5. fd \in Fds /\ id \in Ids /\ k.events \in SUBSET {"read", "write"}
  BY <1>1 DEF Connection
<1>6. \A d \in DOMAIN interest \ {fd} : interest[d].channel \in DOMAIN conn \ {id}
  BY DEF Heap
\* The epoll set, for the descriptor of the connection and for the others.
<1>7. /\ IsTable(interest', Fds, [channel : Ids, events : SUBSET {"read", "write"}])
      /\ fd \in DOMAIN interest' <=> k.index = "added"
      /\ k.index = "added" => interest'[fd].channel = id /\ interest'[fd].events = k.events
      /\ DOMAIN interest' \ {fd} = DOMAIN interest \ {fd}
      /\ \A d \in DOMAIN interest \ {fd} : interest'[d] = interest[d]
  <2>1. CASE k.index = "added"
    <3>1. interest' = [d \in DOMAIN interest \cup {fd} |-> IF d = fd THEN entry ELSE interest[d]]
      BY <2>1 DEF InterestOf, Put
    <3>2. entry \in [channel : Ids, events : SUBSET {"read", "write"}]
          /\ entry.channel = id /\ entry.events = k.events
      BY <1>5
    <3> HIDE DEF entry
    <3> QED BY <1>1, <1>5, <2>1, <3>1, <3>2 DEF IsTable
  <2>2. CASE k.index # "added"
    <3>1. interest' = [d \in DOMAIN interest \ {fd} |-> interest[d]]
      BY <2>2 DEF InterestOf, Erase, Restrict
    <3> QED BY <1>1, <2>2, <3>1 DEF IsTable
  <2> QED BY <2>1, <2>2
<1>8. \A d \in DOMAIN interest' :
        /\ interest'[d].channel \in DOMAIN conn'
        /\ conn'[interest'[d].channel].fd = d
        /\ interest'[d].events = conn'[interest'[d].channel].events
  <2> SUFFICES ASSUME NEW d \in DOMAIN interest'
               PROVE  /\ interest'[d].channel \in DOMAIN conn'
                      /\ conn'[interest'[d].channel].fd = d
                      /\ interest'[d].events = conn'[interest'[d].channel].events
    OBVIOUS
  <2>1. CASE d = fd
    BY <1>2, <1>7, <2>1
  <2>2. CASE d # fd
    <3>1. d \in DOMAIN interest \ {fd} /\ interest'[d] = interest[d]
      BY <1>7, <2>2
    <3>2. interest[d].channel \in DOMAIN conn \ {id}
      BY <1>6, <3>1
    <3> QED BY <1>2, <3>1, <3>2 DEF Heap
  <2> QED BY <2>1, <2>2
<1>9. \A other \in DOMAIN conn' :
        (conn'[other].fd \in DOMAIN interest' /\ interest'[conn'[other].fd].channel = other)
          <=> conn'[other].index = "added"
  <2> SUFFICES ASSUME NEW other \in DOMAIN conn
               PROVE  (/\ conn'[other].fd \in DOMAIN interest'
                       /\ interest'[conn'[other].fd].channel = other)
                        <=> conn'[other].index = "added"
    BY <1>2
  <2>1. CASE other = id
    BY <1>2, <1>7, <2>1
  <2>2. CASE other # id
    <3>1. conn'[other] = conn[other] /\ conn[other].fd # fd
      BY <1>2, <2>2 DEF Heap
    <3>2. conn[other].fd \in DOMAIN interest' <=> conn[other].fd \in DOMAIN interest
      BY <1>7, <3>1
    <3>3. conn[other].fd \in DOMAIN interest => interest'[conn[other].fd] = interest[conn[other].fd]
      BY <1>7, <3>1
    <3>4. (conn[other].fd \in DOMAIN interest /\ interest[conn[other].fd].channel = other)
            <=> conn[other].index = "added"
      BY DEF Heap
    <3> QED BY <3>1, <3>2, <3>3, <3>4
  <2> QED BY <2>1, <2>2
<1>10. \A d \in DOMAIN channels' : channels'[d] \in DOMAIN conn' /\ conn'[channels'[d]].fd = d
  BY <1>2, <1>3 DEF Heap
<1>11. \A one, other \in DOMAIN conn' : conn'[one].fd = conn'[other].fd => one = other
  BY <1>2, <1>3 DEF Heap
<1>12. /\ IsTable(conn', Ids, Connection) /\ IsTable(sock', Ids, Socket)
       /\ DOMAIN sock' = DOMAIN conn'
  BY <1>1, <1>2 DEF IsTable
<1> HIDE DEF fd, entry
<1>13. Heap'
  BY <1>2, <1>4, <1>7, <1>8, <1>9, <1>10, <1>11, <1>12 DEF Heap
<1> QED BY <1>2, <1>13

\* The socket alone changes.
LEMMA OneSocket ==
  ASSUME Heap, NEW id \in DOMAIN conn, NEW s \in Socket, Healthy(conn[id], s),
         sock' = [sock EXCEPT ![id] = s],
         UNCHANGED <<conn, interest, connections, held, nextConnId, channels, functors, backlog>>
  PROVE  Heap'
<1>1. conn[id] \in Connection /\ conn \in [DOMAIN conn -> Connection]
  BY DEF Heap, IsTable
<1>2. conn' = [conn EXCEPT ![id] = conn[id]]
  BY <1>1
<1>3. interest' = InterestOf(id, conn[id])
  BY InterestKept
<1> QED BY <1>1, <1>2, <1>3, OneConnection

-----------------------------------------------------------------------------
(* Steps of the loop. *)

\* Whoever acts while the loop stays where it is leaves Loop as it was.
LEMMA LoopKept ==
  ASSUME Heap, Loop, UNCHANGED <<loopAt, eventVars, functors, connections>>,
         backlog \in Int, backlog' \in Int, backlog' >= backlog,
         DOMAIN conn' = DOMAIN conn,
         \A id \in DOMAIN conn :
           conn'[id].state = "disconnected" <=> conn[id].state = "disconnected"
  PROVE  Loop'
  BY DEF Loop, eventVars

LEMMA ActiveAfter ==
  ASSUME Loop, NEW id, NEW part, Handles(id, part)
  PROVE  /\ IsTable(active', {Listener} \cup Ids, SUBSET {"error", "read", "write"})
         /\ DOMAIN active' \subseteq DOMAIN active
         /\ \A i \in DOMAIN active' : active'[i] \subseteq active[i]
         /\ \A i \in DOMAIN active' \ {id} : active'[i] = active[i]
         /\ id \in DOMAIN active' => part \notin active'[id]
         /\ id = Listener => Listener \notin DOMAIN active'
         /\ id \in DOMAIN active /\ part \in active[id]
         /\ loopAt = "events" /\ loopAt' = "events" /\ callback = "none" /\ functors' = functors
<1>1. /\ id \in DOMAIN active /\ part \in active[id]
      /\ loopAt = "events" /\ loopAt' = "events" /\ callback = "none" /\ functors' = functors
  BY DEF Handles
<1>2. /\ active \in [DOMAIN active -> SUBSET {"error", "read", "write"}]
      /\ DOMAIN active \subseteq {Listener} \cup Ids
  BY DEF Loop, IsTable
<1>3. CASE active[id] = {part}
  <2>1. active' = [i \in DOMAIN active \ {id} |-> active[i]]
    BY <1>3 DEF Handles, Erase, Restrict
  <2> QED BY <1>1, <1>2, <2>1 DEF IsTable
<1>4. CASE active[id] # {part}
  <2>1. active' = [active EXCEPT ![id] = @ \ {part}]
    BY <1>4 DEF Handles
  <2>2. id # Listener
    BY <1>1, <1>4 DEF Loop
  <2> QED BY <1>1, <1>2, <2>1, <2>2 DEF IsTable
<1> QED BY <1>3, <1>4

\* A handler that leaves every state as it was, calling back or not.
LEMMA HandlerKeeps ==
  ASSUME Heap, Loop, NEW id \in {Listener} \cup DOMAIN conn, NEW part, Handles(id, part),
         NoCallback(id) \/ CallBack(id, "message"),
         DOMAIN conn' = DOMAIN conn,
         \A i \in DOMAIN conn : conn'[i].state = "disconnected" <=> conn[i].state = "disconnected",
         UNCHANGED <<connections, backlog>>
  PROVE  Loop'
<1>1. /\ IsTable(active', {Listener} \cup Ids, SUBSET {"error", "read", "write"})
      /\ DOMAIN active' \subseteq DOMAIN active
      /\ \A i \in DOMAIN active' : active'[i] \subseteq active[i]
      /\ \A i \in DOMAIN active' \ {id} : active'[i] = active[i]
      /\ id = Listener => Listener \notin DOMAIN active'
      /\ loopAt = "events" /\ loopAt' = "events" /\ callback = "none" /\ functors' = functors
  BY ActiveAfter
<1>2. /\ current' \in {None, id} /\ callback' \in {"none", "message"}
      /\ callback' # "none" => current' = id
  BY <1>1 DEF NoCallback, CallBack, Continue
<1>3. id # None
  BY DEF Heap, IsTable, Ids, None, Listener
<1>4. \A i \in DOMAIN conn' :
        conn'[i].state = "disconnected"
          <=> (i \in functors' \/ (callback' = "down" /\ current' = i))
  BY <1>1, <1>2 DEF Loop
<1>5. Listener \in DOMAIN active' =>
        active'[Listener] = active[Listener] /\ Listener \in DOMAIN active
  BY <1>1
<1>6. \A i \in DOMAIN active' \ {Listener} :
        "read" \in active'[i] => conn'[i].state # "disconnected"
  BY <1>1 DEF Loop
<1> QED BY <1>1, <1>2, <1>3, <1>4, <1>5, <1>6 DEF Loop

LEMMA PollInv == ASSUME Inv, Poll PROVE Inv'
<1>1. /\ UNCHANGED <<conn, sock, connections, held, nextConnId, channels, interest, current,
                     callback, functors, backlog, killed, sent>>
      /\ loopAt = "poll" /\ loopAt' = "events"
  BY DEF Poll, connVars, tableVars
<1>2. ReadyChannels \subseteq DOMAIN conn /\ Listener \notin DOMAIN conn
  BY DEF Inv, Heap, ReadyChannels, IsTable, Ids, Listener
<1>3. /\ DOMAIN active' = ReadyChannels \cup {l \in {Listener} : backlog > 0}
      /\ \A id \in DOMAIN active' :
           active'[id] = IF id = Listener THEN {"read"}
                         ELSE Revents(sock[id], interest[conn[id].fd].events)
      /\ active' = [id \in DOMAIN active' |-> active'[id]]
  BY DEF Poll
<1>4. \A id \in DOMAIN active' : active'[id] \in SUBSET {"error", "read", "write"}
  BY <1>3 DEF Revents
<1>5. IsTable(active', {Listener} \cup Ids, SUBSET {"error", "read", "write"})
  BY <1>2, <1>3, <1>4 DEF IsTable, Inv, Heap
<1>6. Heap'
  BY <1>1 DEF Inv, Heap
<1>7. \A id \in DOMAIN conn : conn[id].state # "disconnected"
  BY <1>1 DEF Inv, Loop
<1>8. Listener \in DOMAIN active' => backlog > 0 /\ active'[Listener] = {"read"}
  BY <1>2, <1>3
<1>9. Loop'
  BY <1>1, <1>2, <1>3, <1>5, <1>7, <1>8 DEF Inv, Loop
<1> QED BY <1>1, <1>6, <1>9 DEF Inv, Counters

\* A new connection, under an id and a descriptor that nothing refers to.
LEMMA AcceptInv == ASSUME Inv, Accept PROVE Inv'
<1> USE DEF Inv
<1>1. PICK fd \in FreeFds :
        LET k == Updated([state |-> "connected", fd |-> fd, index |-> "new", events |-> {},
                          output |-> <<>>, accepted |-> <<>>], {"read"})
        IN /\ conn' = Put(conn, nextConnId, k)
           /\ sock' = Put(sock, nextConnId, NewSocket)
           /\ channels' = Put(channels, fd, nextConnId)
           /\ interest' = InterestOf(nextConnId, k)
  BY DEF Accept
<1> DEFINE new == nextConnId
           k0 == [state |-> "connected", fd |-> fd, index |-> "new", events |-> {},
                  output |-> <<>>, accepted |-> <<>>]
           k == Updated(k0, {"read"})
           entry == [channel |-> new, events |-> k.events]
<1>2. /\ fd \in Fds /\ \A i \in DOMAIN conn : conn[i].fd # fd
      /\ fd \notin DOMAIN interest
  BY DEF FreeFds, Heap
<1>3. /\ k \in Connection /\ k.state = "connected" /\ k.fd = fd /\ k.index = "added"
      /\ k.events = {"read"} /\ k.output = <<>> /\ k.accepted = <<>>
  <2>1. <<>> \in Seq(Units)
    BY EmptySeq
  <2>2. /\ k0 \in Connection /\ k0.state = "connected" /\ k0.fd = fd
        /\ k0.output = <<>> /\ k0.accepted = <<>> /\ k0.index = "new"
    BY <1>2, <2>1 DEF Connection
  <2> HIDE DEF k0
  <2>3. {"read"} \in SUBSET {"read", "write"} /\ {"read"} # {}
    OBVIOUS
  <2> QED BY <2>2, <2>3 DEF Updated, Connection
<1>4. /\ conn' = Put(conn, new, k) /\ sock' = Put(sock, new, NewSocket)
       /\ channels' = Put(channels, fd, new) /\ interest' = InterestOf(new, k)
  BY <1>1
<1> HIDE DEF k0, k
<1>5. /\ conn' = [i \in DOMAIN conn \cup {new} |-> IF i = new THEN k ELSE conn[i]]
      /\ sock' = [i \in DOMAIN sock \cup {new} |-> IF i = new THEN NewSocket ELSE sock[i]]
      /\ channels' = [d \in DOMAIN channels \cup {fd} |-> IF d = fd THEN new ELSE channels[d]]
      /\ interest' = [d \in DOMAIN interest \cup {fd} |-> IF d = fd THEN entry ELSE interest[d]]
  BY <1>3, <1>4 DEF Put, InterestOf
<1>6. /\ IsTable(active', {Listener} \cup Ids, SUBSET {"error", "read", "write"})
      /\ DOMAIN active' \subseteq DOMAIN active
      /\ \A i \in DOMAIN active' : active'[i] \subseteq active[i]
      /\ Listener \notin DOMAIN active' /\ Listener \in DOMAIN active
      /\ loopAt = "events" /\ loopAt' = "events" /\ callback = "none"
  BY ActiveAfter DEF Accept
<1>7. /\ connections' = connections \cup {new} /\ held' = held \cup {new}
      /\ nextConnId' = new + 1 /\ backlog' = backlog - 1
      /\ current' = Listener /\ callback' = "up" /\ UNCHANGED <<functors, killed, sent>>
  BY DEF Accept, CallBack, Handles
<1>8. /\ new \in Ids /\ new \notin DOMAIN conn
      /\ new + 1 \in 1..(MaxConnections + 1) /\ backlog - 1 \in 0..MaxConnections
      /\ (backlog - 1) + (new + 1) <= MaxConnections + 1
      /\ \A i \in DOMAIN conn \cup {new} : i < new + 1
  <2>1. backlog > 0
    BY <1>6 DEF Loop
  <2>2. /\ backlog \in 0..MaxConnections /\ new \in 1..(MaxConnections + 1)
        /\ backlog + new <= MaxConnections + 1 /\ MaxConnections \in Nat
    BY ServerAssumption DEF Heap
  <2>3. \A i \in DOMAIN conn : i \in Int /\ i < new
    BY ServerAssumption DEF Heap, IsTable, Ids
  <2> HIDE DEF new
  <2> QED BY <2>1, <2>2, <2>3 DEF Ids
<1>9. NewSocket \in Socket /\ Healthy(k, NewSocket)
  <2>1. <<>> \in Seq(Units) /\ <<>> \o <<>> = <<>>
    BY EmptySeq, ConcatEmptySeq
  <2>2. IsPrefix(<<>>, <<>>)
    BY <2>1, PrefixOfConcat
  <2>3. /\ NewSocket \in Socket /\ NewSocket.wire = <<>> /\ NewSocket.peer = "open"
        /\ NewSocket.err = "none" /\ NewSocket.fin = FALSE
    BY <2>1, ServerAssumption DEF NewSocket, Socket
  <2>4. {"read"} # {}
    OBVIOUS
  <2> QED BY <1>3, <2>1, <2>2, <2>3, <2>4 DEF Healthy, InOrder
<1>10. /\ entry.channel = new /\ entry.events = {"read"}
      /\ entry \in [channel : Ids, events : SUBSET {"read", "write"}]
  BY <1>3, <1>8
<1> HIDE DEF entry
<1>11. /\ DOMAIN conn' = DOMAIN conn \cup {new} /\ conn'[new] = k
       /\ \A i \in DOMAIN conn : conn'[i] = conn[i]
       /\ DOMAIN sock' = DOMAIN conn' /\ sock'[new] = NewSocket
       /\ \A i \in DOMAIN conn : sock'[i] = sock[i]
       /\ DOMAIN interest' = DOMAIN interest \cup {fd} /\ interest'[fd] = entry
       /\ \A d \in DOMAIN interest : interest'[d] = interest[d]
  BY <1>5, <1>8, <1>2 DEF Heap
<1>12. Heap'
  <2>1. /\ IsTable(conn', Ids, Connection) /\ IsTable(sock', Ids, Socket)
        /\ IsTable(channels', Fds, Ids)
        /\ IsTable(interest', Fds, [channel : Ids, events : SUBSET {"read", "write"}])
    BY <1>3, <1>5, <1>8, <1>2, <1>9, <1>10 DEF Heap, IsTable
  <2>2. \A d \in DOMAIN channels' : channels'[d] \in DOMAIN conn' /\ conn'[channels'[d]].fd = d
    BY <1>3, <1>5, <1>11 DEF Heap
  <2>3. \A d \in DOMAIN interest' :
          /\ interest'[d].channel \in DOMAIN conn'
          /\ conn'[interest'[d].channel].fd = d
          /\ interest'[d].events = conn'[interest'[d].channel].events
    <3> SUFFICES ASSUME NEW d \in DOMAIN interest'
                 PROVE  /\ interest'[d].channel \in DOMAIN conn'
                        /\ conn'[interest'[d].channel].fd = d
                        /\ interest'[d].events = conn'[interest'[d].channel].events
      OBVIOUS
    <3>1. CASE d = fd
      BY <1>3, <1>10, <1>11, <3>1
    <3>2. CASE d # fd
      <4>1. d \in DOMAIN interest /\ interest'[d] = interest[d]
        BY <1>11, <3>2
      <4> QED BY <1>11, <4>1 DEF Heap
    <3> QED BY <3>1, <3>2
  <2>4. \A i \in DOMAIN conn' :
          (conn'[i].fd \in DOMAIN interest' /\ interest'[conn'[i].fd].channel = i)
            <=> conn'[i].index = "added"
    BY <1>3, <1>2, <1>10, <1>11 DEF Heap
  <2>5. \A i, other \in DOMAIN conn' : conn'[i].fd = conn'[other].fd => i = other
    BY <1>3, <1>2, <1>10, <1>11 DEF Heap
  <2>6. \A i \in DOMAIN conn' : Healthy(conn'[i], sock'[i])
    BY <1>3, <1>9, <1>11 DEF Heap
  <2>7. DOMAIN conn' = connections' \cup functors' /\ connections' \cap functors' = {}
        /\ connections' = held'
    BY <1>7, <1>8, <1>11 DEF Heap
  <2> HIDE DEF new
  <2> QED BY <1>7, <1>8, <1>11, <2>1, <2>2, <2>3, <2>4, <2>5, <2>6, <2>7 DEF Heap, new
<1>13. Loop'
  <2>1. \A i \in DOMAIN conn' :
          conn'[i].state = "disconnected"
            <=> (i \in functors' \/ (callback' = "down" /\ current' = i))
    BY <1>3, <1>6, <1>7, <1>8, <1>11 DEF Heap, Loop
  <2>2. \A i \in DOMAIN active' \ {Listener} :
          i \in DOMAIN conn /\ ("read" \in active'[i] => conn'[i].state # "disconnected")
    BY <1>6, <1>11 DEF Loop
  <2>3. Listener # None
    BY DEF Listener, None
  <2> QED BY <1>6, <1>7, <1>11, <2>1, <2>2, <2>3 DEF Loop
<1> QED BY <1>7, <1>12, <1>13 DEF Counters

\* Nobody but the functors knows the connections that are freed.
LEMMA DoPendingFunctorsInv == ASSUME Inv, DoPendingFunctors PROVE Inv'
<1> USE DEF Inv
<1>1. /\ UNCHANGED <<connections, held, nextConnId, active, current, callback, backlog, killed,
                     sent>>
      /\ functors' = {} /\ loopAt' = "poll" /\ active = <<>> /\ current = None
  BY DEF DoPendingFunctors, eventVars
<1>2. functors \ (connections \cup held) = functors
  BY DEF Heap
<1>3. \A i \in DOMAIN conn \ functors : i \notin functors
  OBVIOUS
<1>4. /\ channels' = [d \in DOMAIN channels \ {conn[i].fd : i \in functors} |-> channels[d]]
      /\ interest' = [d \in DOMAIN interest \ {conn[i].fd : i \in functors} |-> interest[d]]
      /\ conn' = [i \in DOMAIN conn \ functors |->
                    IF i \in functors THEN [conn[i] EXCEPT !.index = "new"] ELSE conn[i]]
      /\ sock' = [i \in DOMAIN sock \ functors |-> sock[i]]
  BY <1>2 DEF DoPendingFunctors, ChannelsLeft
<1>5. /\ DOMAIN conn' = DOMAIN conn \ functors /\ DOMAIN sock' = DOMAIN conn'
      /\ \A i \in DOMAIN conn' : conn'[i] = conn[i] /\ sock'[i] = sock[i]
      /\ DOMAIN interest' \subseteq DOMAIN interest
      /\ \A d \in DOMAIN interest' : interest'[d] = interest[d]
      /\ DOMAIN channels' \subseteq DOMAIN channels
      /\ \A d \in DOMAIN channels' : channels'[d] = channels[d]
  BY <1>4 DEF Heap
<1>6. \A i \in DOMAIN conn' : \A other \in functors : conn[i].fd # conn[other].fd
  BY <1>5 DEF Heap
<1>7. /\ IsTable(conn', Ids, Connection) /\ IsTable(sock', Ids, Socket)
      /\ IsTable(channels', Fds, Ids)
      /\ IsTable(interest', Fds, [channel : Ids, events : SUBSET {"read", "write"}])
  BY <1>4, <1>5 DEF Heap, IsTable
<1>8. \A d \in DOMAIN channels' : channels'[d] \in DOMAIN conn' /\ conn'[channels'[d]].fd = d
  <2> SUFFICES ASSUME NEW d \in DOMAIN channels'
               PROVE  channels'[d] \in DOMAIN conn' /\ conn'[channels'[d]].fd = d
    OBVIOUS
  <2>1. channels[d] \in DOMAIN conn /\ conn[channels[d]].fd = d /\ channels'[d] = channels[d]
    BY <1>5 DEF Heap
  <2>2. channels[d] \notin functors
    BY <1>4, <2>1
  <2> QED BY <1>5, <2>1, <2>2
<1>9. \A d \in DOMAIN interest' :
        /\ interest'[d].channel \in DOMAIN conn'
        /\ conn'[interest'[d].channel].fd = d
        /\ interest'[d].events = conn'[interest'[d].channel].events
  <2> SUFFICES ASSUME NEW d \in DOMAIN interest'
               PROVE  /\ interest'[d].channel \in DOMAIN conn'
                      /\ conn'[interest'[d].channel].fd = d
                      /\ interest'[d].events = conn'[interest'[d].channel].events
    OBVIOUS
  <2>1. /\ interest[d].channel \in DOMAIN conn /\ conn[interest[d].channel].fd = d
        /\ interest[d].events = conn[interest[d].channel].events /\ interest'[d] = interest[d]
    BY <1>5 DEF Heap
  <2>2. interest[d].channel \notin functors
    BY <1>4, <2>1
  <2> QED BY <1>5, <2>1, <2>2
<1>10. \A i \in DOMAIN conn' :
         (conn'[i].fd \in DOMAIN interest' /\ interest'[conn'[i].fd].channel = i)
           <=> conn'[i].index = "added"
  <2> SUFFICES ASSUME NEW i \in DOMAIN conn'
               PROVE  (conn'[i].fd \in DOMAIN interest' /\ interest'[conn'[i].fd].channel = i)
                        <=> conn'[i].index = "added"
    OBVIOUS
  <2>1. /\ conn'[i] = conn[i] /\ i \in DOMAIN conn
        /\ conn[i].fd \notin {conn[other].fd : other \in functors}
    BY <1>5, <1>6
  <2>2. /\ conn[i].fd \in DOMAIN interest' <=> conn[i].fd \in DOMAIN interest
        /\ conn[i].fd \in DOMAIN interest => interest'[conn[i].fd] = interest[conn[i].fd]
    BY <1>4, <2>1
  <2>3. (conn[i].fd \in DOMAIN interest /\ interest[conn[i].fd].channel = i)
          <=> conn[i].index = "added"
    BY <2>1 DEF Heap
  <2> QED BY <2>1, <2>2, <2>3
<1>11. Heap'
  <2>1. \A i, other \in DOMAIN conn' : conn'[i].fd = conn'[other].fd => i = other
    BY <1>5 DEF Heap
  <2>2. \A i \in DOMAIN conn' : Healthy(conn'[i], sock'[i])
    BY <1>5 DEF Heap
  <2>3. DOMAIN conn' = connections' \cup functors' /\ connections' \cap functors' = {}
    BY <1>1, <1>5 DEF Heap
  <2> QED BY <1>1, <1>5, <1>7, <1>8, <1>9, <1>10, <2>1, <2>2, <2>3 DEF Heap
<1>12. Loop'
  <2>1. callback = "none"
    BY <1>1 DEF Loop
  <2>2. \A i \in DOMAIN conn' : conn'[i].state # "disconnected"
    BY <1>1, <1>5, <2>1 DEF Loop
  <2>3. IsTable(active', {Listener} \cup Ids, SUBSET {"error", "read", "write"})
        /\ DOMAIN active' = {}
    <3>1. DOMAIN active = {}
      BY <1>1
    <3> QED BY <1>1, <3>1 DEF Loop
  <2> QED BY <1>1, <2>1, <2>2, <2>3 DEF Loop
<1> QED BY <1>1, <1>11, <1>12 DEF Counters

\* The callback that says a connection is down moves it from the tables to the
\* functors.
LEMMA ReturnInv ==
  ASSUME Inv, CallbackReturns \/ RemoveConnection PROVE Inv'
<1> USE DEF Inv
<1>1. /\ UNCHANGED <<conn, sock, nextConnId, channels, interest, loopAt, active, backlog,
                     killed, sent>>
      /\ callback' = "none" /\ current' \in {None, current}
      /\ callback # "none"
  BY DEF CallbackReturns, RemoveConnection, Return, Continue, connVars, tableVars
<1>2. loopAt = "events"
  BY <1>1 DEF Loop
<1>3. CASE CallbackReturns
  <2>1. UNCHANGED <<connections, held, functors>> /\ callback # "down"
    BY <1>3 DEF CallbackReturns, tableVars
  <2>2. Heap'
    BY <1>1, <2>1 DEF Heap
  <2>3. Loop'
    BY <1>1, <1>2, <2>1 DEF Loop
  <2> QED BY <1>1, <2>2, <2>3 DEF Counters
<1>4. CASE RemoveConnection
  <2>1. /\ callback = "down" /\ current \in connections
        /\ connections' = connections \ {current} /\ held' = held \ {current}
        /\ functors' = functors \cup {current}
    BY <1>4 DEF RemoveConnection, DestroyQueued, Loop
  <2>2. Heap'
    BY <1>1, <2>1 DEF Heap
  <2>3. Loop'
    BY <1>1, <1>2, <2>1 DEF Loop
  <2> QED BY <1>1, <2>2, <2>3 DEF Counters
<1> QED BY <1>3, <1>4

\* A connection at its end is told so once, and waits for nothing from then on.
LEMMA ReadEndInv ==
  ASSUME Inv, NEW id \in DOMAIN conn, ReadEnd(id) PROVE Inv'
<1> USE DEF Inv
<1> DEFINE k0 == [conn[id] EXCEPT !.state = "disconnected"]
           k == Updated(k0, {})
<1>1. /\ IsTable(active', {Listener} \cup Ids, SUBSET {"error", "read", "write"})
      /\ DOMAIN active' \subseteq DOMAIN active
      /\ \A i \in DOMAIN active' : active'[i] \subseteq active[i]
      /\ \A i \in DOMAIN active' \ {id} : active'[i] = active[i]
      /\ id \in DOMAIN active' => "read" \notin active'[id]
      /\ id \in DOMAIN active /\ "read" \in active[id]
      /\ loopAt = "events" /\ loopAt' = "events" /\ callback = "none" /\ functors' = functors
  BY ActiveAfter DEF ReadEnd
<1>2. /\ conn' = [conn EXCEPT ![id] = k] /\ interest' = InterestOf(id, k)
      /\ UNCHANGED <<sock, connections, held, nextConnId, channels, backlog, killed, sent>>
      /\ current' = id /\ callback' = "down" /\ id # Listener
  BY DEF ReadEnd, SetConnection, CallBack, Handles
<1>3. conn[id].state # "disconnected" /\ conn[id] \in Connection /\ Healthy(conn[id], sock[id])
      /\ sock[id] \in Socket /\ sock \in [DOMAIN sock -> Socket] /\ id \in DOMAIN sock
  BY <1>1, <1>2 DEF Loop, Heap, IsTable
<1>4. id \in connections
  BY <1>1, <1>3 DEF Heap, Loop
<1>5. /\ k \in Connection /\ k.fd = conn[id].fd /\ k.state = "disconnected" /\ k.events = {}
      /\ k.index = "deleted" /\ k.output = conn[id].output /\ k.accepted = conn[id].accepted
  <2>1. /\ k0 \in Connection /\ k0.fd = conn[id].fd /\ k0.state = "disconnected"
        /\ k0.index = conn[id].index
        /\ k0.output = conn[id].output /\ k0.accepted = conn[id].accepted
    BY <1>3 DEF Connection
  <2>2. conn[id].index = "added"
    <3>1. {"read"} # {} /\ {"read", "write"} # {}
      OBVIOUS
    <3> QED BY <1>3, <3>1 DEF Healthy
  <2> HIDE DEF k0
  <2> QED BY <2>1, <2>2 DEF Updated, Connection
<1> HIDE DEF k
<1>6. Healthy(k, sock[id])
  BY <1>3, <1>5 DEF Healthy, InOrder
<1>7. sock' = [sock EXCEPT ![id] = sock[id]]
  BY <1>2, <1>3
<1>8. /\ Heap' /\ DOMAIN conn' = DOMAIN conn /\ conn'[id] = k
      /\ \A other \in DOMAIN conn \ {id} : conn'[other] = conn[other]
  BY <1>1, <1>2, <1>3, <1>5, <1>6, <1>7, OneConnection
<1>9. Loop'
  <2>1. \A i \in DOMAIN conn' :
          conn'[i].state = "disconnected"
            <=> (i \in functors' \/ (callback' = "down" /\ current' = i))
    BY <1>1, <1>2, <1>5, <1>8 DEF Loop
  <2>2. \A i \in DOMAIN active' \ {Listener} :
          "read" \in active'[i] => conn'[i].state # "disconnected"
    BY <1>1, <1>8 DEF Loop
  <2>3. Listener \in DOMAIN active' => backlog' > 0 /\ active'[Listener] = {"read"}
    BY <1>1, <1>2 DEF Loop
  <2>4. id # None
    BY DEF Heap, IsTable, Ids, None
  <2> QED BY <1>1, <1>2, <1>4, <1>8, <2>1, <2>2, <2>3, <2>4 DEF Loop
<1> QED BY <1>2, <1>8, <1>9 DEF Counters

\* A handler that changes its socket alone, its error taken or its input read.
LEMMA SocketHandlerInv ==
  ASSUME Inv, NEW id \in DOMAIN conn, HandleError(id) \/ ReadMessage(id) \/ ReadError(id)
  PROVE  Inv'
<1> USE DEF Inv
<1>1. PICK part \in {"error", "read"} :
        /\ Handles(id, part)
        /\ NoCallback(id) \/ CallBack(id, "message")
        /\ UNCHANGED <<conn, tableVars, backlog>>
        /\ sock' = [sock EXCEPT ![id].err = "none"] \/ sock' = [sock EXCEPT ![id].inbox = FALSE]
  BY DEF HandleError, ReadMessage, ReadError
<1>2. UNCHANGED <<conn, connections, held, nextConnId, channels, interest, functors, backlog,
                  killed, sent>>
  BY <1>1 DEF tableVars, Handles
<1>3. /\ sock \in [DOMAIN sock -> Socket] /\ id \in DOMAIN sock
      /\ Healthy(conn[id], sock[id])
  BY DEF Heap, IsTable
<1>4. Heap'
  <2>1. CASE sock' = [sock EXCEPT ![id].err = "none"]
    <3> DEFINE s == [sock[id] EXCEPT !.err = "none"]
    <3>1. sock' = [sock EXCEPT ![id] = s]
      BY <2>1
    <3>2. /\ s \in Socket /\ s.wire = sock[id].wire /\ s.peer = sock[id].peer
          /\ s.fin = sock[id].fin /\ s.err = "none"
      BY <1>3 DEF Socket
    <3> HIDE DEF s
    <3>3. Healthy(conn[id], s)
      BY <1>3, <3>2 DEF Healthy, InOrder
    <3> QED BY <1>2, <3>1, <3>2, <3>3, OneSocket
  <2>2. CASE sock' = [sock EXCEPT ![id].inbox = FALSE]
    <3> DEFINE s == [sock[id] EXCEPT !.inbox = FALSE]
    <3>1. sock' = [sock EXCEPT ![id] = s]
      BY <2>2
    <3>2. /\ s \in Socket /\ s.wire = sock[id].wire /\ s.peer = sock[id].peer
          /\ s.fin = sock[id].fin /\ s.err = sock[id].err
      BY <1>3 DEF Socket
    <3> HIDE DEF s
    <3>3. Healthy(conn[id], s)
      BY <1>3, <3>2 DEF Healthy, InOrder
    <3> QED BY <1>2, <3>1, <3>2, <3>3, OneSocket
  <2> QED BY <1>1, <2>1, <2>2
<1>5. Loop'
  BY <1>1, <1>2, HandlerKeeps
<1> QED BY <1>2, <1>4, <1>5 DEF Counters

LEMMA HandleWriteInv ==
  ASSUME Inv, NEW id \in DOMAIN conn, HandleWrite(id) PROVE Inv'
<1> USE DEF Inv
<1> DEFINE k == conn[id]
           s == sock[id]
<1>1. /\ k \in Connection /\ s \in Socket /\ Healthy(k, s)
      /\ conn \in [DOMAIN conn -> Connection] /\ sock \in [DOMAIN sock -> Socket]
      /\ id \in DOMAIN sock
  BY DEF Heap, IsTable
<1>2. /\ Handles(id, "write") /\ NoCallback(id)
      /\ UNCHANGED <<connections, held, nextConnId, backlog, functors, killed, sent>>
  BY DEF HandleWrite, Handles
<1>3. CASE ~Writing(k)
  <2>1. UNCHANGED <<conn, sock, channels, interest>>
    BY <1>3 DEF HandleWrite
  <2>2. Heap'
    BY <1>2, <2>1 DEF Heap
  <2>3. Loop'
    BY <1>2, <2>1, HandlerKeeps
  <2> QED BY <1>2, <2>2, <2>3 DEF Counters
<1>4. CASE Writing(k)
  <2>1. /\ ~WriteKills(s)
        /\ IF AllWritten(k, s)
             THEN /\ SetConnection(id, Done(k, s))
                  /\ sock' = [sock EXCEPT ![id] = Drained(Done(k, s), Written(s, k.output))]
             ELSE /\ SetConnection(id, Left(k, s))
                  /\ sock' = [sock EXCEPT ![id] = Written(s, k.output)]
    BY <1>4 DEF HandleWrite, AllWritten, Done, Left, UnitsWritten
  <2>2. /\ Left(k, s).fd = k.fd /\ Left(k, s).state = k.state
        /\ Done(k, s).fd = k.fd /\ Done(k, s).state = k.state
        /\ AllWritten(k, s) =>
             /\ Done(k, s) \in Connection
             /\ Drained(Done(k, s), Written(s, k.output)) \in Socket
             /\ Healthy(Done(k, s), Drained(Done(k, s), Written(s, k.output)))
        /\ ~AllWritten(k, s) =>
             /\ Left(k, s) \in Connection /\ Written(s, k.output) \in Socket
             /\ Healthy(Left(k, s), Written(s, k.output))
    BY <1>1, <1>4, <2>1, WriteHealthy
  <2>3. \E k2 \in Connection, s2 \in Socket :
          /\ SetConnection(id, k2) /\ sock' = [sock EXCEPT ![id] = s2]
          /\ Healthy(k2, s2) /\ k2.fd = k.fd /\ k2.state = k.state
    BY <2>1, <2>2
  <2>4. PICK k2 \in Connection, s2 \in Socket :
          /\ SetConnection(id, k2) /\ sock' = [sock EXCEPT ![id] = s2]
          /\ Healthy(k2, s2) /\ k2.fd = k.fd /\ k2.state = k.state
    BY <2>3
  <2>5. /\ conn' = [conn EXCEPT ![id] = k2] /\ interest' = InterestOf(id, k2)
        /\ channels' = channels
    BY <2>4 DEF SetConnection
  <2>6. /\ Heap' /\ DOMAIN conn' = DOMAIN conn /\ conn'[id] = k2
        /\ \A other \in DOMAIN conn \ {id} : conn'[other] = conn[other]
    BY <1>2, <2>4, <2>5, OneConnection
  <2>7. \A i \in DOMAIN conn : conn'[i].state = conn[i].state
    BY <2>4, <2>6
  <2>8. Loop'
    BY <1>2, <2>6, <2>7, HandlerKeeps
  <2> QED BY <1>2, <2>6, <2>8 DEF Counters
<1> QED BY <1>3, <1>4

LEMMA SendInv == ASSUME Inv, NEW id \in DOMAIN conn, Send(id) PROVE Inv'
<1> USE DEF Inv
<1> DEFINE k == conn[id]
           s == sock[id]
           k2 == SentConnection(k, s, Message)
           s2 == SentSocket(k, s, Message)
<1>1. /\ k \in Connection /\ s \in Socket /\ Healthy(k, s)
      /\ sock \in [DOMAIN sock -> Socket] /\ id \in DOMAIN sock
  BY DEF Heap, IsTable
<1>2. /\ k.state = "connected" /\ sent < MaxMessages
      /\ ~(Directly(k) /\ WriteKills(s))
      /\ SetConnection(id, k2)
      /\ sock' = IF Directly(k) THEN [sock EXCEPT ![id] = Written(s, Message)] ELSE sock
      /\ sent' = sent + 1
      /\ UNCHANGED <<connections, held, nextConnId, loopAt, eventVars, functors, backlog, killed>>
  BY DEF Send, MaySend, AppStep, SentConnection, Accepting, Kept
<1>3. sock' = [sock EXCEPT ![id] = s2]
  BY <1>1, <1>2 DEF SentSocket
<1>4. Message \in Seq(Units) /\ Len(Message) = 2
  <2>1. 2 * sent + 1 \in Units /\ 2 * sent + 2 \in Units
    BY <1>2, ServerAssumption DEF Counters, Units
  <2> QED BY <2>1 DEF Message
<1> HIDE DEF Message
<1>5. k2 \in Connection /\ s2 \in Socket /\ Healthy(k2, s2) /\ k2.fd = k.fd /\ k2.state = k.state
  BY <1>1, <1>2, <1>4, SendHealthy
<1> HIDE DEF k2, s2
<1>6. /\ conn' = [conn EXCEPT ![id] = k2] /\ interest' = InterestOf(id, k2)
      /\ channels' = channels
  BY <1>2 DEF SetConnection
<1>7. /\ Heap' /\ DOMAIN conn' = DOMAIN conn /\ conn'[id] = k2
      /\ \A other \in DOMAIN conn \ {id} : conn'[other] = conn[other]
  BY <1>2, <1>3, <1>5, <1>6, OneConnection
<1>8. \A i \in DOMAIN conn : conn'[i].state = conn[i].state
  BY <1>5, <1>7
<1>9. Loop'
  BY <1>2, <1>7, <1>8, LoopKept, ServerAssumption DEF Heap
<1>10. Counters'
  BY <1>2, ServerAssumption DEF Counters
<1> QED BY <1>7, <1>9, <1>10

LEMMA ShutdownInv == ASSUME Inv, NEW id \in DOMAIN conn, Shutdown(id) PROVE Inv'
<1> USE DEF Inv
<1> DEFINE k == conn[id]
           s == sock[id]
           k2 == [k EXCEPT !.state = "disconnecting"]
           s2 == HalfClosed(k, s)
<1>1. /\ k \in Connection /\ s \in Socket /\ Healthy(k, s)
      /\ conn \in [DOMAIN conn -> Connection]
      /\ sock \in [DOMAIN sock -> Socket] /\ id \in DOMAIN sock
  BY DEF Heap, IsTable
<1>2. /\ k.state = "connected"
      /\ conn' = [conn EXCEPT ![id] = k2] /\ sock' = [sock EXCEPT ![id] = s2]
      /\ UNCHANGED <<connections, held, nextConnId, loopAt, eventVars, functors, backlog, killed,
                     channels, interest, sent>>
  BY <1>1 DEF Shutdown, AppStep
<1>3. /\ k2 \in Connection /\ k2.state = "disconnecting" /\ k2.fd = k.fd
      /\ k2.index = k.index /\ k2.events = k.events /\ k2.output = k.output
      /\ k2.accepted = k.accepted
  BY <1>1 DEF Connection
<1>4. Writing(k) <=> k.output # <<>>
  <2>1. "write" \notin {"read"} /\ "write" \in {"read", "write"}
    OBVIOUS
  <2> QED BY <1>1, <1>2, <2>1 DEF Healthy, Writing
<1>5. /\ s2 \in Socket /\ s2.wire = s.wire /\ s2.peer = s.peer /\ s2.err = s.err
      /\ s2.fin <=> k.output = <<>>
  <2>1. CASE Writing(k)
    BY <1>1, <1>2, <1>4, <2>1 DEF HalfClosed, Healthy
  <2>2. CASE ~Writing(k)
    <3>1. s2 = [s EXCEPT !.fin = TRUE]
      BY <2>2 DEF HalfClosed
    <3> QED BY <1>1, <1>4, <2>2, <3>1 DEF Socket
  <2> QED BY <2>1, <2>2
<1> HIDE DEF k2, s2
<1>6. Healthy(k2, s2)
  BY <1>1, <1>2, <1>3, <1>5 DEF Healthy, InOrder
<1>7. interest' = InterestOf(id, k2)
  BY <1>2, <1>3, InterestKept
<1>8. /\ Heap' /\ DOMAIN conn' = DOMAIN conn /\ conn'[id] = k2
      /\ \A other \in DOMAIN conn \ {id} : conn'[other] = conn[other]
  BY <1>2, <1>3, <1>5, <1>6, <1>7, OneConnection
<1>9. \A i \in DOMAIN conn : conn'[i].state = "disconnected" <=> conn[i].state = "disconnected"
  BY <1>2, <1>3, <1>8
<1>10. Loop'
  BY <1>2, <1>8, <1>9, LoopKept, ServerAssumption DEF Heap
<1> QED BY <1>2, <1>8, <1>10 DEF Counters

LEMMA PeerInv ==
  ASSUME Inv, NEW id \in DOMAIN conn,
         \/ PeerSend(id) \/ PeerRead(id) \/ PeerClose(id)
         \/ \E err \in {"ECONNRESET", "ETIMEDOUT", "EPIPE"} : PeerVanish(id, err)
  PROVE  Inv'
<1> USE DEF Inv
<1> DEFINE s == sock[id]
<1>1. /\ s \in Socket /\ Healthy(conn[id], s)
      /\ sock \in [DOMAIN sock -> Socket] /\ id \in DOMAIN sock
  BY DEF Heap, IsTable
<1>2. UNCHANGED <<conn, connections, held, nextConnId, channels, interest, loopAt, eventVars,
                  functors, backlog, killed, sent>>
  BY DEF PeerSend, PeerRead, PeerClose, PeerVanish, PeerStep, tableVars
<1>3. \E s2 \in Socket : sock' = [sock EXCEPT ![id] = s2] /\ Healthy(conn[id], s2)
  <2>1. ASSUME NEW s2 \in Socket, s2.wire = s.wire, s2.fin = s.fin, s2.err = s.err,
               s2.peer = s.peer
        PROVE  Healthy(conn[id], s2)
    BY <1>1, <2>1 DEF Healthy, InOrder
  <2>2. CASE PeerSend(id)
    <3> DEFINE s2 == [s EXCEPT !.inbox = TRUE]
    <3>1. sock' = [sock EXCEPT ![id] = s2]
      BY <2>2 DEF PeerSend
    <3>2. /\ s2 \in Socket /\ s2.wire = s.wire /\ s2.fin = s.fin /\ s2.err = s.err
          /\ s2.peer = s.peer
      BY <1>1 DEF Socket
    <3> HIDE DEF s2, s
    <3> QED BY <2>1, <3>1, <3>2
  <2>3. CASE PeerRead(id)
    <3> DEFINE s2 == [s EXCEPT !.room = @ + 1]
    <3>1. sock' = [sock EXCEPT ![id] = s2] /\ s.room < Capacity
      BY <2>3 DEF PeerRead
    <3>2. s.room + 1 \in 0..Capacity
      BY <1>1, <3>1, ServerAssumption DEF Socket
    <3>3. /\ s2 \in Socket /\ s2.wire = s.wire /\ s2.fin = s.fin /\ s2.err = s.err
          /\ s2.peer = s.peer
      BY <1>1, <3>2 DEF Socket
    <3> HIDE DEF s2, s
    <3> QED BY <2>1, <3>1, <3>3
  <2>4. CASE PeerClose(id)
    <3> DEFINE s2 == [s EXCEPT !.peer = "closed"]
    <3>1. sock' = [sock EXCEPT ![id] = s2] /\ s.peer = "open"
      BY <2>4 DEF PeerClose
    <3>2. /\ s2 \in Socket /\ s2.wire = s.wire /\ s2.fin = s.fin /\ s2.err = s.err
          /\ s2.peer = "closed"
      BY <1>1 DEF Socket
    <3> HIDE DEF s2
    <3>3. Healthy(conn[id], s2)
      BY <1>1, <3>1, <3>2 DEF Healthy, InOrder
    <3> QED BY <3>1, <3>2, <3>3
  <2>5. ASSUME NEW err \in {"ECONNRESET", "ETIMEDOUT", "EPIPE"}, PeerVanish(id, err)
        PROVE  \E s2 \in Socket : sock' = [sock EXCEPT ![id] = s2] /\ Healthy(conn[id], s2)
    <3> DEFINE s2 == [s EXCEPT !.peer = "gone", !.err = err]
    <3>1. sock' = [sock EXCEPT ![id].peer = "gone", ![id].err = err]
      BY <2>5 DEF PeerVanish
    <3>2. sock' = [sock EXCEPT ![id] = s2]
      BY <1>1, <3>1
    <3>3. /\ s2 \in Socket /\ s2.wire = s.wire /\ s2.fin = s.fin /\ s2.err = err
          /\ s2.peer = "gone"
      BY <1>1 DEF Socket
    <3> HIDE DEF s2
    <3>4. Healthy(conn[id], s2)
      BY <1>1, <3>3 DEF Healthy, InOrder
    <3> QED BY <3>2, <3>3, <3>4
  <2> QED BY <2>2, <2>3, <2>4, <2>5
<1>4. PICK s2 \in Socket : sock' = [sock EXCEPT ![id] = s2] /\ Healthy(conn[id], s2)
  BY <1>3
<1>5. Heap'
  BY <1>2, <1>4, OneSocket
<1>6. Loop'
  BY <1>2, LoopKept, ServerAssumption DEF Heap
<1> QED BY <1>2, <1>5, <1>6 DEF Counters

LEMMA InvInit == Init => Inv
<1> SUFFICES ASSUME Init PROVE Inv
  OBVIOUS
<1>1. /\ DOMAIN conn = {} /\ DOMAIN sock = {} /\ DOMAIN channels = {} /\ DOMAIN interest = {}
      /\ DOMAIN active = {}
  BY DEF Init
<1>2. /\ connections = {} /\ held = {} /\ functors = {} /\ nextConnId = 1 /\ backlog = 0
      /\ loopAt = "poll" /\ active = <<>> /\ current = None /\ callback = "none" /\ sent = 0
  BY DEF Init
<1>3. /\ IsTable(conn, Ids, Connection) /\ IsTable(sock, Ids, Socket)
      /\ IsTable(channels, Fds, Ids)
      /\ IsTable(interest, Fds, [channel : Ids, events : SUBSET {"read", "write"}])
      /\ IsTable(active, {Listener} \cup Ids, SUBSET {"error", "read", "write"})
  BY <1>1 DEF Init, IsTable
<1>4. Heap
  BY <1>1, <1>2, <1>3, ServerAssumption DEF Heap
<1>5. Loop
  BY <1>1, <1>2, <1>3 DEF Loop
<1>6. killed \in BOOLEAN
  BY Zenon DEF Init
<1>7. Counters
  BY <1>2, <1>6, ServerAssumption DEF Counters
<1> QED BY <1>4, <1>5, <1>7 DEF Inv

LEMMA InvNext == Inv /\ [Next]_vars => Inv'
<1> SUFFICES ASSUME Inv, [Next]_vars PROVE Inv'
  OBVIOUS
<1>1. CASE LoopStep
  <2>1. CASE AcceptFails
    <3>1. /\ Handles(Listener, "read") /\ NoCallback(Listener)
          /\ UNCHANGED <<conn, sock, connections, held, nextConnId, channels, interest, backlog,
                         functors, killed, sent>>
      BY <2>1 DEF AcceptFails, Handles, connVars, tableVars
    <3>2. Heap'
      BY <3>1 DEF Inv, Heap
    <3>3. Loop'
      BY <3>1, HandlerKeeps DEF Inv
    <3> QED BY <3>1, <3>2, <3>3 DEF Inv, Counters
  <2>2. ASSUME NEW id \in DOMAIN conn, WriteEventKills(id)
        PROVE  Inv'
    BY <2>2 DEF WriteEventKills, Die, Inv, Heap, Loop, Counters, connVars, tableVars, eventVars
  <2> QED BY <1>1, <2>1, <2>2, PollInv, DoPendingFunctorsInv, AcceptInv, SocketHandlerInv,
             ReadEndInv, HandleWriteInv, ReturnInv DEF LoopStep
<1>2. ASSUME NEW id \in DOMAIN conn, SendKills(id)
      PROVE  Inv'
  BY <1>2 DEF SendKills, Die, Inv, Heap, Loop, Counters, connVars, tableVars, eventVars
<1>3. CASE PeerConnect
  <2>1. /\ UNCHANGED <<conn, sock, connections, held, nextConnId, channels, interest, loopAt,
                       active, current, callback, functors, killed, sent>>
        /\ backlog' = backlog + 1 /\ backlog + nextConnId <= MaxConnections
    BY <1>3 DEF PeerConnect, PeerStep, tableVars, eventVars
  <2>2. Heap'
    BY <2>1, ServerAssumption DEF Inv, Heap
  <2>3. Loop'
    BY <2>1, LoopKept, ServerAssumption DEF Inv, Heap, eventVars
  <2> QED BY <2>1, <2>2, <2>3 DEF Inv, Counters
<1>4. CASE UNCHANGED vars
  BY <1>4 DEF vars, connVars, tableVars, eventVars, Inv, Heap, Loop, Counters
<1> QED BY <1>1, <1>2, <1>3, <1>4, SendInv, ShutdownInv, PeerInv DEF Next

-----------------------------------------------------------------------------
\* Every variable keeps its type.
THEOREM ServerTypes == Spec => []TypeOK
<1>1. Inv => TypeOK
  <2> SUFFICES ASSUME Inv PROVE TypeOK
    OBVIOUS
  <2>1. \A id \in DOMAIN conn : conn[id].index = "added" <=> conn[id].events # {}
    BY DEF Inv, Heap, Healthy
  <2>2. /\ connections \subseteq Ids /\ held \subseteq Ids /\ functors \subseteq Ids
        /\ current \in {None, Listener} \cup Ids
    BY DEF Inv, Heap, Loop, IsTable
  <2>3. killed \in BOOLEAN /\ sent \in 0..MaxMessages
    BY DEF Inv, Counters
  <2>4. /\ IsTable(conn, Ids, Connection) /\ IsTable(sock, Ids, Socket)
        /\ DOMAIN sock = DOMAIN conn /\ nextConnId \in 1..(MaxConnections + 1)
        /\ IsTable(channels, Fds, Ids) /\ backlog \in 0..MaxConnections
        /\ IsTable(interest, Fds, [channel : Ids, events : SUBSET {"read", "write"}])
    BY DEF Inv, Heap
  <2>5. /\ loopAt \in {"poll", "events"}
        /\ IsTable(active, {Listener} \cup Ids, SUBSET {"error", "read", "write"})
        /\ callback \in {"none", "up", "message", "down"}
    BY DEF Inv, Loop
  <2> QED BY <2>1, <2>2, <2>3, <2>4, <2>5, Zenon DEF TypeOK
<1> QED BY <1>1, InvInit, InvNext, PTL DEF Spec

\* No event, functor or table ever leads to a connection that has been destroyed,
\* or, by way of a descriptor used again, to another than the one meant.
THEOREM PointersAlwaysLive == Spec => []PointersLive
<1>1. Inv => PointersLive
  BY DEF Inv, Heap, Loop, Healthy, PointersLive
<1> QED BY <1>1, InvInit, InvNext, PTL DEF Spec

\* Every stream arrives in order and without a gap, however the messages of the
\* application, the room in the socket and shutdown() interleave.
THEOREM StreamsInOrder == Spec => []StreamInOrder
<1>1. Inv => StreamInOrder
  BY DEF Inv, Heap, Healthy, InOrder, StreamInOrder
<1> QED BY <1>1, InvInit, InvNext, PTL DEF Spec

\* The loop never waits with a connection forgotten, or for the wrong events.
THEOREM AlwaysReadyToWait == Spec => []ReadyToWait
<1>1. Inv => ReadyToWait
  <2> SUFFICES ASSUME Inv, loopAt = "poll" PROVE
         /\ DOMAIN conn = connections /\ connections = held
         /\ \A id \in DOMAIN conn :
              LET k == conn[id] IN
              /\ k.events = IF k.output = <<>> THEN {"read"} ELSE {"read", "write"}
              /\ sock[id].fin <=> (k.state = "disconnecting" /\ k.output = <<>>)
    BY DEF ReadyToWait
  <2>1. functors = {} /\ \A id \in DOMAIN conn : conn[id].state # "disconnected"
    BY DEF Inv, Loop
  <2> QED BY <2>1 DEF Inv, Heap, Healthy
<1> QED BY <1>1, InvInit, InvNext, PTL DEF Spec

=============================================================================
