-------------------------- MODULE MatchQueueLemmas --------------------------
(***************************************************************************)
(* What join() and removeTicket() do to the three containers of the queue, *)
(* and what the two neighbours tryMatch looks at say of the others, for    *)
(* use in the proofs about the modules that call them.                     *)
(***************************************************************************)
EXTENDS MatchQueue, WellFoundedInduction, TLAPS

\* A non-empty set of naturals has a least element: the walks of tryMatch stop
\* at the least key, and load() looks for the largest id.
LEMMA LeastNatural ==
  ASSUME NEW T, T \subseteq Nat, T # {}
  PROVE  \E x \in T : \A y \in T : x <= y
<1>1. PICK x \in T : \A y \in T : ~(<<y, x>> \in OpToRel(<, Nat))
  BY NatLessThanWellFounded, WFMin
<1>2. \A y \in T : ~(y < x)
  BY <1>1 DEF OpToRel
<1> QED
  BY <1>2

\* MatchQueue::join of a new user keeps the queue well typed and the three
\* containers in agreement, and adds him alone.
LEMMA JoinAgrees ==
  ASSUME NEW users, NEW elos, NEW Q, IsMatchQueue(Q, users, elos), ContainersAgree(Q),
         NEW ticket \in Tickets(users, elos), ~IsQueued(Q, ticket.userId)
  PROVE  /\ IsMatchQueue(Join(Q, ticket), users, elos)
         /\ ContainersAgree(Join(Q, ticket))
<1> DEFINE T == Q.ticketsByUserId
           U == Put(T, ticket.userId, ticket)
<1>0. IsTable(T, users, Tickets(users, elos))
  BY DEF IsMatchQueue
<1>1. ticket.userId \in users
  BY DEF Tickets
<1>2. /\ IsTable(U, users, Tickets(users, elos))
      /\ DOMAIN U = DOMAIN T \cup {ticket.userId}
      /\ U[ticket.userId] = ticket
      /\ \A user \in DOMAIN T \ {ticket.userId} : U[user] = T[user]
  BY <1>0, <1>1 DEF Put, IsTable
<1>3. \A user \in DOMAIN T : U[user] = T[user]
  BY <1>2 DEF IsQueued
<1>4. Join(Q, ticket).ticketsByUserId = U
  BY DEF Join
<1>5. IsMatchQueue(Join(Q, ticket), users, elos)
  BY <1>2 DEF IsMatchQueue, Join, EloKey, WaitKey, Tickets
<1>6. \A user \in DOMAIN U : U[user].userId = user
  BY <1>2, <1>3 DEF ContainersAgree
<1>7. {U[user] : user \in DOMAIN U} = {T[user] : user \in DOMAIN T} \cup {ticket}
  BY <1>2, <1>3
<1>8. Join(Q, ticket).ticketsByElo = {EloKey(t) : t \in {U[user] : user \in DOMAIN U}}
  BY <1>7 DEF Join, ContainersAgree
<1>9. Join(Q, ticket).ticketsByWaitTime = {WaitKey(t) : t \in {U[user] : user \in DOMAIN U}}
  BY <1>7 DEF Join, ContainersAgree
<1> QED
  BY <1>4, <1>5, <1>6, <1>8, <1>9 DEF ContainersAgree

\* MatchQueue::removeTicket keeps the queue well typed and the three containers
\* in agreement, and removes the user alone.
LEMMA RemoveAgrees ==
  ASSUME NEW users, NEW elos, NEW Q, IsMatchQueue(Q, users, elos), ContainersAgree(Q),
         NEW user
  PROVE  LET R == RemoveTicket(Q, user) IN
         /\ IsMatchQueue(R, users, elos)
         /\ ContainersAgree(R)
         /\ DOMAIN R.ticketsByUserId = DOMAIN Q.ticketsByUserId \ {user}
         /\ \A other \in DOMAIN R.ticketsByUserId :
              R.ticketsByUserId[other] = Q.ticketsByUserId[other]
<1> DEFINE T == Q.ticketsByUserId
           U == Erase(T, user)
           R == RemoveTicket(Q, user)
<1>1. CASE ~IsQueued(Q, user)
  BY <1>1 DEF RemoveTicket, IsQueued
<1>2. CASE IsQueued(Q, user)
  <2>1. /\ IsTable(U, users, Tickets(users, elos))
        /\ DOMAIN U = DOMAIN T \ {user}
        /\ \A other \in DOMAIN T \ {user} : U[other] = T[other]
    <3>1. IsTable(T, users, Tickets(users, elos))
      BY DEF IsMatchQueue
    <3> QED
      BY <3>1 DEF Erase, Restrict, IsTable
  <2>2. R = [ticketsByUserId   |-> U,
             ticketsByElo      |-> Q.ticketsByElo \ {EloKey(T[user])},
             ticketsByWaitTime |-> Q.ticketsByWaitTime \ {WaitKey(T[user])}]
    BY <1>2 DEF RemoveTicket
  <2>3. IsMatchQueue(R, users, elos)
    BY <2>1, <2>2 DEF IsMatchQueue
  <2>4. \A other \in DOMAIN T : T[other].userId = other
    BY DEF ContainersAgree
  <2>5. \A other \in DOMAIN U : U[other].userId = other
    BY <2>1, <2>4
  <2>6. {EloKey(t) : t \in {U[other] : other \in DOMAIN U}}
          = {EloKey(t) : t \in {T[other] : other \in DOMAIN T}} \ {EloKey(T[user])}
    BY <1>2, <2>1, <2>4 DEF EloKey, IsQueued
  <2>7. {WaitKey(t) : t \in {U[other] : other \in DOMAIN U}}
          = {WaitKey(t) : t \in {T[other] : other \in DOMAIN T}} \ {WaitKey(T[user])}
    BY <1>2, <2>1, <2>4 DEF WaitKey, IsQueued
  <2>8. ContainersAgree(R)
    BY <2>2, <2>5, <2>6, <2>7 DEF ContainersAgree
  <2> QED
    BY <2>1, <2>2, <2>3, <2>8
<1> QED
  BY <1>1, <1>2

-----------------------------------------------------------------------------
(* The walk of tryMatch and the neighbours it looks at. *)

\* Both sets of keys are sorted: a key that is not another comes before or after it.
LEMMA KeysAreOrdered ==
  ASSUME NEW a \in Nat \X Nat, NEW b \in Nat \X Nat
  PROVE  /\ a # b => Precedes(a, b) \/ Precedes(b, a)
         /\ ~(Precedes(a, b) /\ Precedes(b, a)) /\ ~Precedes(a, a)
         /\ \A c \in Nat \X Nat : Precedes(a, b) /\ Precedes(b, c) => Precedes(a, c)
BY DEF Precedes

\* There is a first key.
LEMMA LeastKey ==
  ASSUME NEW S, S \subseteq Nat \X Nat, S # {}
  PROVE  \E m \in S : \A key \in S \ {m} : Precedes(m, key)
<1> DEFINE firsts == {key[1] : key \in S}
<1>1. firsts \subseteq Nat /\ firsts # {}
  OBVIOUS
<1> HIDE DEF firsts
<1>2. PICK x \in firsts : \A other \in firsts : x <= other
  BY <1>1, LeastNatural
<1> DEFINE seconds == {key[2] : key \in {key \in S : key[1] = x}}
<1>3. seconds \subseteq Nat /\ seconds # {}
  BY DEF firsts
<1> HIDE DEF seconds
<1>4. PICK y \in seconds : \A other \in seconds : y <= other
  BY <1>3, LeastNatural
<1>5. <<x, y>> \in S
  BY <1>4 DEF seconds
<1>6. ASSUME NEW key \in S \ {<<x, y>>}
      PROVE  Precedes(<<x, y>>, key)
  <2>1. x <= key[1] /\ (key[1] = x => y <= key[2]) /\ x \in Nat /\ y \in Nat
    BY <1>1, <1>2, <1>3, <1>4 DEF firsts, seconds
  <2>2. key \in Nat \X Nat /\ key # <<x, y>>
    OBVIOUS
  <2> QED  BY <2>1, <2>2 DEF Precedes
<1> QED
  BY <1>5, <1>6

\* And a last one, if the numbers in them are bounded.
LEMMA GreatestKey ==
  ASSUME NEW a \in Nat, NEW b \in Nat, NEW S, S \subseteq (0..a) \X (0..b), S # {}
  PROVE  \E m \in S : \A key \in S \ {m} : Precedes(key, m)
<1> DEFINE mirrored == {<<a - key[1], b - key[2]>> : key \in S}
<1>1. mirrored \subseteq Nat \X Nat /\ mirrored # {}
  <2>1. ASSUME NEW key \in S PROVE <<a - key[1], b - key[2]>> \in Nat \X Nat
    <3>1. key[1] \in 0..a /\ key[2] \in 0..b
      OBVIOUS
    <3> QED  BY <3>1
  <2> QED  BY <2>1
<1>2. \A key \in S : <<a - key[1], b - key[2]>> \in mirrored
  OBVIOUS
<1>3. \A image \in mirrored : \E key \in S : image = <<a - key[1], b - key[2]>>
  OBVIOUS
<1> HIDE DEF mirrored
<1>4. PICK image \in mirrored : \A other \in mirrored \ {image} : Precedes(image, other)
  BY <1>1, LeastKey
<1>5. PICK m \in S : image = <<a - m[1], b - m[2]>>
  BY <1>3
<1>6. ASSUME NEW key \in S \ {m}
      PROVE  Precedes(key, m)
  <2>1. key \in (0..a) \X (0..b) /\ m \in (0..a) \X (0..b) /\ key # m
    OBVIOUS
  <2>2. key[1] \in 0..a /\ key[2] \in 0..b /\ m[1] \in 0..a /\ m[2] \in 0..b
        /\ (key[1] # m[1] \/ key[2] # m[2])
    BY <2>1
  <2>3. <<a - key[1], b - key[2]>> # image
    BY <1>5, <2>2
  <2>4. Precedes(image, <<a - key[1], b - key[2]>>)
    BY <1>2, <1>4, <2>3
  <2> QED  BY <1>5, <2>2, <2>4 DEF Precedes
<1> QED
  BY <1>6

\* The numbers of those who wait are bounded, as they joined one by one.
IsBounded(Q) == \E last \in Nat : \A user \in DOMAIN Q.ticketsByUserId : user <= last

\* Of all who wait, one of the two neighbours of a player is nearest to him in ELO:
\* beyond the next key and before the previous one are only ELOs farther away.
LEMMA ANeighbourIsNearest ==
  ASSUME NEW users \in SUBSET Nat, NEW elos \in SUBSET Nat, NEW Q,
         IsMatchQueue(Q, users, elos), ContainersAgree(Q), IsBounded(Q),
         NEW first \in DOMAIN Q.ticketsByUserId,
         NEW user \in DOMAIN Q.ticketsByUserId, user # first
  PROVE  \E near \in DOMAIN Q.ticketsByUserId \ {first} :
           /\ \E key \in Neighbours(Q, EloKey(Q.ticketsByUserId[first])) : key[2] = near
           /\ eloDifference(Q.ticketsByUserId[first].elo, Q.ticketsByUserId[near].elo)
                <= eloDifference(Q.ticketsByUserId[first].elo, Q.ticketsByUserId[user].elo)
<1> DEFINE T == Q.ticketsByUserId
           K == Q.ticketsByElo
           own == EloKey(T[first])
           theirs == EloKey(T[user])
<1>1. /\ \A u \in DOMAIN T : /\ T[u].userId = u /\ u \in Nat /\ T[u].elo \in Nat
                             /\ EloKey(T[u]) \in K /\ EloKey(T[u]) = <<T[u].elo, u>>
      /\ \A key \in K : key \in Nat \X Nat /\ key[2] \in DOMAIN T /\ key = EloKey(T[key[2]])
  <2>1. \A u \in DOMAIN T : /\ T[u].userId = u /\ u \in Nat /\ T[u].elo \in Nat
                            /\ EloKey(T[u]) = <<T[u].elo, u>>
    BY DEF IsMatchQueue, IsTable, Tickets, ContainersAgree, EloKey
  <2>2. K = {EloKey(T[u]) : u \in DOMAIN T}
    BY DEF ContainersAgree
  <2> QED  BY <2>1, <2>2
<1>2. /\ own \in K /\ theirs \in K /\ own[2] = first /\ theirs[2] = user
      /\ own \in Nat \X Nat /\ theirs \in Nat \X Nat
      /\ own[1] = T[first].elo /\ theirs[1] = T[user].elo
  BY <1>1
<1> HIDE DEF own, theirs, K
\* Whichever key is nearest on the side of `user` belongs to the player looked for.
<1>3. ASSUME NEW m \in K \ {own}, m \in Neighbours(Q, own),
             eloDifference(own[1], m[1]) <= eloDifference(own[1], theirs[1])
      PROVE  \E near \in DOMAIN T \ {first} :
               /\ \E key \in Neighbours(Q, own) : key[2] = near
               /\ eloDifference(T[first].elo, T[near].elo)
                    <= eloDifference(T[first].elo, T[user].elo)
  <2>1. m[2] \in DOMAIN T \ {first} /\ m[1] = T[m[2]].elo
    <3>1. m[2] \in DOMAIN T /\ m = EloKey(T[m[2]]) /\ m = <<T[m[2]].elo, m[2]>>
      BY <1>1
    <3>2. m[2] # first
      BY <3>1 DEF own
    <3> QED  BY <3>1, <3>2
  <2> QED  BY <1>2, <1>3, <2>1
<1>4. CASE Precedes(own, theirs)
  <2> DEFINE after == {key \in K : Precedes(own, key)}
  <2>1. after \subseteq Nat \X Nat /\ theirs \in after
    BY <1>1, <1>2, <1>4
  <2>2. PICK m \in after : \A key \in after \ {m} : Precedes(m, key)
    <3> HIDE DEF after
    <3> QED  BY <2>1, LeastKey
  <2>3. m \in K /\ m \in Nat \X Nat /\ Precedes(own, m) /\ (m = theirs \/ Precedes(m, theirs))
    BY <2>1, <2>2
  <2>4. m # own /\ m \in Neighbours(Q, own)
    <3>1. m # own
      BY <1>2, <2>3, KeysAreOrdered
    <3>2. ASSUME NEW k \in K PROVE ~(Precedes(m, k) /\ Precedes(k, own))
      <4>1. k \in Nat \X Nat
        BY <1>1
      <4> QED  BY <1>2, <2>3, <4>1, KeysAreOrdered
    <3>3. ASSUME NEW k \in K PROVE ~(Precedes(own, k) /\ Precedes(k, m))
      <4>1. k \in Nat \X Nat /\ (Precedes(own, k) => k = m \/ Precedes(m, k))
        BY <1>1, <2>2
      <4> QED  BY <2>3, <4>1, KeysAreOrdered
    <3> QED  BY <2>3, <3>1, <3>2, <3>3 DEF Neighbours, K
  <2>5. eloDifference(own[1], m[1]) <= eloDifference(own[1], theirs[1])
    <3>1. own[1] <= m[1] /\ m[1] <= theirs[1] /\ own[1] \in Nat /\ m[1] \in Nat /\ theirs[1] \in Nat
      BY <1>2, <2>3 DEF Precedes
    <3> QED  BY <3>1 DEF eloDifference
  <2> QED  BY <1>3, <2>3, <2>4, <2>5 DEF own
<1>5. CASE Precedes(theirs, own)
  <2> DEFINE before == {key \in K : Precedes(key, own)}
  <2>1. before \subseteq Nat \X Nat /\ theirs \in before
    BY <1>1, <1>2, <1>5
  <2>2. PICK last \in Nat : \A u \in DOMAIN T : u <= last
    BY DEF IsBounded
  <2>3. before \subseteq (0..own[1]) \X (0..last)
    <3>1. ASSUME NEW key \in before PROVE key \in (0..own[1]) \X (0..last)
      <4>1. key \in Nat \X Nat /\ key[2] <= last /\ Precedes(key, own)
        BY <1>1, <2>2
      <4> QED  BY <1>2, <2>2, <4>1 DEF Precedes
    <3> QED  BY <3>1
  <2>4. PICK m \in before : \A key \in before \ {m} : Precedes(key, m)
    <3> HIDE DEF before
    <3>1. own[1] \in Nat
      BY <1>2
    <3> QED  BY <2>1, <2>2, <2>3, <3>1, GreatestKey
  <2>5. m \in K /\ m \in Nat \X Nat /\ Precedes(m, own) /\ (m = theirs \/ Precedes(theirs, m))
    BY <2>1, <2>4
  <2>6. m # own /\ m \in Neighbours(Q, own)
    <3>1. m # own
      BY <1>2, <2>5, KeysAreOrdered
    <3>2. ASSUME NEW k \in K PROVE ~(Precedes(own, k) /\ Precedes(k, m))
      <4>1. k \in Nat \X Nat
        BY <1>1
      <4> QED  BY <1>2, <2>5, <4>1, KeysAreOrdered
    <3>3. ASSUME NEW k \in K PROVE ~(Precedes(m, k) /\ Precedes(k, own))
      <4>1. k \in Nat \X Nat /\ (Precedes(k, own) => k = m \/ Precedes(k, m))
        BY <1>1, <2>4
      <4> QED  BY <2>5, <4>1, KeysAreOrdered
    <3> QED  BY <2>5, <3>1, <3>2, <3>3 DEF Neighbours, K
  <2>7. eloDifference(own[1], m[1]) <= eloDifference(own[1], theirs[1])
    <3>1. m[1] <= own[1] /\ theirs[1] <= m[1] /\ own[1] \in Nat /\ m[1] \in Nat /\ theirs[1] \in Nat
      BY <1>2, <2>5 DEF Precedes
    <3> QED  BY <3>1 DEF eloDifference
  <2> QED  BY <1>3, <2>5, <2>6, <2>7 DEF own
<1> QED
  <2>1. own # theirs
    BY <1>2
  <2> QED  BY <1>2, <1>4, <1>5, <2>1, KeysAreOrdered

=============================================================================
