----------------------------- MODULE StorageProofs -----------------------------
(***************************************************************************)
(* What the program leaves behind: the account file, for any names, ids    *)
(* and ELOs, however many system calls fail and however often the process  *)
(* dies; and the log, for any interleaving of the threads that write it.   *)
(***************************************************************************)
EXTENDS AccountRepository, AsyncLogging, SequenceTheorems, NaturalsInduction, WellFoundedInduction,
        TLAPS

InFile == Contents(file)

WithElos(table, first, firstElo, second, secondElo) ==
  [table EXCEPT ![first].elo = firstElo, ![second].elo = secondElo]

\* No two accounts have one id.
UniqueIds(table) ==
  \A name, other \in DOMAIN table : table[name].userId = table[other].userId => name = other

\* The operation under way: what it has made of the table in memory, by what the
\* file says, and what it keeps to take that back.
Registering ==
  /\ op.kind = "register" /\ op = [kind |-> "register", name |-> op.name]
  /\ op.name \in Names

Updating ==
  /\ op.kind = "update"
  /\ op = [kind |-> "update", first |-> op.first, second |-> op.second,
           oldFirst |-> op.oldFirst, oldSecond |-> op.oldSecond]
  /\ op.first # op.second

RegisterUnsaved ==
  /\ Registering
  /\ op.name \notin DOMAIN InFile
  /\ nextUserId # 0
  /\ accounts = Put(InFile, op.name, [userId |-> nextUserId, elo |-> kInitialElo])

UpdateUnsaved ==
  /\ Updating
  /\ {op.first, op.second} \subseteq DOMAIN InFile
  /\ \E firstElo, secondElo \in Elos :
       accounts = WithElos(InFile, op.first, firstElo, op.second, secondElo)
  /\ op.oldFirst = InFile[op.first].elo /\ op.oldSecond = InFile[op.second].elo

\* While save() runs, and after it has failed, the file is as it was.
Unsaved == RegisterUnsaved \/ UpdateUnsaved

\* After the rename the file is the table in memory, and only the next id is behind.
Saved ==
  /\ accounts = InFile
  /\ \/ /\ Registering
        /\ op.name \in DOMAIN accounts
        /\ nextUserId = accounts[op.name].userId
        /\ NextUserId(InFile) = IF nextUserId = MaxUserId THEN 0 ELSE nextUserId + 1
     \/ Updating /\ nextUserId = NextUserId(InFile)

\* The temporary file holds the records written so far.
Partial ==
  /\ unwritten \subseteq DOMAIN accounts
  /\ tmp # NoFile
  /\ DOMAIN tmp = DOMAIN accounts \ unwritten
  /\ \A name \in DOMAIN tmp : tmp[name] = accounts[name]

Progress ==
  /\ pc \in {"opening", "writing", "renaming", "failed"} => Unsaved /\ nextUserId = NextUserId(InFile)
  /\ pc = "idle" => accounts = InFile /\ nextUserId = NextUserId(InFile)
  /\ pc = "writing" /\ good => Partial
  /\ pc = "renaming" => tmp = accounts
  /\ pc = "saved" => Saved

Told ==
  \A name \in DOMAIN told : name \in DOMAIN InFile /\ InFile[name].userId = told[name]

StoreInv == TypeOK /\ UniqueIds(InFile) /\ Progress /\ Told

-----------------------------------------------------------------------------
(* Tables and the next id. *)

\* A table without keys is the empty one.
LEMMA EmptyTable ==
  ASSUME NEW table, NEW keys, NEW values, IsTable(table, keys, values)
  PROVE  table = <<>> <=> DOMAIN table = {}
BY DEF IsTable

\* A set of numbers that is not empty and has a bound has a greatest member.
LEMMA GreatestNatural ==
  ASSUME NEW S, NEW bound \in Nat, S \subseteq 0..bound, S # {}
  PROVE  \E x \in S : \A y \in S : y <= x
<1> DEFINE mirrored == {bound - x : x \in S}
<1>1. mirrored \subseteq Nat /\ mirrored # {}
  <2>1. \A x \in S : bound - x \in Nat
    OBVIOUS
  <2> QED  BY <2>1
<1>2. PICK least \in mirrored : \A y \in mirrored : ~(<<y, least>> \in OpToRel(<, Nat))
  BY <1>1, NatLessThanWellFounded, WFMin
<1>3. PICK x \in S : least = bound - x
  BY <1>2
<1>4. ASSUME NEW y \in S PROVE y <= x
  <2>1. bound - y \in mirrored
    OBVIOUS
  <2>2. ~(bound - y < least)
    BY <1>1, <1>2, <2>1 DEF OpToRel
  <2> QED  BY <1>3, <2>2
<1> QED
  BY <1>4

\* The ids of a table are ids, and it has some unless it is empty.
LEMMA IdsTyped ==
  ASSUME NEW table, IsTable(table, Names, Accounts)
  PROVE  /\ IdsOf(table) \subseteq 1..MaxUserId
         /\ IdsOf(table) = {} <=> table = <<>>
<1>1. \A name \in DOMAIN table : table[name].userId \in 1..MaxUserId
  BY DEF IsTable, Accounts
<1>2. IdsOf(table) = {} <=> DOMAIN table = {}
  BY DEF IdsOf
<1> QED
  BY <1>1, <1>2, EmptyTable DEF IdsOf

\* The greatest id of a table that has one.
LEMMA LastId ==
  ASSUME NEW table, IsTable(table, Names, Accounts), table # <<>>
  PROVE  LET last == CHOOSE id \in IdsOf(table) : \A other \in IdsOf(table) : other <= id
         IN  last \in IdsOf(table) /\ \A other \in IdsOf(table) : other <= last
<1>1. IdsOf(table) \subseteq 0..MaxUserId /\ IdsOf(table) # {}
  BY IdsTyped, RepositoryAssumption
<1>2. \E x \in IdsOf(table) : \A y \in IdsOf(table) : y <= x
  BY <1>1, GreatestNatural, RepositoryAssumption
<1> QED
  BY <1>2

\* The id load() goes on with is one that no record has, or 0.
LEMMA NextUserIdIsNew ==
  ASSUME NEW table, IsTable(table, Names, Accounts)
  PROVE  /\ NextUserId(table) \in 0..MaxUserId
         /\ NextUserId(table) # 0 => \A id \in IdsOf(table) : id < NextUserId(table)
         /\ NextUserId(table) \notin IdsOf(table)
<1> USE RepositoryAssumption, IdsTyped
<1>1. CASE MaxUserId \in IdsOf(table)
  BY <1>1 DEF NextUserId
<1>2. CASE table = <<>>
  <2>1. IdsOf(table) = {}
    BY <1>2
  <2>2. NextUserId(table) = 1
    BY <1>2, <2>1 DEF NextUserId
  <2> QED  BY <2>1, <2>2
<1>3. CASE MaxUserId \notin IdsOf(table) /\ table # <<>>
  <2> DEFINE last == CHOOSE id \in IdsOf(table) : \A other \in IdsOf(table) : other <= id
  <2>1. last \in IdsOf(table) /\ \A other \in IdsOf(table) : other <= last
    BY <1>3, LastId
  <2>2. NextUserId(table) = 1 + last
    BY <1>3 DEF NextUserId
  <2> HIDE DEF last
  <2>3. last \in 1..MaxUserId /\ last # MaxUserId
    BY <1>3, <2>1
  <2> QED  BY <2>1, <2>2, <2>3
<1> QED
  BY <1>1, <1>2, <1>3

\* It depends on the ids alone.
LEMMA SameIdsSameNext ==
  ASSUME NEW table, IsTable(table, Names, Accounts),
         NEW changed, IsTable(changed, Names, Accounts), IdsOf(changed) = IdsOf(table)
  PROVE  NextUserId(changed) = NextUserId(table)
<1>1. changed = <<>> <=> table = <<>>
  BY IdsTyped
<1> QED
  BY <1>1 DEF NextUserId

\* After a registration under it, the next one is one more, or 0 after the last.
LEMMA NextAfterRegister ==
  ASSUME NEW table, IsTable(table, Names, Accounts), NextUserId(table) # 0,
         NEW changed, IsTable(changed, Names, Accounts),
         IdsOf(changed) = IdsOf(table) \cup {NextUserId(table)}
  PROVE  NextUserId(changed) =
           IF NextUserId(table) = MaxUserId THEN 0 ELSE NextUserId(table) + 1
<1> DEFINE n == NextUserId(table)
<1>1. n \in 1..MaxUserId /\ \A id \in IdsOf(table) : id < n
  BY NextUserIdIsNew, RepositoryAssumption
<1> HIDE DEF n
<1>2. changed # <<>>
  BY IdsTyped DEF n
<1>3. IdsOf(changed) = IdsOf(table) \cup {n} /\ IdsOf(table) \subseteq 1..MaxUserId
  BY IdsTyped DEF n
<1>4. CASE n = MaxUserId
  <2>1. NextUserId(changed) = 0
    BY <1>2, <1>3, <1>4 DEF NextUserId
  <2> QED  BY <1>4, <2>1 DEF n
<1>5. CASE n # MaxUserId
  <2> DEFINE last == CHOOSE id \in IdsOf(changed) : \A other \in IdsOf(changed) : other <= id
  <2>1. last \in IdsOf(changed) /\ \A other \in IdsOf(changed) : other <= last
    BY <1>2, LastId
  <2>2. MaxUserId \notin IdsOf(changed)
    BY <1>1, <1>3, <1>5, RepositoryAssumption
  <2>3. NextUserId(changed) = 1 + last
    BY <1>2, <2>2 DEF NextUserId
  <2> HIDE DEF last
  <2>4. last = n
    BY <1>1, <1>3, <2>1, RepositoryAssumption
  <2>5. NextUserId(changed) = n + 1
    BY <1>1, <2>3, <2>4, RepositoryAssumption
  <2> QED  BY <1>5, <2>5 DEF n
<1> QED
  BY <1>4, <1>5

-----------------------------------------------------------------------------
(* Changes of a table. *)

\* `changed` is the table with one more name, under the next id.
AddsOne(table, name, changed) ==
  /\ name \in Names /\ name \notin DOMAIN table
  /\ NextUserId(table) # 0
  /\ changed = Put(table, name, [userId |-> NextUserId(table), elo |-> kInitialElo])

\* A registration under the next id: the old records stay, ids stay apart.
LEMMA RegisterTable ==
  ASSUME NEW table, IsTable(table, Names, Accounts), UniqueIds(table),
         NEW name, NEW changed, AddsOne(table, name, changed)
  PROVE  /\ IsTable(changed, Names, Accounts) /\ UniqueIds(changed)
         /\ DOMAIN changed = DOMAIN table \cup {name}
         /\ changed[name] = [userId |-> NextUserId(table), elo |-> kInitialElo]
         /\ \A other \in DOMAIN table : changed[other] = table[other]
         /\ IdsOf(changed) = IdsOf(table) \cup {NextUserId(table)}
         /\ Erase(changed, name) = table
<1> DEFINE n == NextUserId(table)
<1>1. n \in 1..MaxUserId /\ n \notin IdsOf(table)
  BY NextUserIdIsNew, RepositoryAssumption DEF AddsOne
<1> HIDE DEF n
<1>2. /\ DOMAIN changed = DOMAIN table \cup {name}
      /\ changed[name] = [userId |-> n, elo |-> kInitialElo]
      /\ \A other \in DOMAIN table : changed[other] = table[other]
  BY DEF AddsOne, Put, n
<1>3. IsTable(changed, Names, Accounts)
  <2>1. \A other \in DOMAIN changed : changed[other] \in Accounts
    BY <1>1, <1>2, RepositoryAssumption DEF IsTable, Accounts
  <2>2. changed = [k \in DOMAIN changed |-> changed[k]]
    BY DEF AddsOne, Put
  <2> QED  BY <1>2, <2>1, <2>2 DEF IsTable, AddsOne
<1>4. \A other \in DOMAIN table : table[other].userId # n
  BY <1>1 DEF IdsOf
<1>5. UniqueIds(changed)
  BY <1>2, <1>4 DEF UniqueIds
<1>6. IdsOf(changed) = IdsOf(table) \cup {n}
  BY <1>2 DEF IdsOf
<1>7. Erase(changed, name) = table
  <2>1. DOMAIN changed \ {name} = DOMAIN table
    BY <1>2 DEF AddsOne
  <2>2. table = [k \in DOMAIN table |-> table[k]]
    BY DEF IsTable
  <2>3. Erase(changed, name) = [k \in DOMAIN table |-> changed[k]]
    BY <2>1 DEF Erase, Restrict
  <2> QED  BY <1>2, <2>2, <2>3
<1> QED
  BY <1>2, <1>3, <1>5, <1>6, <1>7 DEF n

\* An update of the ELOs of two accounts, account by account.
LEMMA TwoElos ==
  ASSUME NEW table, NEW first \in DOMAIN table, NEW second \in DOMAIN table, first # second,
         NEW firstElo, NEW secondElo
  PROVE  WithElos(table, first, firstElo, second, secondElo) =
           [k \in DOMAIN table |-> IF k = first THEN [table[k] EXCEPT !.elo = firstElo]
                                  ELSE IF k = second THEN [table[k] EXCEPT !.elo = secondElo]
                                  ELSE table[k]]
BY DEF WithElos

\* Two tables that differ in the ELOs of two accounts at most.
DifferInElos(changed, table, first, second) ==
  /\ DOMAIN changed = DOMAIN table
  /\ \A k \in DOMAIN table :
       IF k \in {first, second}
         THEN \E elo : changed[k] = [userId |-> table[k].userId, elo |-> elo]
         ELSE changed[k] = table[k]

\* Writing the old ELOs back gives the old table.
LEMMA ElosBack ==
  ASSUME NEW table, IsTable(table, Names, Accounts), NEW changed,
         NEW first \in DOMAIN table, NEW second \in DOMAIN table, first # second,
         DifferInElos(changed, table, first, second)
  PROVE  WithElos(changed, first, table[first].elo, second, table[second].elo) = table
<1> DEFINE back == WithElos(changed, first, table[first].elo, second, table[second].elo)
<1>1. back = [k \in DOMAIN changed |->
                IF k = first THEN [changed[k] EXCEPT !.elo = table[first].elo]
                ELSE IF k = second THEN [changed[k] EXCEPT !.elo = table[second].elo]
                ELSE changed[k]]
  BY TwoElos DEF DifferInElos
<1> HIDE DEF back
<1>2. /\ table = [k \in DOMAIN table |-> table[k]]
      /\ \A k \in DOMAIN table :
           table[k] = [userId |-> table[k].userId, elo |-> table[k].elo]
  BY DEF IsTable, Accounts
<1>3. /\ [changed[first] EXCEPT !.elo = table[first].elo] = table[first]
      /\ [changed[second] EXCEPT !.elo = table[second].elo] = table[second]
      /\ \A k \in DOMAIN table \ {first, second} : changed[k] = table[k]
  BY <1>2 DEF DifferInElos
<1>4. \A k \in DOMAIN table : back[k] = table[k]
  BY <1>1, <1>3 DEF DifferInElos
<1>5. back = [k \in DOMAIN table |-> back[k]]
  BY <1>1 DEF DifferInElos
<1> QED
  BY <1>2, <1>4, <1>5 DEF back

\* New ELOs for two accounts: ids stay as they are, and so do the others; with the
\* old ELOs it is the old table.
LEMMA UpdateTable ==
  ASSUME NEW table, IsTable(table, Names, Accounts),
         NEW first \in DOMAIN table, NEW second \in DOMAIN table, first # second,
         NEW firstElo \in Elos, NEW secondElo \in Elos, NEW changed,
         changed = WithElos(table, first, firstElo, second, secondElo)
  PROVE  /\ IsTable(changed, Names, Accounts)
         /\ DOMAIN changed = DOMAIN table
         /\ changed[first].elo = firstElo /\ changed[second].elo = secondElo
         /\ \A other \in DOMAIN table :
              /\ changed[other].userId = table[other].userId
              /\ other \notin {first, second} => changed[other] = table[other]
         /\ IdsOf(changed) = IdsOf(table)
         /\ UniqueIds(table) => UniqueIds(changed)
         /\ WithElos(changed, first, table[first].elo, second, table[second].elo) = table
<1>1. \A other \in DOMAIN table :
        table[other] = [userId |-> table[other].userId, elo |-> table[other].elo]
  BY DEF IsTable, Accounts
<1>2. table = [k \in DOMAIN table |-> table[k]]
  BY DEF IsTable
<1>3. changed = [k \in DOMAIN table |->
                   IF k = first THEN [userId |-> table[k].userId, elo |-> firstElo]
                   ELSE IF k = second THEN [userId |-> table[k].userId, elo |-> secondElo]
                   ELSE table[k]]
  <2>1. \A other \in DOMAIN table, elo \in Elos :
          [table[other] EXCEPT !.elo = elo] = [userId |-> table[other].userId, elo |-> elo]
    BY <1>1
  <2>2. changed = [k \in DOMAIN table |->
                     IF k = first THEN [table[k] EXCEPT !.elo = firstElo]
                     ELSE IF k = second THEN [table[k] EXCEPT !.elo = secondElo]
                     ELSE table[k]]
    BY TwoElos
  <2> QED  BY <2>1, <2>2
<1>4. /\ DOMAIN changed = DOMAIN table
      /\ changed[first] = [userId |-> table[first].userId, elo |-> firstElo]
      /\ changed[second] = [userId |-> table[second].userId, elo |-> secondElo]
      /\ \A other \in DOMAIN table \ {first, second} : changed[other] = table[other]
  BY <1>3
<1>5. \A other \in DOMAIN table : changed[other].userId = table[other].userId
  BY <1>3
<1>6. IsTable(changed, Names, Accounts)
  <2>1. \A other \in DOMAIN table : changed[other] \in Accounts
    BY <1>4 DEF IsTable, Accounts
  <2> QED  BY <1>3, <1>4, <2>1 DEF IsTable
<1>7. IdsOf(changed) = IdsOf(table)
  BY <1>4, <1>5 DEF IdsOf
<1>8. UniqueIds(table) => UniqueIds(changed)
  BY <1>4, <1>5 DEF UniqueIds
<1>9. WithElos(changed, first, table[first].elo, second, table[second].elo) = table
  <2>1. DifferInElos(changed, table, first, second)
    BY <1>4 DEF DifferInElos
  <2> QED  BY <2>1, ElosBack
<1> QED
  BY <1>4, <1>5, <1>6, <1>7, <1>8, <1>9

-----------------------------------------------------------------------------
(* The steps. *)

\* What load() would find is a table, whether or not there is a file.
LEMMA InFileTyped ==
  ASSUME TypeOK
  PROVE  IsTable(InFile, Names, Accounts)
<1>1. IsTable(<<>>, Names, Accounts)
  BY DEF IsTable
<1> QED
  BY <1>1 DEF InFile, Contents, TypeOK

\* A table is not the sign for a missing file.
LEMMA TableIsAFile ==
  ASSUME NEW table, IsTable(table, Names, Accounts)
  PROVE  Contents(table) = table
BY RepositoryAssumption DEF IsTable, Contents

\* The table that save() writes: what the file will say when it has, and what memory
\* goes back to when it has not.
LEMMA UnsavedTable ==
  ASSUME StoreInv, Unsaved, nextUserId = NextUserId(InFile)
  PROVE  /\ IsTable(accounts, Names, Accounts) /\ UniqueIds(accounts)
         /\ \A name \in DOMAIN InFile :
              name \in DOMAIN accounts /\ accounts[name].userId = InFile[name].userId
         /\ RolledBack = InFile
         /\ RegisterUnsaved =>
              /\ op.name \in DOMAIN accounts
              /\ nextUserId = accounts[op.name].userId
              /\ NextUserId(accounts) = IF nextUserId = MaxUserId THEN 0 ELSE nextUserId + 1
         /\ UpdateUnsaved => NextUserId(accounts) = nextUserId
<1>1. IsTable(InFile, Names, Accounts) /\ UniqueIds(InFile)
  BY InFileTyped DEF StoreInv
<1>2. ~(RegisterUnsaved /\ UpdateUnsaved)
  BY DEF RegisterUnsaved, UpdateUnsaved, Registering, Updating
<1>3. CASE RegisterUnsaved
  <2>1. /\ op.kind = "register" /\ op.name \in Names /\ op.name \notin DOMAIN InFile
        /\ NextUserId(InFile) # 0
        /\ accounts = Put(InFile, op.name, [userId |-> NextUserId(InFile), elo |-> kInitialElo])
    BY <1>3 DEF RegisterUnsaved, Registering
  <2>2. /\ IsTable(accounts, Names, Accounts) /\ UniqueIds(accounts)
        /\ DOMAIN accounts = DOMAIN InFile \cup {op.name}
        /\ accounts[op.name] = [userId |-> NextUserId(InFile), elo |-> kInitialElo]
        /\ \A other \in DOMAIN InFile : accounts[other] = InFile[other]
        /\ IdsOf(accounts) = IdsOf(InFile) \cup {NextUserId(InFile)}
        /\ Erase(accounts, op.name) = InFile
    <3>1. AddsOne(InFile, op.name, accounts)
      BY <2>1 DEF AddsOne
    <3> QED  BY <1>1, <3>1, RegisterTable
  <2>3. NextUserId(accounts) = IF nextUserId = MaxUserId THEN 0 ELSE nextUserId + 1
    BY <1>1, <2>1, <2>2, NextAfterRegister
  <2>4. RolledBack = InFile
    BY <2>1, <2>2 DEF RolledBack
  <2> QED  BY <1>2, <1>3, <2>2, <2>3, <2>4
<1>4. CASE UpdateUnsaved
  <2>1. /\ op.kind = "update" /\ op.first \in DOMAIN InFile /\ op.second \in DOMAIN InFile
        /\ op.first # op.second
        /\ op.oldFirst = InFile[op.first].elo /\ op.oldSecond = InFile[op.second].elo
    BY <1>4 DEF UpdateUnsaved, Updating
  <2>2. PICK firstElo \in Elos, secondElo \in Elos :
          accounts = WithElos(InFile, op.first, firstElo, op.second, secondElo)
    BY <1>4 DEF UpdateUnsaved
  <2>3. /\ IsTable(accounts, Names, Accounts)
        /\ DOMAIN accounts = DOMAIN InFile
        /\ \A other \in DOMAIN InFile : accounts[other].userId = InFile[other].userId
        /\ IdsOf(accounts) = IdsOf(InFile)
        /\ UniqueIds(InFile) => UniqueIds(accounts)
        /\ WithElos(accounts, op.first, InFile[op.first].elo, op.second, InFile[op.second].elo)
             = InFile
    BY <1>1, <2>1, <2>2, UpdateTable
  <2>4. NextUserId(accounts) = nextUserId
    BY <1>1, <2>3, SameIdsSameNext
  <2>5. RolledBack = WithElos(accounts, op.first, op.oldFirst, op.second, op.oldSecond)
    BY <2>1 DEF RolledBack, WithElos
  <2>6. RolledBack = InFile
    BY <2>1, <2>3, <2>5
  <2> QED  BY <1>1, <1>2, <1>4, <2>3, <2>4, <2>6
<1> QED
  BY <1>3, <1>4 DEF Unsaved

LEMMA StoreInit == Init => StoreInv
<1> SUFFICES ASSUME Init PROVE StoreInv
  OBVIOUS
<1>1. IsTable(<<>>, Names, Accounts) /\ IsTable(<<>>, Names, 1..MaxUserId)
  BY DEF IsTable
<1>2. InFile = <<>> /\ told = <<>>
  BY DEF Init, InFile, Contents
<1>3. TypeOK
  BY <1>1, RepositoryAssumption DEF Init, TypeOK, Places
<1>4. UniqueIds(InFile) /\ Told
  BY <1>2 DEF UniqueIds, Told
<1>5. Progress
  BY DEF Init, Progress
<1> QED
  BY <1>3, <1>4, <1>5 DEF StoreInv

\* As long as neither the file nor what was told changes, only Progress is at stake.
LEMMA FileUntouched ==
  ASSUME StoreInv, UNCHANGED <<file, told>>, TypeOK', Progress'
  PROVE  StoreInv'
<1>1. InFile' = InFile
  BY DEF InFile
<1>2. UniqueIds(InFile)' /\ Told'
  BY <1>1 DEF StoreInv, UniqueIds, Told
<1> QED
  BY <1>2 DEF StoreInv

LEMMA LoadKeeps ==
  ASSUME StoreInv, Load
  PROVE  StoreInv'
<1>1. InFile' = InFile /\ UNCHANGED <<file, told>>
  BY DEF Load, InFile
<1>2. IsTable(InFile, Names, Accounts) /\ NextUserId(InFile) \in 0..MaxUserId
  BY InFileTyped, NextUserIdIsNew DEF StoreInv
<1>3. TypeOK'
  BY <1>2 DEF StoreInv, TypeOK, Load, Places, InFile
<1>4. Progress'
  BY <1>1 DEF Progress, Load, InFile
<1> QED
  BY <1>1, <1>3, <1>4, FileUntouched

LEMMA RegisterKeeps ==
  ASSUME StoreInv, NEW name \in Names, Register(name)
  PROVE  StoreInv'
<1>1. InFile' = InFile /\ UNCHANGED <<file, told>>
  BY DEF Register, InFile
<1>2. accounts = InFile /\ nextUserId = NextUserId(InFile)
  BY DEF StoreInv, Progress, Register
<1>3. Unsaved' /\ (nextUserId = NextUserId(InFile))'
  <2>1. RegisterUnsaved'
    BY <1>1, <1>2 DEF Register, RegisterUnsaved, Registering
  <2> QED  BY <1>1, <1>2, <2>1 DEF Unsaved, Register
<1>4. IsTable(accounts', Names, Accounts)
  <2>1. IsTable(InFile, Names, Accounts) /\ UniqueIds(InFile)
    BY InFileTyped DEF StoreInv
  <2>2. /\ name \notin DOMAIN InFile /\ NextUserId(InFile) # 0
        /\ accounts' = Put(InFile, name, [userId |-> NextUserId(InFile), elo |-> kInitialElo])
    BY <1>2 DEF Register
  <2>3. AddsOne(InFile, name, accounts')
    BY <2>2 DEF AddsOne
  <2> QED  BY <2>1, <2>3, RegisterTable
<1>5. TypeOK'
  BY <1>4 DEF StoreInv, TypeOK, Register, Places
<1>6. Progress'
  BY <1>3 DEF Progress, Register
<1> QED
  BY <1>1, <1>5, <1>6, FileUntouched

LEMMA UpdateKeeps ==
  ASSUME StoreInv, NEW first \in Names, NEW second \in Names,
         NEW firstElo \in Elos, NEW secondElo \in Elos,
         UpdateEloPair(first, second, firstElo, secondElo)
  PROVE  StoreInv'
<1>1. InFile' = InFile /\ UNCHANGED <<file, told>>
  BY DEF UpdateEloPair, InFile
<1>2. accounts = InFile /\ nextUserId = NextUserId(InFile)
  BY DEF StoreInv, Progress, UpdateEloPair
<1>3. /\ first # second /\ first \in DOMAIN InFile /\ second \in DOMAIN InFile
      /\ accounts' = WithElos(InFile, first, firstElo, second, secondElo)
      /\ op' = [kind |-> "update", first |-> first, second |-> second,
                oldFirst |-> InFile[first].elo, oldSecond |-> InFile[second].elo]
  BY <1>2 DEF UpdateEloPair, WithElos
<1>4. Unsaved' /\ (nextUserId = NextUserId(InFile))'
  <2>1. Updating'
    BY <1>3 DEF Updating
  <2>2. UpdateUnsaved'
    BY <1>1, <1>3, <2>1 DEF UpdateUnsaved
  <2> QED  BY <1>1, <1>2, <2>2 DEF Unsaved, UpdateEloPair
<1>5. IsTable(accounts', Names, Accounts)
  <2>1. IsTable(InFile, Names, Accounts)
    BY InFileTyped DEF StoreInv
  <2> QED  BY <1>3, <2>1, UpdateTable
<1>6. TypeOK'
  BY <1>5 DEF StoreInv, TypeOK, UpdateEloPair, Places
<1>7. Progress'
  BY <1>4 DEF Progress, UpdateEloPair
<1> QED
  BY <1>1, <1>6, <1>7, FileUntouched

\* A step of save() that leaves the table, the file and the operation alone.
SaveStep == UNCHANGED <<accounts, nextUserId, op, file, told>>

LEMMA SaveStepKeeps ==
  ASSUME SaveStep, Unsaved, nextUserId = NextUserId(InFile)
  PROVE  Unsaved' /\ (nextUserId = NextUserId(InFile))'
BY DEF SaveStep, Unsaved, RegisterUnsaved, UpdateUnsaved, Registering, Updating, InFile

LEMMA OpenTempKeeps ==
  ASSUME StoreInv, OpenTemp
  PROVE  StoreInv'
<1>1. SaveStep /\ Unsaved /\ nextUserId = NextUserId(InFile)
  BY DEF StoreInv, Progress, OpenTemp, SaveStep
<1>2. Unsaved' /\ (nextUserId = NextUserId(InFile))'
  BY <1>1, SaveStepKeeps
<1>3. IsTable(<<>>, Names, Accounts) /\ DOMAIN <<>> = {}
  BY DEF IsTable
<1>4. <<>> # NoFile
  BY <1>3, RepositoryAssumption DEF IsTable
<1>5. CASE pc' = "failed" /\ UNCHANGED <<tmp, unwritten, good>>
  <2>1. TypeOK'
    BY <1>1, <1>5 DEF StoreInv, TypeOK, SaveStep, Places
  <2>2. Progress'
    BY <1>2, <1>5 DEF Progress
  <2> QED  BY <1>1, <2>1, <2>2, FileUntouched DEF SaveStep
<1>6. CASE tmp' = <<>> /\ unwritten' = DOMAIN accounts /\ good' = TRUE /\ pc' = "writing"
  <2>1. TypeOK'
    BY <1>1, <1>3, <1>6 DEF StoreInv, TypeOK, SaveStep, Places, IsTable
  <2>2. Partial'
    BY <1>1, <1>3, <1>4, <1>6 DEF Partial, SaveStep
  <2>3. Progress'
    BY <1>2, <1>6, <2>2 DEF Progress
  <2> QED  BY <1>1, <2>1, <2>3, FileUntouched DEF SaveStep
<1> QED
  BY <1>5, <1>6 DEF OpenTemp

LEMMA WriteRecordKeeps ==
  ASSUME StoreInv, NEW name \in Names, WriteRecord(name)
  PROVE  StoreInv'
<1>1. SaveStep /\ Unsaved /\ nextUserId = NextUserId(InFile) /\ Partial
  BY DEF StoreInv, Progress, WriteRecord, SaveStep
<1>2. Unsaved' /\ (nextUserId = NextUserId(InFile))'
  BY <1>1, SaveStepKeeps
<1>3. /\ name \in DOMAIN accounts /\ IsTable(accounts, Names, Accounts)
      /\ IsTable(tmp, Names, Accounts)
  BY <1>1 DEF StoreInv, TypeOK, Partial, WriteRecord
<1>4. /\ DOMAIN tmp' = DOMAIN tmp \cup {name}
      /\ tmp'[name] = accounts[name]
      /\ \A other \in DOMAIN tmp \ {name} : tmp'[other] = tmp[other]
      /\ tmp' = [k \in DOMAIN tmp' |-> tmp'[k]]
  BY DEF WriteRecord, Put
<1>5. IsTable(tmp', Names, Accounts)
  <2>1. \A k \in DOMAIN tmp' : tmp'[k] \in Accounts
    BY <1>3, <1>4 DEF IsTable
  <2> QED  BY <1>3, <1>4, <2>1 DEF IsTable
<1>6. TypeOK'
  BY <1>1, <1>5 DEF StoreInv, TypeOK, SaveStep, WriteRecord
<1>7. Partial'
  <2>1. tmp' # NoFile
    BY <1>5, RepositoryAssumption DEF IsTable
  <2> QED  BY <1>1, <1>3, <1>4, <2>1 DEF Partial, SaveStep, WriteRecord
<1>8. Progress'
  BY <1>2, <1>7 DEF Progress, WriteRecord
<1> QED
  BY <1>1, <1>6, <1>8, FileUntouched DEF SaveStep

LEMMA WriteFailsKeeps ==
  ASSUME StoreInv, WriteFails
  PROVE  StoreInv'
<1>1. SaveStep /\ Unsaved /\ nextUserId = NextUserId(InFile)
  BY DEF StoreInv, Progress, WriteFails, SaveStep
<1>2. Unsaved' /\ (nextUserId = NextUserId(InFile))'
  BY <1>1, SaveStepKeeps
<1>3. TypeOK'
  BY <1>1 DEF StoreInv, TypeOK, SaveStep, WriteFails
<1>4. Progress'
  BY <1>2 DEF Progress, WriteFails
<1> QED
  BY <1>1, <1>3, <1>4, FileUntouched DEF SaveStep

\* Only when every record has been written does the temporary file hold the table.
LEMMA FlushKeeps ==
  ASSUME StoreInv, Flush
  PROVE  StoreInv'
<1>1. SaveStep /\ Unsaved /\ nextUserId = NextUserId(InFile) /\ (good => Partial)
  BY DEF StoreInv, Progress, Flush, SaveStep
<1>2. Unsaved' /\ (nextUserId = NextUserId(InFile))'
  BY <1>1, SaveStepKeeps
<1>3. TypeOK'
  BY <1>1 DEF StoreInv, TypeOK, SaveStep, Flush, RemoveTemp, Places
<1>4. CASE good /\ unwritten = {} /\ pc' = "renaming" /\ UNCHANGED tmp
  <2>1. IsTable(tmp, Names, Accounts) /\ IsTable(accounts, Names, Accounts)
    BY <1>1, <1>4 DEF StoreInv, TypeOK, Partial
  <2>2. DOMAIN tmp = DOMAIN accounts /\ \A name \in DOMAIN tmp : tmp[name] = accounts[name]
    BY <1>1, <1>4 DEF Partial
  <2>3. tmp = accounts
    BY <2>1, <2>2 DEF IsTable
  <2>4. Progress'
    BY <1>1, <1>2, <1>4, <2>3 DEF Progress, SaveStep
  <2> QED  BY <1>1, <1>3, <2>4, FileUntouched DEF SaveStep
<1>5. CASE ~good /\ pc' = "failed"
  <2>1. Progress'
    BY <1>2, <1>5 DEF Progress
  <2> QED  BY <1>1, <1>3, <2>1, FileUntouched DEF SaveStep
<1> QED
  BY <1>4, <1>5 DEF Flush

\* The rename puts the whole table in the place of the old file, or does nothing.
LEMMA RenameKeeps ==
  ASSUME StoreInv, Rename
  PROVE  StoreInv'
<1>1. /\ UNCHANGED <<accounts, nextUserId, op, told>>
      /\ Unsaved /\ nextUserId = NextUserId(InFile) /\ tmp = accounts
  BY DEF StoreInv, Progress, Rename
<1>2. CASE pc' = "failed" /\ UNCHANGED file /\ RemoveTemp
  <2>1. SaveStep
    BY <1>1, <1>2 DEF SaveStep
  <2>2. Unsaved' /\ (nextUserId = NextUserId(InFile))'
    BY <1>1, <2>1, SaveStepKeeps
  <2>3. TypeOK'
    BY <1>2, <2>1 DEF StoreInv, TypeOK, SaveStep, Rename, RemoveTemp, Places
  <2>4. Progress'
    BY <1>2, <2>2 DEF Progress
  <2> QED  BY <2>1, <2>3, <2>4, FileUntouched DEF SaveStep
<1>3. CASE pc' = "saved" /\ file' = tmp /\ tmp' = NoFile
  <2>1. /\ IsTable(accounts, Names, Accounts) /\ UniqueIds(accounts)
        /\ \A name \in DOMAIN InFile :
             name \in DOMAIN accounts /\ accounts[name].userId = InFile[name].userId
        /\ RegisterUnsaved =>
             /\ op.name \in DOMAIN accounts
             /\ nextUserId = accounts[op.name].userId
             /\ NextUserId(accounts) = IF nextUserId = MaxUserId THEN 0 ELSE nextUserId + 1
        /\ UpdateUnsaved => NextUserId(accounts) = nextUserId
    BY <1>1, UnsavedTable
  <2>2. InFile' = accounts
    BY <1>1, <1>3, <2>1, TableIsAFile DEF InFile
  <2>3. TypeOK'
    BY <1>1, <1>3, <2>1 DEF StoreInv, TypeOK, Rename, Places
  <2>4. UniqueIds(InFile)' /\ Told'
    BY <1>1, <2>1, <2>2 DEF StoreInv, UniqueIds, Told
  <2>5. Saved'
    <3>1. RegisterUnsaved \/ UpdateUnsaved
      BY <1>1 DEF Unsaved
    <3>2. CASE RegisterUnsaved
      BY <1>1, <2>1, <2>2, <3>2 DEF Saved, RegisterUnsaved, Registering
    <3>3. CASE UpdateUnsaved
      BY <1>1, <2>1, <2>2, <3>3 DEF Saved, UpdateUnsaved, Updating
    <3> QED  BY <3>1, <3>2, <3>3
  <2>6. Progress'
    BY <1>3, <2>5 DEF Progress
  <2> QED  BY <2>3, <2>4, <2>6 DEF StoreInv
<1> QED
  BY <1>2, <1>3 DEF Rename

LEMMA SucceedKeeps ==
  ASSUME StoreInv, Succeed
  PROVE  StoreInv'
<1>1. /\ InFile' = InFile /\ UNCHANGED <<accounts, unwritten, good, tmp, file>>
      /\ pc' = "idle" /\ Saved
  BY DEF StoreInv, Progress, Succeed, InFile
<1>2. CASE op.kind = "register"
  <2>1. /\ nextUserId' = IF nextUserId = MaxUserId THEN 0 ELSE nextUserId + 1
        /\ told' = Put(told, op.name, accounts[op.name].userId)
    BY <1>2 DEF Succeed
  <2>2. /\ accounts = InFile /\ op.name \in Names /\ op.name \in DOMAIN accounts
        /\ nextUserId' = NextUserId(InFile)
    BY <1>1, <1>2, <2>1 DEF Saved, Registering, Updating
  <2>3. IsTable(accounts, Names, Accounts) /\ IsTable(told, Names, 1..MaxUserId)
    BY DEF StoreInv, TypeOK
  <2>4. /\ DOMAIN told' = DOMAIN told \cup {op.name}
        /\ told'[op.name] = accounts[op.name].userId
        /\ \A other \in DOMAIN told \ {op.name} : told'[other] = told[other]
        /\ told' = [k \in DOMAIN told' |-> told'[k]]
    BY <2>1 DEF Put
  <2>5. IsTable(told', Names, 1..MaxUserId)
    <3>1. accounts[op.name].userId \in 1..MaxUserId
      BY <2>2, <2>3 DEF IsTable, Accounts
    <3>2. \A k \in DOMAIN told' : told'[k] \in 1..MaxUserId
      BY <2>3, <2>4, <3>1 DEF IsTable
    <3> QED  BY <2>2, <2>3, <2>4, <3>2 DEF IsTable
  <2>6. NextUserId(InFile) \in 0..MaxUserId
    BY InFileTyped, NextUserIdIsNew DEF StoreInv
  <2>7. TypeOK'
    BY <1>1, <2>2, <2>5, <2>6 DEF StoreInv, TypeOK, Places
  <2>8. UniqueIds(InFile)' /\ Told'
    BY <1>1, <2>2, <2>4 DEF StoreInv, UniqueIds, Told
  <2>9. Progress'
    BY <1>1, <2>2 DEF Progress
  <2> QED  BY <2>7, <2>8, <2>9 DEF StoreInv
<1>3. CASE op.kind # "register"
  <2>1. UNCHANGED <<nextUserId, told>> /\ accounts = InFile /\ nextUserId = NextUserId(InFile)
    BY <1>1, <1>3 DEF Succeed, Saved, Registering
  <2>2. TypeOK'
    BY <1>1, <2>1 DEF StoreInv, TypeOK, Places
  <2>3. Progress'
    BY <1>1, <2>1 DEF Progress
  <2> QED  BY <1>1, <2>1, <2>2, <2>3, FileUntouched
<1> QED
  BY <1>2, <1>3

LEMMA FailKeeps ==
  ASSUME StoreInv, Fail
  PROVE  StoreInv'
<1>1. InFile' = InFile /\ UNCHANGED <<nextUserId, unwritten, good, tmp, file, told>>
      /\ pc' = "idle" /\ Unsaved /\ nextUserId = NextUserId(InFile)
  BY DEF StoreInv, Progress, Fail, InFile
<1>2. accounts' = InFile
  BY <1>1, UnsavedTable DEF Fail
<1>3. TypeOK'
  BY <1>1, <1>2, InFileTyped DEF StoreInv, TypeOK, Places
<1>4. Progress'
  BY <1>1, <1>2 DEF Progress
<1> QED
  BY <1>1, <1>3, <1>4, FileUntouched

LEMMA CrashKeeps ==
  ASSUME StoreInv, Crash
  PROVE  StoreInv'
<1>1. IsTable(<<>>, Names, Accounts) /\ 1 \in 0..MaxUserId
  BY RepositoryAssumption DEF IsTable
<1>2. TypeOK'
  BY <1>1 DEF StoreInv, TypeOK, Crash, Places
<1>3. Progress'
  BY DEF Progress, Crash
<1> QED
  BY <1>2, <1>3, FileUntouched DEF Crash

LEMMA StoreNext == StoreInv /\ [Next]_vars => StoreInv'
<1> SUFFICES ASSUME StoreInv, [Next]_vars PROVE StoreInv'
  OBVIOUS
<1>1. CASE UNCHANGED vars
  BY <1>1 DEF vars, StoreInv, TypeOK, UniqueIds, InFile, Progress, Told, Unsaved, RegisterUnsaved,
              UpdateUnsaved, Registering, Updating, Partial, Saved
<1>2. CASE Next
  BY <1>2, LoadKeeps, RegisterKeeps, WriteRecordKeeps, UpdateKeeps, OpenTempKeeps, WriteFailsKeeps,
     FlushKeeps, RenameKeeps, SucceedKeeps, FailKeeps, CrashKeeps DEF Next
<1> QED
  BY <1>1, <1>2

LEMMA StoreInvariant == Spec => []StoreInv
BY StoreInit, StoreNext, PTL DEF Spec

\* Memory, files and history keep their shape.
THEOREM StoreTypeCorrect == Spec => []TypeOK
<1>1. StoreInv => TypeOK
  BY DEF StoreInv
<1> QED
  BY <1>1, StoreInvariant, PTL

\* Whenever AccountRepository is between two operations its table is what the file
\* holds, and the next id is new: Register and updateEloPair take back what they
\* could not save, and load() finds no half of anything.
THEOREM IdleAlwaysMatchesFile == Spec => []IdleMatchesFile
<1>1. StoreInv => IdleMatchesFile
  <2> SUFFICES ASSUME StoreInv, pc = "idle"
               PROVE  accounts = Contents(file) /\ nextUserId \notin IdsOf(accounts)
    BY DEF IdleMatchesFile
  <2>1. accounts = InFile /\ nextUserId = NextUserId(InFile)
    BY DEF StoreInv, Progress
  <2>2. NextUserId(InFile) \notin IdsOf(InFile)
    BY InFileTyped, NextUserIdIsNew DEF StoreInv
  <2> QED  BY <2>1, <2>2 DEF InFile
<1> QED
  BY <1>1, StoreInvariant, PTL

\* A registration that was acknowledged stays in the file with the id it was told, and
\* no other name ever gets that id, whatever fails and whenever the process dies.
THEOREM AcknowledgedAlwaysDurable == Spec => []AcknowledgedAreDurable
<1>1. StoreInv => AcknowledgedAreDurable
  BY DEF StoreInv, Told, UniqueIds, AcknowledgedAreDurable, InFile
<1> QED
  BY <1>1, StoreInvariant, PTL

-----------------------------------------------------------------------------
(* The abstract ledger. *)

\* An account's ELO in the ledger is found under its id.
LEMMA EloInLedger ==
  ASSUME NEW table, UniqueIds(table)
  PROVE  /\ DOMAIN LedgerOf(table).elo = IdsOf(table)
         /\ \A name \in DOMAIN table :
              /\ table[name].userId \in IdsOf(table)
              /\ LedgerOf(table).elo[table[name].userId] = table[name].elo
         /\ LedgerOf(table).elo = [id \in IdsOf(table) |-> LedgerOf(table).elo[id]]
         /\ LedgerOf(table).nextUserId = NextUserId(table)
         /\ LedgerOf(table) =
              [elo |-> LedgerOf(table).elo, nextUserId |-> LedgerOf(table).nextUserId]
<1>1. ASSUME NEW name \in DOMAIN table
      PROVE  /\ table[name].userId \in IdsOf(table)
             /\ LedgerOf(table).elo[table[name].userId] = table[name].elo
  <2> DEFINE id == table[name].userId
             found == CHOOSE other \in DOMAIN table : table[other].userId = id
  <2>1. found \in DOMAIN table /\ table[found].userId = id
    OBVIOUS
  <2>2. found = name
    BY <2>1 DEF UniqueIds
  <2>3. id \in IdsOf(table)
    BY DEF IdsOf
  <2>4. LedgerOf(table).elo[id] = table[found].elo
    BY <2>3 DEF LedgerOf
  <2> QED  BY <2>2, <2>3, <2>4
<1> QED
  BY <1>1 DEF LedgerOf

\* The ledger of a table with one more name has one more id.
LEMMA LedgerRegisters ==
  ASSUME StoreInv, RegisterUnsaved, nextUserId = NextUserId(InFile)
  PROVE  /\ L!CanRegister(LedgerOf(InFile), TRUE)
         /\ LedgerOf(accounts) = L!Register(LedgerOf(InFile))
<1> DEFINE A == LedgerOf(InFile)
           B == LedgerOf(accounts)
           n == NextUserId(InFile)
<1>1. IsTable(InFile, Names, Accounts) /\ UniqueIds(InFile)
  BY InFileTyped DEF StoreInv
<1>2. AddsOne(InFile, op.name, accounts)
  BY DEF RegisterUnsaved, Registering, AddsOne
<1>3. /\ IsTable(accounts, Names, Accounts) /\ UniqueIds(accounts)
      /\ DOMAIN accounts = DOMAIN InFile \cup {op.name}
      /\ accounts[op.name] = [userId |-> n, elo |-> kInitialElo]
      /\ \A other \in DOMAIN InFile : accounts[other] = InFile[other]
      /\ IdsOf(accounts) = IdsOf(InFile) \cup {n}
  <2> HIDE DEF A, B, n
  <2>1. /\ IsTable(accounts, Names, Accounts) /\ UniqueIds(accounts)
        /\ DOMAIN accounts = DOMAIN InFile \cup {op.name}
        /\ accounts[op.name] = [userId |-> NextUserId(InFile), elo |-> kInitialElo]
        /\ \A other \in DOMAIN InFile : accounts[other] = InFile[other]
        /\ IdsOf(accounts) = IdsOf(InFile) \cup {NextUserId(InFile)}
        /\ Erase(accounts, op.name) = InFile
    BY <1>1, <1>2, RegisterTable
  <2> QED  BY <2>1 DEF n
<1>4. n # 0 /\ n \notin IdsOf(InFile)
  BY <1>1, <1>2, NextUserIdIsNew DEF AddsOne
<1>5. NextUserId(accounts) = IF n = MaxUserId THEN 0 ELSE n + 1
  BY <1>1, <1>3, <1>4, NextAfterRegister
<1>6. /\ DOMAIN A.elo = IdsOf(InFile) /\ A.nextUserId = n
      /\ \A name \in DOMAIN InFile : A.elo[InFile[name].userId] = InFile[name].elo
  BY <1>1, EloInLedger
<1>7. /\ DOMAIN B.elo = IdsOf(accounts) /\ B.nextUserId = NextUserId(accounts)
      /\ \A name \in DOMAIN accounts : B.elo[accounts[name].userId] = accounts[name].elo
      /\ B.elo = [id \in IdsOf(accounts) |-> B.elo[id]]
      /\ B = [elo |-> B.elo, nextUserId |-> B.nextUserId]
  BY <1>3, EloInLedger
<1> HIDE DEF A, B, n
<1>8. \A id \in IdsOf(accounts) : B.elo[id] = IF id = n THEN kInitialElo ELSE A.elo[id]
  <2>1. B.elo[n] = kInitialElo
    BY <1>3, <1>7
  <2>2. ASSUME NEW id \in IdsOf(InFile) PROVE B.elo[id] = A.elo[id]
    <3>1. PICK name \in DOMAIN InFile : id = InFile[name].userId
      BY DEF IdsOf
    <3>2. accounts[name] = InFile[name] /\ name \in DOMAIN accounts
      BY <1>3, <3>1
    <3> QED  BY <1>6, <1>7, <3>1, <3>2
  <2> QED  BY <1>3, <1>4, <2>1, <2>2
<1>9. B.elo = L!Put(A.elo, n, kInitialElo)
  <2>1. L!Put(A.elo, n, kInitialElo) =
          [id \in IdsOf(accounts) |-> IF id = n THEN kInitialElo ELSE A.elo[id]]
    BY <1>3, <1>6 DEF L!Put
  <2> QED  BY <1>7, <1>8, <2>1
<1>10. B = L!Register(A)
  BY <1>5, <1>6, <1>7, <1>9 DEF L!Register, L!kInitialElo, kInitialElo
<1> QED
  BY <1>4, <1>6, <1>10 DEF A, B, L!CanRegister

\* The ledger of a table with two new ELOs has those of two ids changed.
LEMMA LedgerUpdates ==
  ASSUME StoreInv, UpdateUnsaved
  PROVE  \E first, second \in L!Registered(LedgerOf(InFile)), firstElo, secondElo \in Elos :
           /\ L!CanUpdateEloPair(LedgerOf(InFile), first, second, TRUE)
           /\ LedgerOf(accounts) =
                L!UpdateEloPair(LedgerOf(InFile), first, firstElo, second, secondElo)
<1> DEFINE A == LedgerOf(InFile)
           B == LedgerOf(accounts)
           first == InFile[op.first].userId
           second == InFile[op.second].userId
<1>1. IsTable(InFile, Names, Accounts) /\ UniqueIds(InFile)
  BY InFileTyped DEF StoreInv
<1>2. /\ op.first \in DOMAIN InFile /\ op.second \in DOMAIN InFile /\ op.first # op.second
  BY DEF UpdateUnsaved, Updating
<1>3. PICK firstElo \in Elos, secondElo \in Elos :
        accounts = WithElos(InFile, op.first, firstElo, op.second, secondElo)
  BY DEF UpdateUnsaved
<1>4. /\ IsTable(accounts, Names, Accounts) /\ UniqueIds(accounts)
      /\ DOMAIN accounts = DOMAIN InFile
      /\ accounts[op.first].elo = firstElo /\ accounts[op.second].elo = secondElo
      /\ \A other \in DOMAIN InFile :
           /\ accounts[other].userId = InFile[other].userId
           /\ other \notin {op.first, op.second} => accounts[other] = InFile[other]
      /\ IdsOf(accounts) = IdsOf(InFile)
  BY <1>1, <1>2, <1>3, UpdateTable
<1>5. NextUserId(accounts) = NextUserId(InFile)
  BY <1>1, <1>4, SameIdsSameNext
<1>6. /\ DOMAIN A.elo = IdsOf(InFile) /\ A.nextUserId = NextUserId(InFile)
      /\ \A name \in DOMAIN InFile :
           /\ InFile[name].userId \in IdsOf(InFile)
           /\ A.elo[InFile[name].userId] = InFile[name].elo
      /\ A.elo = [id \in IdsOf(InFile) |-> A.elo[id]]
      /\ A = [elo |-> A.elo, nextUserId |-> A.nextUserId]
  BY <1>1, EloInLedger
<1>7. /\ B.nextUserId = NextUserId(accounts)
      /\ \A name \in DOMAIN accounts : B.elo[accounts[name].userId] = accounts[name].elo
      /\ B.elo = [id \in IdsOf(accounts) |-> B.elo[id]]
      /\ B = [elo |-> B.elo, nextUserId |-> B.nextUserId]
  BY <1>4, EloInLedger
<1>8. first # second /\ first \in IdsOf(InFile) /\ second \in IdsOf(InFile)
  BY <1>1, <1>2, <1>6 DEF UniqueIds
<1> HIDE DEF A, B
<1>9. \A id \in IdsOf(InFile) :
        B.elo[id] = IF id = first THEN firstElo ELSE IF id = second THEN secondElo ELSE A.elo[id]
  <2>1. B.elo[first] = firstElo /\ B.elo[second] = secondElo
    BY <1>2, <1>4, <1>7
  <2>2. ASSUME NEW id \in IdsOf(InFile) \ {first, second} PROVE B.elo[id] = A.elo[id]
    <3>1. PICK name \in DOMAIN InFile : id = InFile[name].userId
      BY DEF IdsOf
    <3>2. accounts[name] = InFile[name]
      BY <1>4, <3>1
    <3> QED  BY <1>4, <1>6, <1>7, <3>1, <3>2
  <2> QED  BY <1>8, <2>1, <2>2
<1> HIDE DEF first, second
<1>10. B.elo = [A.elo EXCEPT ![first] = firstElo, ![second] = secondElo]
  <2>1. [A.elo EXCEPT ![first] = firstElo, ![second] = secondElo] =
          [id \in IdsOf(InFile) |->
             IF id = first THEN firstElo ELSE IF id = second THEN secondElo ELSE A.elo[id]]
    BY <1>6, <1>8
  <2> QED  BY <1>4, <1>7, <1>9, <2>1
<1>11. B = L!UpdateEloPair(A, first, firstElo, second, secondElo)
  <2>1. [A EXCEPT !.elo = B.elo] = B
    BY <1>5, <1>6, <1>7
  <2> QED  BY <1>10, <2>1 DEF L!UpdateEloPair
<1>12. first \in L!Registered(A) /\ second \in L!Registered(A)
  BY <1>6, <1>8 DEF L!Registered
<1>13. L!CanUpdateEloPair(A, first, second, TRUE)
  BY <1>8, <1>12 DEF L!CanUpdateEloPair
<1> QED
  BY <1>3, <1>11, <1>12, <1>13 DEF A, B

\* The one step that the ledger sees is the rename.
LEMMA LedgerStep ==
  ASSUME StoreInv, [Next]_vars
  PROVE  \/ L!RegisterOne \/ L!UpdatePair
         \/ UNCHANGED LedgerOf(Contents(file))
<1>1. CASE UNCHANGED file
  BY <1>1 DEF Contents
<1>2. CASE Rename /\ file' = tmp
  <2>1. Unsaved /\ nextUserId = NextUserId(InFile) /\ tmp = accounts
    BY <1>2 DEF StoreInv, Progress, Rename
  <2>2. Contents(file)' = accounts /\ Contents(file) = InFile
    BY <1>2, <2>1, UnsavedTable, TableIsAFile DEF InFile
  <2>3. CASE RegisterUnsaved
    BY <2>1, <2>2, <2>3, LedgerRegisters DEF L!RegisterOne
  <2>4. CASE UpdateUnsaved
    <3>1. LedgerOf(Contents(file))' = LedgerOf(accounts) /\ LedgerOf(Contents(file)) = LedgerOf(InFile)
      BY <2>2
    <3>2. \E first, second \in L!Registered(LedgerOf(InFile)), firstElo, secondElo \in Elos :
            /\ L!CanUpdateEloPair(LedgerOf(InFile), first, second, TRUE)
            /\ LedgerOf(accounts) =
                 L!UpdateEloPair(LedgerOf(InFile), first, firstElo, second, secondElo)
      BY <2>4, LedgerUpdates
    <3> QED  BY <3>1, <3>2 DEF L!UpdatePair
  <2> QED  BY <2>1, <2>3, <2>4 DEF Unsaved
<1>3. UNCHANGED file \/ (Rename /\ file' = tmp)
  BY DEF Next, vars, Load, Register, WriteRecord, UpdateEloPair, OpenTemp, WriteFails, Flush, Rename,
         Succeed, Fail, Crash
<1> QED
  BY <1>1, <1>2, <1>3

\* Through every failure and every crash the file implements the ledger that the rest
\* of the server takes accountRepository_ for: it changes by a whole registration or a
\* whole pair of ELOs, or not at all.
THEOREM RepositoryImplementsLedger == Spec => ImplementsLedger
<1>1. Init => L!Init
  <2> SUFFICES ASSUME Init PROVE LedgerOf(Contents(file)) = L!Loaded(<<>>)
    BY DEF L!Init
  <2>1. Contents(file) = <<>> /\ IdsOf(<<>>) = {}
    BY DEF Init, Contents, IdsOf
  <2>2. NextUserId(<<>>) = 1
    BY <2>1, RepositoryAssumption DEF NextUserId
  <2>3. L!NextUserIdAfter({}) = 1
    BY DEF L!NextUserIdAfter
  <2>4. LedgerOf(<<>>).elo = <<>>
    BY <2>1 DEF LedgerOf
  <2>5. LedgerOf(<<>>) = [elo |-> <<>>, nextUserId |-> 1]
    BY <2>2, <2>4 DEF LedgerOf
  <2> QED  BY <2>1, <2>3, <2>5 DEF L!Loaded
<1>2. StoreInv /\ [Next]_vars => [L!RegisterOne \/ L!UpdatePair]_(LedgerOf(Contents(file)))
  BY LedgerStep
<1> QED
  BY <1>1, <1>2, StoreInvariant, PTL DEF Spec, ImplementsLedger, L!Spec

-----------------------------------------------------------------------------
(* The buffers of the log, put one after the other. FlattenSeq is defined by a     *)
(* recursive function; that there is one is shown by its least counterexample.     *)

\* g is the function that FlattenSeq defines, up to n.
Flattens(g, seqs, n) ==
  g = [i \in 1..n |-> IF i = 1 THEN seqs[i] ELSE g[i - 1] \o seqs[i]]

Flattening(seqs) == CHOOSE g : Flattens(g, seqs, Len(seqs))

\* What cannot fail first cannot fail: T has no least member.
LEMMA NoLeastIsEmpty ==
  ASSUME NEW T, T \subseteq Nat, \A n \in T : \E m \in T : m < n
  PROVE  T = {}
<1> SUFFICES ASSUME T # {} PROVE FALSE
  OBVIOUS
<1>1. PICK x \in T : \A y \in T : ~(<<y, x>> \in OpToRel(<, Nat))
  BY NatLessThanWellFounded, WFMin
<1> QED
  BY <1>1 DEF OpToRel

LEMMA FlatteningExists ==
  ASSUME NEW seqs, NEW n \in Nat
  PROVE  \E g : Flattens(g, seqs, n)
<1> DEFINE T == {k \in Nat : ~\E g : Flattens(g, seqs, k)}
<1>1. ASSUME NEW k \in T PROVE \E m \in T : m < k
  <2>1. k # 0
    <3>1. Flattens([i \in 1..0 |-> 0], seqs, 0)
      BY DEF Flattens
    <3> QED  BY <3>1
  <2>2. k - 1 \in Nat /\ k - 1 < k
    BY <2>1
  <2>3. ASSUME NEW g, Flattens(g, seqs, k - 1) PROVE FALSE
    <3> DEFINE last == IF k = 1 THEN seqs[k] ELSE g[k - 1] \o seqs[k]
               h == [i \in 1..k |-> IF i = k THEN last ELSE g[i]]
    <3>1. \A i \in 1..(k - 1) : g[i] = IF i = 1 THEN seqs[i] ELSE g[i - 1] \o seqs[i]
      BY <2>3 DEF Flattens
    <3>2. \A i \in 1..k : h[i] = IF i = 1 THEN seqs[i] ELSE h[i - 1] \o seqs[i]
      BY <2>2, <3>1
    <3>3. Flattens(h, seqs, k)
      BY <3>2 DEF Flattens
    <3> QED  BY <3>3
  <2> QED  BY <2>2, <2>3
<1>2. T = {}
  BY <1>1, NoLeastIsEmpty
<1> QED
  BY <1>2

\* FlattenSeq, entry by entry.
LEMMA FlattenSeqIs ==
  ASSUME NEW seqs, Len(seqs) \in Nat
  PROVE  /\ FlattenSeq(seqs) = IF Len(seqs) = 0 THEN seqs ELSE Flattening(seqs)[Len(seqs)]
         /\ \A i \in 1..Len(seqs) :
              Flattening(seqs)[i] =
                IF i = 1 THEN seqs[i] ELSE Flattening(seqs)[i - 1] \o seqs[i]
<1>1. FlattenSeq(seqs) = IF Len(seqs) = 0 THEN seqs ELSE Flattening(seqs)[Len(seqs)]
  BY DEF FlattenSeq, Flattening, Flattens
<1>2. Flattens(Flattening(seqs), seqs, Len(seqs))
  BY FlatteningExists DEF Flattening
<1> QED
  BY <1>1, <1>2 DEF Flattens

\* The flattening of a longer sequence begins as that of the shorter one.
LEMMA FlatteningOfAppend ==
  ASSUME NEW S, NEW seqs \in Seq(Seq(S)), NEW seq \in Seq(S)
  PROVE  \A i \in 1..Len(seqs) : Flattening(Append(seqs, seq))[i] = Flattening(seqs)[i]
<1> DEFINE longer == Append(seqs, seq)
           T == {i \in 1..Len(seqs) : Flattening(longer)[i] # Flattening(seqs)[i]}
<1>1. Len(seqs) \in Nat /\ Len(longer) = Len(seqs) + 1 /\ \A i \in 1..Len(seqs) : longer[i] = seqs[i]
  OBVIOUS
<1>2. /\ \A i \in 1..Len(seqs) :
           Flattening(seqs)[i] = IF i = 1 THEN seqs[i] ELSE Flattening(seqs)[i - 1] \o seqs[i]
      /\ \A i \in 1..Len(longer) :
           Flattening(longer)[i] =
             IF i = 1 THEN longer[i] ELSE Flattening(longer)[i - 1] \o longer[i]
  <2> HIDE DEF longer
  <2>1. Len(longer) \in Nat
    BY <1>1
  <2> QED  BY <1>1, <2>1, FlattenSeqIs
<1> HIDE DEF longer
<1>3. ASSUME NEW i \in T PROVE \E j \in T : j < i
  <2>1. i # 1
    BY <1>1, <1>2
  <2>2. i - 1 \in T
    BY <1>1, <1>2, <2>1
  <2> QED  BY <1>1, <2>2
<1>4. T \subseteq Nat
  BY <1>1
<1>5. T = {}
  BY <1>3, <1>4, NoLeastIsEmpty
<1> QED
  BY <1>5 DEF longer

\* Flattening sequences gives a sequence of what they are made of.
LEMMA FlattenTyped ==
  ASSUME NEW S, NEW seqs \in Seq(Seq(S))
  PROVE  FlattenSeq(seqs) \in Seq(S)
<1> DEFINE T == {i \in 1..Len(seqs) : Flattening(seqs)[i] \notin Seq(S)}
<1>1. Len(seqs) \in Nat /\ \A i \in 1..Len(seqs) : seqs[i] \in Seq(S)
  OBVIOUS
<1>2. /\ FlattenSeq(seqs) = IF Len(seqs) = 0 THEN seqs ELSE Flattening(seqs)[Len(seqs)]
      /\ \A i \in 1..Len(seqs) :
           Flattening(seqs)[i] = IF i = 1 THEN seqs[i] ELSE Flattening(seqs)[i - 1] \o seqs[i]
  BY <1>1, FlattenSeqIs
<1>3. ASSUME NEW i \in T PROVE \E j \in T : j < i
  <2>1. i # 1
    BY <1>1, <1>2
  <2>2. i - 1 \in 1..Len(seqs) /\ Flattening(seqs)[i] = Flattening(seqs)[i - 1] \o seqs[i]
    <3>1. i \in 1..Len(seqs)
      OBVIOUS
    <3>2. i - 1 \in 1..Len(seqs)
      BY <1>1, <2>1, <3>1
    <3>3. Flattening(seqs)[i] = Flattening(seqs)[i - 1] \o seqs[i]
      BY <1>2, <2>1, <3>1
    <3> QED  BY <3>2, <3>3
  <2>3. i - 1 \in T
    <3>1. seqs[i] \in Seq(S) /\ Flattening(seqs)[i] \notin Seq(S)
      BY <1>1
    <3>2. Flattening(seqs)[i - 1] \notin Seq(S)
      BY <2>2, <3>1, ConcatProperties
    <3> QED  BY <2>2, <3>2
  <2> QED  BY <1>1, <2>3
<1>4. T \subseteq Nat
  BY <1>1
<1>5. T = {}
  BY <1>3, <1>4, NoLeastIsEmpty
<1>6. CASE Len(seqs) = 0
  BY <1>2, <1>6
<1>7. CASE Len(seqs) # 0
  <2>1. Len(seqs) \in 1..Len(seqs)
    BY <1>1, <1>7
  <2> QED  BY <1>2, <1>5, <1>7, <2>1
<1> QED
  BY <1>6, <1>7

\* One sequence more adds its elements at the end.
LEMMA FlattenAppend ==
  ASSUME NEW S, NEW seqs \in Seq(Seq(S)), NEW seq \in Seq(S)
  PROVE  FlattenSeq(Append(seqs, seq)) = FlattenSeq(seqs) \o seq
<1> DEFINE longer == Append(seqs, seq)
<1>1. /\ Len(seqs) \in Nat /\ Len(longer) = Len(seqs) + 1
      /\ longer[Len(seqs) + 1] = seq
  OBVIOUS
<1>2. /\ FlattenSeq(longer) = Flattening(longer)[Len(seqs) + 1]
      /\ Flattening(longer)[Len(seqs) + 1] =
           IF Len(seqs) + 1 = 1 THEN longer[Len(seqs) + 1]
           ELSE Flattening(longer)[Len(seqs)] \o longer[Len(seqs) + 1]
  <2>1. Len(longer) \in Nat /\ Len(longer) # 0
    BY <1>1
  <2> HIDE DEF longer
  <2> QED  BY <1>1, <2>1, FlattenSeqIs
<1>3. FlattenSeq(seqs) = IF Len(seqs) = 0 THEN seqs ELSE Flattening(seqs)[Len(seqs)]
  BY <1>1, FlattenSeqIs
<1>4. CASE Len(seqs) = 0
  <2>1. seqs = <<>>
    BY <1>4
  <2>2. FlattenSeq(longer) = seq
    BY <1>1, <1>2, <1>4
  <2> QED  BY <1>3, <2>1, <2>2, ConcatEmptySeq
<1>5. CASE Len(seqs) # 0
  <2>1. Flattening(longer)[Len(seqs)] = Flattening(seqs)[Len(seqs)]
    <3>1. Len(seqs) \in 1..Len(seqs)
      BY <1>1, <1>5
    <3> QED  BY <3>1, FlatteningOfAppend
  <2> QED  BY <1>1, <1>2, <1>3, <1>5, <2>1
<1> QED
  BY <1>4, <1>5

-----------------------------------------------------------------------------
\* Where the buffers are: the writing thread has both its spare ones unless it is
\* writing, and when it has to replace one, there was a full one besides the current.
BuffersGoRound ==
  /\ writerAt # "writing" => toWrite = <<>>
  /\ writerAt = "writing" => toWrite # <<>> /\ newBuffer1 = Null
  /\ writerAt = "writing" /\ newBuffer2 = Null => HasSecond
  /\ next = Null => buffers # <<>>
  /\ stopperAt = "none" => writerAt = "none"

LogInv == LogTypeOK /\ BuffersGoRound /\ LinesInOrder

Lines == 1..MaxLines

LEMMA LogInvInit == LogInit => LogInv
<1> SUFFICES ASSUME LogInit PROVE LogInv
  OBVIOUS
<1>1. Empty \in Buffer /\ Empty = <<>> /\ <<>> \in Seq(Buffer) /\ Empty # Null
  <2>1. <<>> \in Seq(1..MaxLines) /\ <<>> \in Seq(Buffer)
    OBVIOUS
  <2> QED  BY <2>1, NullAssumption DEF Empty, Buffer
<1>2. LogTypeOK
  <2>1. running \in BOOLEAN /\ notified \in BOOLEAN
    BY Zenon DEF LogInit
  <2>2. appended \in 0..MaxLines
    BY NullAssumption DEF LogInit
  <2> QED  BY <1>1, <2>1, <2>2 DEF LogInit, LogTypeOK
<1>3. BuffersGoRound
  BY <1>1 DEF LogInit, BuffersGoRound
<1>4. LinesInOrder
  <2>1. FlattenSeq(<<>>) = <<>>
    BY FlattenSeqIs
  <2>2. [i \in 1..0 |-> i] = <<>>
    OBVIOUS
  <2> QED  BY <1>1, <2>1, <2>2 DEF LogInit, LinesInOrder
<1> QED
  BY <1>2, <1>3, <1>4 DEF LogInv

LEMMA Regroup ==
  ASSUME NEW a \in Seq(Nat), NEW b \in Seq(Nat), NEW c \in Seq(Nat)
  PROVE  (a \o b) \o c = a \o (b \o c) /\ (a \o b) \o c \in Seq(Nat)
<1>1. a \o b \in Seq(Nat) /\ (a \o b) \o c \in Seq(Nat)
  BY ConcatProperties
<1>2. (a \o b) \o c = a \o (b \o c)
  OBVIOUS
<1> QED
  BY <1>1, <1>2

\* A line more in the current buffer is a line more in all.
LEMMA OneMoreLine ==
  ASSUME NEW before \in Seq(Nat), NEW now \in Seq(Nat), NEW n \in Nat,
         before \o now = [i \in 1..n |-> i]
  PROVE  before \o Append(now, n + 1) = [i \in 1..(n + 1) |-> i]
<1>1. before \o Append(now, n + 1) = Append(before \o now, n + 1)
  <2>1. <<n + 1>> \in Seq(Nat) /\ before \o now \in Seq(Nat)
    BY ConcatProperties
  <2>2. \A s \in Seq(Nat) : Append(s, n + 1) = s \o <<n + 1>>
    OBVIOUS
  <2>3. before \o (now \o <<n + 1>>) = (before \o now) \o <<n + 1>>
    BY <2>1, Regroup
  <2> QED  BY <2>1, <2>2, <2>3
<1>2. Append([i \in 1..n |-> i], n + 1) = [i \in 1..(n + 1) |-> i]
  OBVIOUS
<1> QED
  BY <1>1, <1>2

\* Steps of the control alone: no buffer is touched, nor does writing begin or end.
LEMMA ControlKeeps ==
  ASSUME LogInv, UNCHANGED <<sharedVars, ownVars>>,
         \/ Start \/ SetStop \/ NotifyStop \/ Join
         \/ Test \/ TestAgain \/ Wait \/ Block \/ Wake
         \/ UNCHANGED logVars
  PROVE  LogInv'
<1> USE DEF sharedVars, ownVars, WriterStep
<1>1. LinesInOrder'
  BY DEF LogInv, LinesInOrder
<1>2. running' \in BOOLEAN /\ notified' \in BOOLEAN
  <2>1. running \in BOOLEAN /\ notified \in BOOLEAN
    BY DEF LogInv, LogTypeOK
  <2>2. running' \in {running, TRUE, FALSE}
    BY DEF Start, SetStop, NotifyStop, Join, Test, TestAgain, Wait, Block, Wake, logVars
  <2>3. notified' \in {notified, FALSE, notified \/ writerAt = "blocked"}
    BY DEF Start, SetStop, NotifyStop, Join, Test, TestAgain, Wait, Block, Wake, logVars, Notify
  <2> QED  BY <2>1, <2>2, <2>3
<1>3. /\ writerAt' \in {"none", "top", "waiting", "checked", "blocked", "writing", "written", "ended"}
      /\ writerAt' = "writing" <=> writerAt = "writing"
      /\ stopperAt' \in {"none", "started", "flagged", "joining", "joined"}
      /\ stopperAt' = "none" => writerAt' = "none"
  BY DEF LogInv, LogTypeOK, BuffersGoRound,
         Start, SetStop, NotifyStop, Join, Test, TestAgain, Wait, Block, Wake, logVars
<1>4. LogTypeOK'
  BY <1>2, <1>3 DEF LogInv, LogTypeOK
<1>5. BuffersGoRound'
  BY <1>3 DEF LogInv, BuffersGoRound, HasSecond
<1> QED
  BY <1>1, <1>4, <1>5 DEF LogInv

\* The lines that are not in the current buffer.
Before == out \o FlattenSeq(toWrite) \o FlattenSeq(buffers)

LEMMA LinesTyped ==
  ASSUME LogTypeOK
  PROVE  /\ out \in Seq(Nat) /\ current \in Seq(Nat)
         /\ FlattenSeq(toWrite) \in Seq(Nat) /\ FlattenSeq(buffers) \in Seq(Nat)
         /\ Before \in Seq(Nat)
         /\ appended \in Nat
<1>1. Lines \subseteq Nat /\ Buffer = Seq(Lines)
  BY NullAssumption DEF Lines, Buffer
<1>2. FlattenSeq(toWrite) \in Seq(Lines) /\ FlattenSeq(buffers) \in Seq(Lines)
  BY <1>1, FlattenTyped DEF LogTypeOK
<1>3. /\ out \in Seq(Nat) /\ current \in Seq(Nat)
      /\ FlattenSeq(toWrite) \in Seq(Nat) /\ FlattenSeq(buffers) \in Seq(Nat)
  BY <1>1, <1>2, SeqMonotonic DEF LogTypeOK
<1>4. Before \in Seq(Nat)
  BY <1>3, ConcatProperties DEF Before
<1> QED
  BY <1>3, <1>4, NullAssumption DEF LogTypeOK

LEMMA AppendInPlaceKeeps ==
  ASSUME LogInv, AppendInPlace
  PROVE  LogInv'
<1> USE DEF ownVars
<1>1. LogTypeOK'
  <2>1. appended + 1 \in 1..MaxLines
    BY NullAssumption DEF LogInv, LogTypeOK, AppendInPlace, MayAppend
  <2>2. current' \in Buffer /\ appended' \in 0..MaxLines
    BY <2>1 DEF LogInv, LogTypeOK, AppendInPlace, Buffer
  <2>3. running' \in BOOLEAN /\ notified' \in BOOLEAN
    BY Zenon DEF LogInv, LogTypeOK, AppendInPlace
  <2> QED  BY <2>2, <2>3 DEF LogInv, LogTypeOK, AppendInPlace
<1>2. BuffersGoRound'
  BY DEF LogInv, BuffersGoRound, AppendInPlace, HasSecond
<1>3. LinesInOrder'
  <2>1. Before \o current = [i \in 1..appended |-> i]
    BY DEF LogInv, LinesInOrder, Before
  <2>2. Before \o Append(current, appended + 1) = [i \in 1..(appended + 1) |-> i]
    BY <2>1, LinesTyped, OneMoreLine DEF LogInv
  <2> QED  BY <2>2 DEF AppendInPlace, LinesInOrder, Before
<1> QED
  BY <1>1, <1>2, <1>3 DEF LogInv

LEMMA AppendToNextKeeps ==
  ASSUME LogInv, AppendToNext
  PROVE  LogInv'
<1> USE DEF ownVars
<1>1. current' = <<appended + 1>> /\ buffers' = Append(buffers, current)
  <2>1. (IF next = Null THEN Empty ELSE next) = <<>>
    BY DEF LogInv, LogTypeOK, Empty
  <2>2. Append(<<>>, appended + 1) = <<appended + 1>>
    OBVIOUS
  <2> QED  BY <2>1, <2>2 DEF AppendToNext
<1>2. LogTypeOK'
  <2>1. appended + 1 \in 1..MaxLines
    BY NullAssumption DEF LogInv, LogTypeOK, AppendToNext, MayAppend
  <2>2. current' \in Buffer /\ appended' \in 0..MaxLines
    <3>1. <<appended + 1>> \in Seq(1..MaxLines)
      BY <2>1
    <3>2. appended' = appended + 1
      BY DEF AppendToNext
    <3> QED  BY <1>1, <2>1, <3>1, <3>2, NullAssumption DEF Buffer
  <2>3. buffers' \in Seq(Buffer)
    BY <1>1 DEF LogInv, LogTypeOK
  <2>4. running' \in BOOLEAN /\ notified' \in BOOLEAN
    <3>1. notified \in BOOLEAN /\ notified' = (notified \/ writerAt = "blocked")
      BY DEF LogInv, LogTypeOK, AppendToNext, Notify
    <3>2. running' \in BOOLEAN
      BY Zenon DEF LogInv, LogTypeOK, AppendToNext
    <3> QED  BY <3>1, <3>2
  <2> QED  BY <2>2, <2>3, <2>4 DEF LogInv, LogTypeOK, AppendToNext
<1>3. BuffersGoRound'
  <2>1. buffers' # <<>>
    BY <1>1 DEF LogInv, LogTypeOK
  <2> QED  BY <2>1 DEF LogInv, BuffersGoRound, AppendToNext, HasSecond
<1>4. LinesInOrder'
  <2>1. Before \o current = [i \in 1..appended |-> i]
    BY DEF LogInv, LinesInOrder, Before
  <2>2. FlattenSeq(buffers') = FlattenSeq(buffers) \o current
    <3>1. buffers \in Seq(Seq(Lines)) /\ current \in Seq(Lines)
      BY DEF LogInv, LogTypeOK, Buffer, Lines
    <3> QED  BY <1>1, <3>1, FlattenAppend
  <2>3. out \o FlattenSeq(toWrite) \in Seq(Nat) /\ Before = (out \o FlattenSeq(toWrite)) \o FlattenSeq(buffers)
    BY LinesTyped, ConcatProperties DEF LogInv, Before
  <2>4. Before' = Before \o current
    <3>1. Before' = (out \o FlattenSeq(toWrite)) \o (FlattenSeq(buffers) \o current)
      BY <2>2 DEF Before, AppendToNext
    <3> QED  BY <2>3, <3>1, LinesTyped, Regroup DEF LogInv
  <2>5. (Before \o current) \in Seq(Nat) /\ (Before \o current) \o <<>> = [i \in 1..appended |-> i]
    BY <2>1, LinesTyped, ConcatProperties, ConcatEmptySeq DEF LogInv
  <2>6. (Before \o current) \o Append(<<>>, appended + 1) = [i \in 1..(appended + 1) |-> i]
    <3>1. <<>> \in Seq(Nat) /\ appended \in Nat
      BY LinesTyped DEF LogInv
    <3> QED  BY <2>5, <3>1, OneMoreLine
  <2>7. Append(<<>>, appended + 1) = current'
    BY <1>1
  <2>8. Before' \o current' = [i \in 1..(appended + 1) |-> i]
    BY <2>4, <2>6, <2>7
  <2> QED  BY <2>8 DEF AppendToNext, LinesInOrder, Before
<1> QED
  BY <1>2, <1>3, <1>4 DEF LogInv

\* The swap: what was to be written next is what the writing thread has now.
LEMMA TakeKeeps ==
  ASSUME LogInv, TakeNow \/ Timeout
  PROVE  LogInv'
<1>1. /\ writerAt # "writing" /\ writerAt' = "writing"
      /\ Take /\ UNCHANGED <<running, stopperAt, notified, appended, out>>
      /\ stopperAt # "none"
  BY DEF TakeNow, Timeout, WriterStep, Take, LogInv, BuffersGoRound
<1>2. /\ toWrite = <<>> /\ newBuffer1 = Empty /\ newBuffer2 = Empty
  BY <1>1 DEF LogInv, LogTypeOK, BuffersGoRound
<1>3. /\ toWrite' = Append(buffers, current) /\ buffers' = <<>>
      /\ current' = Empty /\ newBuffer1' = Null
      /\ next' = Empty
      /\ IF next = Null THEN newBuffer2' = Null ELSE newBuffer2' = Empty
  BY <1>1, <1>2 DEF Take, LogInv, LogTypeOK
<1>4. <<>> \in Seq(Buffer) /\ Empty \in Buffer /\ Empty = <<>> /\ Empty # Null
  <2>1. <<>> \in Seq(1..MaxLines) /\ <<>> \in Seq(Buffer)
    OBVIOUS
  <2> QED  BY <2>1, NullAssumption DEF Empty, Buffer
<1>5. LogTypeOK'
  <2>1. toWrite' \in Seq(Buffer)
    BY <1>3 DEF LogInv, LogTypeOK
  <2>2. running' \in BOOLEAN /\ notified' \in BOOLEAN
    BY <1>1, Zenon DEF LogInv, LogTypeOK
  <2> QED  BY <1>1, <1>3, <1>4, <2>1, <2>2 DEF LogInv, LogTypeOK
<1>6. BuffersGoRound'
  <2>1. buffers \in Seq(Buffer) /\ current \in Buffer
    BY DEF LogInv, LogTypeOK
  <2>2. toWrite' # <<>> /\ Len(toWrite') = Len(buffers) + 1
    BY <1>3, <2>1
  <2>3. next = Null => Len(buffers) > 0
    BY <2>1 DEF LogInv, BuffersGoRound
  <2>4. newBuffer2' = Null => HasSecond'
    BY <1>3, <1>4, <2>1, <2>2, <2>3 DEF HasSecond
  <2> QED  BY <1>1, <1>3, <1>4, <2>2, <2>4 DEF BuffersGoRound
<1>7. LinesInOrder'
  <2>1. FlattenSeq(<<>>) = <<>>
    BY FlattenSeqIs
  <2>2. FlattenSeq(toWrite') = FlattenSeq(buffers) \o current
    <3>1. buffers \in Seq(Seq(Lines)) /\ current \in Seq(Lines)
      BY DEF LogInv, LogTypeOK, Buffer, Lines
    <3> QED  BY <1>3, <3>1, FlattenAppend
  <2>3. (out \o FlattenSeq(buffers)) \o current = [i \in 1..appended |-> i]
    <3>1. out \o FlattenSeq(toWrite) = out
      BY <1>2, <2>1, LinesTyped, ConcatEmptySeq DEF LogInv
    <3> QED  BY <3>1 DEF LogInv, LinesInOrder
  <2>4. /\ (out \o FlattenSeq(buffers)) \o current = out \o (FlattenSeq(buffers) \o current)
        /\ out \o (FlattenSeq(buffers) \o current) \in Seq(Nat)
    <3>1. /\ out \in Seq(Nat) /\ FlattenSeq(buffers) \in Seq(Nat) /\ current \in Seq(Nat)
      BY LinesTyped DEF LogInv
    <3> QED  BY <3>1, Regroup
  <2>5. ((out \o FlattenSeq(toWrite')) \o <<>>) \o <<>> = out \o (FlattenSeq(buffers) \o current)
    BY <2>2, <2>4, ConcatEmptySeq
  <2>6. ((out' \o FlattenSeq(toWrite')) \o FlattenSeq(buffers')) \o current'
          = [i \in 1..appended' |-> i]
    BY <1>1, <1>3, <1>4, <2>1, <2>3, <2>4, <2>5
  <2> QED  BY <2>6 DEF LinesInOrder
<1> QED
  BY <1>5, <1>6, <1>7 DEF LogInv

LEMMA WriteKeeps ==
  ASSUME LogInv, Write
  PROVE  LogInv'
<1> USE DEF sharedVars, WriterStep
<1>1. Empty \in Buffer /\ Empty = <<>> /\ Empty # Null /\ <<>> \in Seq(Buffer)
  <2>1. <<>> \in Seq(1..MaxLines) /\ <<>> \in Seq(Buffer)
    OBVIOUS
  <2> QED  BY <2>1, NullAssumption DEF Empty, Buffer
<1>2. /\ newBuffer1' = Empty /\ newBuffer2' = Empty /\ toWrite' = <<>>
  BY DEF Write, Reset, LogInv, LogTypeOK, BuffersGoRound
<1>3. LogTypeOK'
  <2>1. out' \in Buffer
    <3>1. FlattenSeq(toWrite) \in Seq(Lines) /\ out \in Seq(Lines)
      BY FlattenTyped DEF LogInv, LogTypeOK, Buffer, Lines
    <3> QED  BY <3>1, ConcatProperties DEF Write, Buffer, Lines
  <2>2. running' \in BOOLEAN /\ notified' \in BOOLEAN
    BY Zenon DEF LogInv, LogTypeOK, Write
  <2> QED  BY <1>1, <1>2, <2>1, <2>2 DEF LogInv, LogTypeOK, Write
<1>4. BuffersGoRound'
  BY <1>2 DEF LogInv, BuffersGoRound, Write
<1>5. LinesInOrder'
  <2>1. FlattenSeq(<<>>) = <<>>
    BY FlattenSeqIs
  <2>2. out \o FlattenSeq(toWrite) \in Seq(Nat)
    BY LinesTyped, ConcatProperties DEF LogInv
  <2>3. (out \o FlattenSeq(toWrite)) \o <<>> = out \o FlattenSeq(toWrite)
    BY <2>2, ConcatEmptySeq
  <2>4. out' \o FlattenSeq(toWrite') = out \o FlattenSeq(toWrite)
    BY <1>2, <2>1, <2>3 DEF Write
  <2> QED  BY <2>4 DEF LogInv, LinesInOrder, Write
<1> QED
  BY <1>3, <1>4, <1>5 DEF LogInv

LEMMA LogInvNext == LogInv /\ [LogNext]_logVars => LogInv'
<1> SUFFICES ASSUME LogInv, [LogNext]_logVars PROVE LogInv'
  OBVIOUS
<1>1. CASE Start \/ SetStop \/ NotifyStop \/ Join \/ Test \/ TestAgain \/ Wait \/ Block \/ Wake
           \/ UNCHANGED logVars
  <2>1. UNCHANGED <<sharedVars, ownVars>>
    BY <1>1 DEF Start, SetStop, NotifyStop, Join, Test, TestAgain, Wait, Block, Wake, logVars
  <2> QED  BY <1>1, <2>1, ControlKeeps
<1> QED
  BY <1>1, AppendInPlaceKeeps, AppendToNextKeeps, TakeKeeps, WriteKeeps DEF LogNext, Writer

\* At any moment the lines written and those in the buffers, in the order in which they
\* will be written, are those that threads have logged: AsyncLogging neither loses,
\* repeats nor mixes up a line.
THEOREM LinesAlwaysInOrder == LogSpec => []LinesInOrder
<1>1. LogInv => LinesInOrder
  BY DEF LogInv
<1> QED
  BY <1>1, LogInvInit, LogInvNext, PTL DEF LogSpec

=============================================================================
