-------------------------- MODULE AccountRepository --------------------------
(***************************************************************************)
(* AccountRepository (src/server/game/AccountRepository.cc) with the file  *)
(* system under it. Register and updateEloPair change the table in memory  *)
(* first, then save() writes the whole table to a temporary file, flushes  *)
(* it and renames it over the account file; any of these can fail, and the *)
(* process can die between any two. load() at the next start is all that   *)
(* is left of the memory. What a power failure does is not modelled: the   *)
(* code never calls fsync and nothing says what it expects.                *)
(*                                                                         *)
(* A file is a table: name -> [userId, elo]. Passwords are left out.       *)
(***************************************************************************)
EXTENDS Naturals, UnorderedMap

CONSTANTS
  Names,      \* user names
  MaxUserId,  \* std::numeric_limits<uint32_t>::max(), the last id there is
  Elos,       \* the ELOs updateEloPair is called with
  NoFile      \* stands for a file that does not exist

kInitialElo == 1000

Accounts == [userId : 1..MaxUserId, elo : Elos]

ASSUME RepositoryAssumption ==
  /\ MaxUserId \in Nat \ {0} /\ Elos \subseteq Nat /\ kInitialElo \in Elos
  /\ \A names \in SUBSET Names : NoFile \notin [names -> Accounts]

VARIABLES
  pc,         \* where the process is, see Places
  accounts,   \* accounts_
  nextUserId, \* nextUserId_
  op,         \* the operation under way and what it needs to roll back
  unwritten,  \* save(): the names still to be written to the temporary file
  good,       \* save(): output.good()
  tmp,        \* the temporary file, or NoFile
  file,       \* the account file, or NoFile
  told        \* history: the id each name was told when it registered

vars == <<pc, accounts, nextUserId, op, unwritten, good, tmp, file, told>>

NoOp == [kind |-> "none"]

Places == {"down", "idle", "opening", "writing", "renaming", "saved", "failed"}

Init ==
  /\ pc = "down"
  /\ accounts = <<>> /\ nextUserId = 1
  /\ op = NoOp
  /\ unwritten = {} /\ good = TRUE
  /\ tmp = NoFile /\ file = NoFile
  /\ told = <<>>

-----------------------------------------------------------------------------
IdsOf(table) == {table[name].userId : name \in DOMAIN table}

\* nextUserId as load() computes it while it reads the records.
NextUserId(table) ==
  CASE MaxUserId \in IdsOf(table) -> 0
    [] table = <<>>               -> 1
    [] OTHER -> 1 + CHOOSE id \in IdsOf(table) : \A other \in IdsOf(table) : other <= id

\* A missing file is an empty one.
Contents(f) == IF f = NoFile THEN <<>> ELSE f

\* load(), in a process that has just started.
Load ==
  /\ pc = "down"
  /\ pc' = "idle"
  /\ accounts' = Contents(file)
  /\ nextUserId' = NextUserId(Contents(file))
  /\ UNCHANGED <<op, unwritten, good, tmp, file, told>>

\* Register() of a name that is free, an id being left. Otherwise it returns
\* an error before it changes anything.
Register(name) ==
  /\ pc = "idle"
  /\ name \notin DOMAIN accounts
  /\ nextUserId # 0
  /\ accounts' = Put(accounts, name, [userId |-> nextUserId, elo |-> kInitialElo])
  /\ op' = [kind |-> "register", name |-> name]
  /\ pc' = "opening"
  /\ UNCHANGED <<nextUserId, unwritten, good, tmp, file, told>>

\* updateEloPair() of two accounts that exist.
UpdateEloPair(first, second, firstElo, secondElo) ==
  /\ pc = "idle"
  /\ first # second
  /\ {first, second} \subseteq DOMAIN accounts
  /\ accounts' = [accounts EXCEPT ![first].elo = firstElo, ![second].elo = secondElo]
  /\ op' = [kind |-> "update", first |-> first, second |-> second,
            oldFirst |-> accounts[first].elo, oldSecond |-> accounts[second].elo]
  /\ pc' = "opening"
  /\ UNCHANGED <<nextUserId, unwritten, good, tmp, file, told>>

-----------------------------------------------------------------------------
(* save(), one system call at a time. *)

\* Faulty variant, to confirm that ImplementsLedger can fail: what a crash left in
\* the temporary file stays there.
OpenTempToAppend ==
  /\ pc = "opening"
  /\ \/ /\ tmp' = Contents(tmp) /\ unwritten' = DOMAIN accounts /\ good' = TRUE
        /\ pc' = "writing"
     \/ pc' = "failed" /\ UNCHANGED <<tmp, unwritten, good>>
  /\ UNCHANGED <<accounts, nextUserId, op, file, told>>

\* The stream opens the temporary file and empties it, whatever was in it.
OpenTemp ==
  /\ pc = "opening"
  /\ \/ /\ tmp' = <<>> /\ unwritten' = DOMAIN accounts /\ good' = TRUE
        /\ pc' = "writing"
     \/ pc' = "failed" /\ UNCHANGED <<tmp, unwritten, good>>
  /\ UNCHANGED <<accounts, nextUserId, op, file, told>>

\* A record reaches the file, in the order of the hash table.
WriteRecord(name) ==
  /\ pc = "writing" /\ good
  /\ name \in unwritten
  /\ tmp' = Put(tmp, name, accounts[name])
  /\ unwritten' = unwritten \ {name}
  /\ UNCHANGED <<pc, accounts, nextUserId, op, good, file, told>>

\* The device is full: the stream goes bad and later output is dropped.
WriteFails ==
  /\ pc = "writing" /\ good
  /\ good' = FALSE
  /\ UNCHANGED <<pc, accounts, nextUserId, op, unwritten, tmp, file, told>>

\* Faulty variant, to confirm that AcknowledgedAreDurable can fail: the state of
\* the stream is not looked at before the rename.
FlushUnchecked ==
  /\ pc = "writing"
  /\ ~good \/ unwritten = {}
  /\ pc' = "renaming"
  /\ UNCHANGED <<accounts, nextUserId, op, unwritten, good, tmp, file, told>>

\* std::remove of the temporary file, whose result save() ignores.
RemoveTemp == tmp' \in {NoFile, tmp}

\* flush() and the test of good(): a bad stream removes the temporary file.
Flush ==
  /\ pc = "writing"
  /\ \/ good /\ unwritten = {} /\ pc' = "renaming" /\ UNCHANGED tmp
     \/ ~good /\ pc' = "failed" /\ RemoveTemp
  /\ UNCHANGED <<accounts, nextUserId, op, unwritten, good, file, told>>

Rename ==
  /\ pc = "renaming"
  /\ \/ pc' = "saved" /\ file' = tmp /\ tmp' = NoFile
     \/ pc' = "failed" /\ UNCHANGED file /\ RemoveTemp
  /\ UNCHANGED <<accounts, nextUserId, op, unwritten, good, told>>

\* save() returned true: a new id is used up, and the client is told.
Succeed ==
  /\ pc = "saved"
  /\ pc' = "idle" /\ op' = NoOp
  /\ IF op.kind = "register"
       THEN /\ nextUserId' = IF nextUserId = MaxUserId THEN 0 ELSE nextUserId + 1
            /\ told' = Put(told, op.name, accounts[op.name].userId)
       ELSE UNCHANGED <<nextUserId, told>>
  /\ UNCHANGED <<accounts, unwritten, good, tmp, file>>

\* Faulty variant, to confirm that IdleMatchesFile can fail: the second player of
\* a pair keeps an ELO that was never saved.
RolledBackFirst ==
  IF op.kind = "register"
    THEN Erase(accounts, op.name)
    ELSE [accounts EXCEPT ![op.first].elo = op.oldFirst]

\* save() returned false: the table in memory goes back to what it was.
RolledBack ==
  IF op.kind = "register"
    THEN Erase(accounts, op.name)
    ELSE [accounts EXCEPT ![op.first].elo = op.oldFirst, ![op.second].elo = op.oldSecond]

Fail ==
  /\ pc = "failed"
  /\ pc' = "idle" /\ op' = NoOp
  /\ accounts' = RolledBack
  /\ UNCHANGED <<nextUserId, unwritten, good, tmp, file, told>>

\* The process dies: both files stay as they are.
Crash ==
  /\ pc # "down"
  /\ pc' = "down"
  /\ accounts' = <<>> /\ nextUserId' = 1
  /\ op' = NoOp /\ unwritten' = {} /\ good' = TRUE
  /\ UNCHANGED <<tmp, file, told>>

Next ==
  \/ Load
  \/ \E name \in Names : Register(name) \/ WriteRecord(name)
  \/ \E first, second \in Names, firstElo, secondElo \in Elos :
       UpdateEloPair(first, second, firstElo, secondElo)
  \/ OpenTemp \/ WriteFails \/ Flush \/ Rename
  \/ Succeed \/ Fail
  \/ Crash

Spec == Init /\ [][Next]_vars

-----------------------------------------------------------------------------
\* Memory, files and history have the shape the code gives them.
TypeOK ==
  /\ pc \in Places
  /\ IsTable(accounts, Names, Accounts)
  /\ nextUserId \in 0..MaxUserId
  /\ unwritten \subseteq Names
  /\ good \in BOOLEAN
  /\ tmp = NoFile \/ IsTable(tmp, Names, Accounts)
  /\ file = NoFile \/ IsTable(file, Names, Accounts)
  /\ IsTable(told, Names, 1..MaxUserId)

\* Whenever no operation is under way the table in memory is the one in the
\* file, and the next id is one no record in the file has: after a failed save
\* both halves of a pair and a half-made registration have been undone, after
\* a crash nothing of the interrupted operation is half there.
IdleMatchesFile ==
  pc = "idle" =>
    /\ accounts = Contents(file)
    /\ nextUserId \notin IdsOf(accounts)

\* A name that was told its registration succeeded is in the file with the id
\* it was told, for ever, and no other name has that id, although a crash may
\* have come between the rename and the answer of another registration.
AcknowledgedAreDurable ==
  \A name \in DOMAIN told :
    /\ name \in DOMAIN Contents(file)
    /\ Contents(file)[name].userId = told[name]
    /\ \A other \in DOMAIN Contents(file) \ {name} :
         Contents(file)[other].userId # told[name]

-----------------------------------------------------------------------------
\* The ledger is what load() would make of the file now.
LedgerOf(table) ==
  [elo |-> [id \in IdsOf(table) |->
              table[CHOOSE name \in DOMAIN table : table[name].userId = id].elo],
   nextUserId |-> NextUserId(table)]

L == INSTANCE DurableLedger WITH ledger <- LedgerOf(Contents(file))

\* Through every failure of a system call and every crash, the file changes by
\* one whole registration or one whole pair of ELOs at a time, or not at all.
ImplementsLedger == L!Spec

=============================================================================
