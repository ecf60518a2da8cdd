---------------------------- MODULE DurableLedger ----------------------------
(***************************************************************************)
(* The accounts as a table that survives everything: each change is one of *)
(* AccountLedger's, happens at once, and is never undone. This is what the *)
(* rest of the server takes accountRepository_ for; AccountRepository is   *)
(* shown to implement it with a file, a temporary file and crashes.        *)
(***************************************************************************)
EXTENDS AccountLedger

CONSTANT Elos     \* the ELOs an account may be given

VARIABLE ledger   \* [elo, nextUserId], as in AccountLedger

Init == ledger = Loaded(<<>>)

RegisterOne == CanRegister(ledger, TRUE) /\ ledger' = Register(ledger)

UpdatePair ==
  \E first, second \in Registered(ledger), firstElo, secondElo \in Elos :
    /\ CanUpdateEloPair(ledger, first, second, TRUE)
    /\ ledger' = UpdateEloPair(ledger, first, firstElo, second, secondElo)

Spec == Init /\ [][RegisterOne \/ UpdatePair]_ledger

=============================================================================
