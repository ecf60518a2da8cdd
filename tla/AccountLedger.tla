---------------------------- MODULE AccountLedger ----------------------------
(***************************************************************************)
(* The table AccountRepository (src/server/game/AccountRepository.cc)      *)
(* keeps in memory, as its callers see it: every operation either happens  *)
(* as a whole or leaves no trace, and `saved` is what save() returned. The *)
(* file behind it, and what a crash does, are AccountRepository's.         *)
(*                                                                         *)
(* A value A of the table is [elo, nextUserId]: the ELO of each registered *)
(* user id and the id the next one gets. Names and passwords are left out: *)
(* an account is known by its id, and a request either verifies or not.    *)
(***************************************************************************)
EXTENDS Naturals, UnorderedMap

CONSTANT
  MaxUserId   \* std::numeric_limits<uint32_t>::max(), the last id there is

ASSUME MaxUserIdAssumption == MaxUserId \in Nat \ {0}

kInitialElo == 1000

Registered(A) == DOMAIN A.elo

\* nextUserId_ as load() computes it: one past the largest id in the file, and
\* 0 once the largest possible id has been given away.
NextUserIdAfter(ids) ==
  CASE MaxUserId \in ids -> 0
    [] ids = {}          -> 1
    [] OTHER             -> 1 + CHOOSE id \in ids : \A other \in ids : other <= id

Loaded(elo) == [elo |-> elo, nextUserId |-> NextUserIdAfter(DOMAIN elo)]

\* Register() of a name nobody has succeeds if an id is left and save() works.
CanRegister(A, saved) == A.nextUserId # 0 /\ saved

\* Faulty variant, to confirm that TypeOK can fail: the last id is not noticed.
RegisterPastTheLast(A) ==
  [elo |-> Put(A.elo, A.nextUserId, kInitialElo), nextUserId |-> A.nextUserId + 1]

Register(A) ==
  [elo        |-> Put(A.elo, A.nextUserId, kInitialElo),
   nextUserId |-> IF A.nextUserId = MaxUserId THEN 0 ELSE A.nextUserId + 1]

\* updateEloPair() returns true: two registered users, and save() works.
CanUpdateEloPair(A, first, second, saved) ==
  /\ first # second
  /\ {first, second} \subseteq Registered(A)
  /\ saved

UpdateEloPair(A, first, firstElo, second, secondElo) ==
  [A EXCEPT !.elo = [@ EXCEPT ![first] = firstElo, ![second] = secondElo]]

-----------------------------------------------------------------------------
\* The type of the table.
IsLedger(A, elos) ==
  /\ DOMAIN A = {"elo", "nextUserId"}
  /\ IsTable(A.elo, 1..MaxUserId, elos)
  /\ A.nextUserId \in 0..MaxUserId

=============================================================================
