---------------------------- MODULE BattleService ----------------------------
(***************************************************************************)
(* BattleService (src/server/game/BattleService.cc): the duels in progress, *)
(* keyed by room id, the attack and forfeit rules, and the ELO a finished  *)
(* duel is worth. A value B of the service is its table of BattleStates.   *)
(***************************************************************************)
EXTENDS Naturals, UnorderedMap

CONSTANT
  EloMax      \* std::numeric_limits<uint32_t>::max(), the largest ELO

ASSUME EloMaxAssumption == EloMax \in Nat /\ EloMax >= 25

kFullHealth == 100
kEloStake == 25

heroDamage(hero) ==
  CASE hero = "Warrior" -> 30
    [] hero = "Mage"    -> 25
    [] hero = "Archer"  -> 20
    [] OTHER            -> 0

HasBattle(B, id) == id \in DOMAIN B

CanStart(B, id, room) ==
  /\ id # 0
  /\ room.firstUserId # 0 /\ room.secondUserId # 0
  /\ room.firstUserId # room.secondUserId
  /\ heroDamage(room.firstHero) # 0 /\ heroDamage(room.secondHero) # 0
  /\ ~HasBattle(B, id)

\* Faulty variant, to confirm that BattlesEnd can fail: nobody is given the turn.
NewBattleWithoutTurn(room) ==
  [firstUserId  |-> room.firstUserId, secondUserId |-> room.secondUserId,
   firstHero    |-> room.firstHero,   secondHero   |-> room.secondHero,
   firstHealth  |-> kFullHealth,      secondHealth |-> kFullHealth,
   activeUserId |-> 0, finished |-> FALSE, winnerUserId |-> 0]

NewBattle(room) ==
  [firstUserId  |-> room.firstUserId, secondUserId |-> room.secondUserId,
   firstHero    |-> room.firstHero,   secondHero   |-> room.secondHero,
   firstHealth  |-> kFullHealth,      secondHealth |-> kFullHealth,
   activeUserId |-> room.firstUserId, finished     |-> FALSE,
   winnerUserId |-> 0]

StartBattle(B, id, room) == Put(B, id, NewBattle(room))

\* Faulty variant, to confirm that BattlesMatchRooms can fail: a finished battle
\* stays in the table.
KeepBattle(B, id) == B

RemoveBattle(B, id) == Erase(B, id)

\* attack() is accepted: a battle that goes on, the user's turn, and a hero
\* that hits. The active user is always one of the two players.
CanAttack(B, id, user) ==
  /\ HasBattle(B, id)
  /\ ~B[id].finished
  /\ B[id].activeUserId = user
  /\ user \in {B[id].firstUserId, B[id].secondUserId}
  /\ heroDamage(IF user = B[id].firstUserId THEN B[id].firstHero
                                            ELSE B[id].secondHero) # 0

\* End the battle: the winner is set and nobody is active any more.
Won(state, winner) ==
  [state EXCEPT !.finished = TRUE, !.winnerUserId = winner, !.activeUserId = 0]

\* The defender's health after a blow: it never goes below 0.
Subtract(health, damage) == IF health <= damage THEN 0 ELSE health - damage

Hit(state, user) ==
  LET byFirst == user = state.firstUserId
      damage  == heroDamage(IF byFirst THEN state.firstHero ELSE state.secondHero)
      left    == Subtract(IF byFirst THEN state.secondHealth ELSE state.firstHealth,
                          damage)
      struck  == IF byFirst THEN [state EXCEPT !.secondHealth = left]
                            ELSE [state EXCEPT !.firstHealth = left]
  IN  IF left = 0 THEN Won(struck, user)
      ELSE [struck EXCEPT !.activeUserId = IF byFirst THEN state.secondUserId
                                                      ELSE state.firstUserId]

Attack(B, id, user) == [B EXCEPT ![id] = Hit(@, user)]

CanForfeit(B, id, user) ==
  /\ HasBattle(B, id)
  /\ ~B[id].finished
  /\ user \in {B[id].firstUserId, B[id].secondUserId}

Forfeit(B, id, user) ==
  [B EXCEPT ![id] = Won(@, IF user = B[id].firstUserId THEN B[id].secondUserId
                                                       ELSE B[id].firstUserId)]

\* Faulty variant, to confirm that ImplementsArena can fail: the subtraction
\* wraps around as it does on uint32_t.
EloDownWrapping(elo) == (elo + EloMax + 1 - kEloStake) % (EloMax + 1)

\* calculateElo: the winner's ELO saturates at the top of uint32_t, the
\* loser's at 0.
EloUp(elo) == IF elo > EloMax - kEloStake THEN EloMax ELSE elo + kEloStake
EloDown(elo) == IF elo >= kEloStake THEN elo - kEloStake ELSE 0

NewFirstElo(state, elo) ==
  CASE state.winnerUserId = state.firstUserId  -> EloUp(elo)
    [] state.winnerUserId = state.secondUserId -> EloDown(elo)
    [] OTHER -> elo

NewSecondElo(state, elo) ==
  CASE state.winnerUserId = state.firstUserId  -> EloDown(elo)
    [] state.winnerUserId = state.secondUserId -> EloUp(elo)
    [] OTHER -> elo

-----------------------------------------------------------------------------
\* The type of a BattleState between two of `users`.
BattleStates(users, heroes) ==
  [firstUserId : users, secondUserId : users, firstHero : heroes, secondHero : heroes,
   firstHealth : 0..kFullHealth, secondHealth : 0..kFullHealth,
   activeUserId : users \cup {0}, finished : BOOLEAN, winnerUserId : users \cup {0}]

=============================================================================
