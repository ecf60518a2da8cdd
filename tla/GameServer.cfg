SPECIFICATION ViewSpec
CONSTANTS
  Connections = {c1, c2, c3}
  InitialElo <- MCInitialElo
  Heroes = {"Warrior", "Mage"}
  EloMax = 4000
  MaxUserId = 4
  TimeStep = 10
  MaxTime = 10
  MaxRoomId = 2
SYMMETRY Symmetry
VIEW WithoutSent
INVARIANTS
  TypeOK
  SessionsInverse
  QueuedPlayersAreFree
  RoomsMatchSessions
  BattlesMatchRooms
  EloAgreesWithAccount
  PlayersAreToldTheTruth
