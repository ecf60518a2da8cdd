SPECIFICATION SystemSpec
CONSTANTS
  p1 = p1
  p2 = p2
  Clients = {p1, p2}
  AccountOf <- MCAccountOf
  Strangers = {}
  Impatient = {p1, p2}
  MaxInFlight = 2
  Connections = {1, 2, 3}
  InitialElo <- MCBothEnrolled
  Heroes = {"Warrior"}
  EloMax = 4000
  MaxUserId = 2
  TimeStep = 1
  MaxTime = 0
  MaxRoomId = 2
VIEW WithoutSent
INVARIANT
  LobbyObeysServer
