SPECIFICATION FairSystemSpec
CONSTANTS
  p1 = p1
  p2 = p2
  Clients = {p1, p2}
  AccountOf <- MCAccountOf
  Strangers = {p2}
  Impatient = {p2}
  MaxInFlight = 2
  Connections = {1, 2}
  InitialElo <- MCInitialElo
  Heroes = {"Warrior"}
  EloMax = 4000
  MaxUserId = 2
  TimeStep = 1
  MaxTime = 0
  MaxRoomId = 1
INVARIANTS
  ScreensAgree
  NotificationsFindTheirRoom
  AttacksAreTimely
PROPERTY
  BattlesEnd
