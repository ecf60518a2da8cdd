SPECIFICATION Spec
CONSTANTS
  Connections = {c1, c2, c3, c4}
  InitialElo <- MCInitialElo
  Heroes = {"Warrior"}
  EloMax = 1020
  MaxUserId = 4
  TimeStep = 10
  MaxTime = 10
  MaxRoomId = 1
SYMMETRY Symmetry
VIEW WithoutSent
PROPERTY
  ImplementsArena
