SPECIFICATION FairSpec
CONSTANTS
  Users = {1, 2, 3, 4}
  Elos = {1000, 1100, 1501}
  TimeStep = 10
  MaxTime = 30
  LastJoin = 10
INVARIANTS
  TypeOK
  IndicesAgree
  NoPairLeftBehind
PROPERTIES
  MatchesAreBest
  NobodyStarves
  TicksReturn
