SPECIFICATION Spec
CONSTANTS
  Names = {alice, bob, carol}
  MaxUserId = 3
  NoFile = NoFile
  Elos = {975, 1000}
SYMMETRY Symmetry
INVARIANTS
  IdleMatchesFile
  AcknowledgedAreDurable
PROPERTY
  ImplementsLedger
