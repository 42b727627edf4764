SPECIFICATION Spec
CONSTANTS
  B1 = B1
  B2 = B2
  None = None
  Builds <- TwoBuilds
  Repair = R
  MaxFaults = 5
INVARIANTS TypeOK WholeInUse RecordSound
PROPERTY Recovers
