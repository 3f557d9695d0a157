SPECIFICATION MigrationSpec
CONSTANTS
  r1 = r1  r2 = r2  r3 = r3  r4 = r4
  Record = {r1, r2, r3, r4}
  HeightOf <- Heights
  FileSets <- Arrangements
  Bad = Bad
  EndHeight = 4
  MaxRuns = 3
INVARIANTS MigrationTypeOK HeightHonest RepeatedOnlyByFailure
PROPERTY CoveredNeverRepeated
CHECK_DEADLOCK FALSE
