SPECIFICATION FairSpec
CONSTANTS
  dex1 = dex1  dex2 = dex2
  Name <- MCName
  Relatives <- MCRelatives
  Offset = {1}
  MaxCount = 1
  MaxReports = 2
INVARIANTS
  CountsConserved
  HandlesMatch
  DeltaOfLastReport
PROPERTY UpdateEnds
CHECK_DEADLOCK FALSE
