SPECIFICATION FairSpec
CONSTANTS
  Main = Main  A = A  B = B  C = C  E = E  Gone = Gone
  main = main  run = run  go = go  field = field  clinit = clinit
  Class <- MCClass
  Name <- MCName
  Clinit <- clinit
  Programs <- MCPrograms
INVARIANTS
  VisitedClosed
  OneEdgePerCall
  ChaExact
PROPERTY Terminates
CHECK_DEADLOCK FALSE
