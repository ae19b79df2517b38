SPECIFICATION Spec
CONSTANTS
  Main = Main  A = A  B = B  C = C  E = E  Gone = Gone
  main = main  run = run  go = go  field = field  clinit = clinit
  Class <- MCClass
  Name <- MCName
  Clinit <- clinit
  Programs <- MCLatePrograms
INVARIANT HierarchyCovered
CHECK_DEADLOCK FALSE
