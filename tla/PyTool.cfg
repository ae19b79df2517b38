SPECIFICATION FairSpec
CONSTANTS
  FMain = FMain  FHelper = FHelper  FLib = FLib  FLibHelper = FLibHelper  FRun = FRun
  MRun = MRun  MStop = MStop  Module = Module  Obj = Obj  Class = Class  Sqrt = Sqrt
  Main = Main  Util = Util  Data = Data  Library = Library
  NoCode = NoCode
  MaxDepth = 6
  Object <- MCObject
  Part <- MCPart
  Self <- MCSelf
  File <- MCFile
  Programs <- MCPrograms
INVARIANTS
  CalleesRecorded
  CalleeExact
  FlowGraphsFaithful
  DependenciesExact
PROPERTY Terminates
CHECK_DEADLOCK FALSE
