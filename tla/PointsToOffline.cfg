SPECIFICATION FairSpec
CONSTANTS
  NoInsn = NoInsn
  NoField = NoField
  NoType = NoType
  NoMethod = NoMethod
  NoVertex = NoVertex
  OnTheFly = FALSE
  Programs <- MCPrograms
  Method <- MCMethod
  Type <- MCType
  Field <- MCField
  StaticField <- MCStaticField
  SuperclassOf <- MCSuperclassOf
  FieldClass <- MCFieldClass
  Dispatch <- MCDispatch
  Overrides <- MCOverrides
  Params <- MCParams
  ReturnsRef = {"Am", "Bm"}
  IsAbstract = {}
  MaxRounds = 20
INVARIANTS
  TypeOK
  WorklistIsDirty
  NoStrandedElement
  FlowClosed
  HeapConnected
  Exact
PROPERTIES
  NothingLost
  ImplementsSolver
CHECK_DEADLOCK FALSE
