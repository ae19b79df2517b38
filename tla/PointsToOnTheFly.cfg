SPECIFICATION FairSpec
CONSTANTS
  NoInsn = NoInsn
  NoField = NoField
  NoType = NoType
  NoMethod = NoMethod
  NoVertex = NoVertex
  OnTheFly = TRUE
  Programs <- MCPrograms
  Method <- MCMethod
  Type <- MCType
  Field <- MCField
  StaticField <- MCStaticField
  SuperclassOf <- MCSuperclassOf
  FieldClass <- MCFieldClass
  Dispatch <- MCDispatch
  Overrides <- MCOverrides
  Params <- MCParams
  ReturnsRef = {"Am", "Bm"}
  IsAbstract = {}
  MaxRounds = 20
INVARIANTS
  DispatchComplete
  HeapConnected
  Precise
PROPERTY
  Terminates
CHECK_DEADLOCK FALSE
