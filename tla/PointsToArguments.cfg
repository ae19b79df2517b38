SPECIFICATION Spec
CONSTANTS
  NoInsn = NoInsn
  NoField = NoField
  NoType = NoType
  NoMethod = NoMethod
  NoVertex = NoVertex
  OnTheFly = TRUE
  Programs <- MCArgumentPrograms
  Method <- MCMethod
  Type <- MCType
  Field <- MCField
  StaticField <- MCStaticField
  SuperclassOf <- MCSuperclassOf
  FieldClass <- MCFieldClass
  Dispatch <- MCDispatch
  Overrides <- MCOverrides
  Params <- MCParams
  ReturnsRef = {"Am", "Bm"}
  IsAbstract = {}
  MaxRounds = 0
INVARIANT ArgumentsArrive
CHECK_DEADLOCK FALSE
