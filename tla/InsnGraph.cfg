SPECIFICATION ESpec
CONSTANTS
  Files <- MCFiles
  Explored <- MCExplored
  Span = 64
INVARIANTS
  GraphFaithful
  HandlersFaithful
  LinesFaithful
  InsnFound
  SupergraphExact
CHECK_DEADLOCK FALSE
