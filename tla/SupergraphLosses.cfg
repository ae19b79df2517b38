SPECIFICATION ESpec
CONSTANTS
  Files <- MCRangeCall
  Explored <- MCRangeCall
  Span = 64
INVARIANT SupergraphComplete
CHECK_DEADLOCK FALSE
