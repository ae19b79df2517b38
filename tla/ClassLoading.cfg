SPECIFICATION IFairSpec
CONSTANTS
  app = app  sys = sys  other = other  nowhere = nowhere
  o = o  a = a  b = b  c = c  i = i
  init = init  m = m  k = k
  x = x  y = y  z = z
  NoHdl = NoHdl
  Main = Main  View = View
  Worlds <- MCWorlds
INVARIANTS
  DefiningHandle
  FieldLayout
  ParentsFirst
  OverridesComplete
PROPERTIES
  Resolution
  HandlesNeverMove
  Answered
