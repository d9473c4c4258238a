SPECIFICATION Spec
CONSTANTS
  i1 = i1
  i2 = i2
  i3 = i3
  f1 = f1
  f2 = f2
  Intents = {i1, i2, i3}
  Holding = {i1, i2}
  Amount <- TwoTwoOne
  Opening = 3
  WindowCap = 3
  Feeds = {f1, f2}
  NoIntent = NoIntent
SYMMETRY Symmetries
INVARIANTS TypeOK  CapExactWhenSequential
PROPERTIES ReservationsFit ImplementsSettlement
