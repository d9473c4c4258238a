SPECIFICATION Spec
CONSTANTS
  e1 = e1
  e2 = e2
  e3 = e3
  k1 = k1
  Events = {e1, e2, e3}
  Keys = {k1}
  NoKey = NoKey
  NoEvent = NoEvent
  MaxClock = 3
  Offsets = {0}
  MaxWindow = 1
  Second = 2
  MaxLoose = 1
  Cycles = {cron}
  Calls = {call}
SYMMETRY Symmetries
CONSTRAINT Scenarios
INVARIANTS TypeOK ConfirmedIsOnChain LatestIsNewest NothingSkipped ProofsMatchAnchors KeyedOnce ForksOnlyWhenClocksTie
PROPERTIES SchedulerNeverReverts ImplementsEvidence
