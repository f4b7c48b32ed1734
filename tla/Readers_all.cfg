SPECIFICATION ReadersSpec
CONSTANTS
  Buttons <- MCButtons
  Knobs <- MCKnobs
  Spots <- MCSpots
  Readings <- MCReadings
  Wrap = 4
  TopLevel = 1
  ButtonCount = 3
  KnobCount = 2
  PressAttempts = 2
  MaxUnlit = 1
  app = app
  probe = probe
  Cells = 2
  Values = {0, 1}
  MaxLength = 2
  Driver = app
  Probe = probe
  Fence = 2
  Dangerous = {}
  MaxChanges = 1
  MaxLostWrites = 1
INVARIANTS ReportsInv MetersAreTold NoPhantomPress WalkInv VerdictsAreTrue AnswersAreTheirs TrialIsUndone
PROPERTIES ContactsInOrder LevelsFollowKnobs LiftIsTold
CHECK_DEADLOCK FALSE
