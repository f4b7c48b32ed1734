CONSTANTS
  Params = {"ReverbLevel", "ReverbDamp"}
  Effects = {"DelayEffect"}
  MaxValue = 1
  Default = 0
  MaxSets = 1
  MaxRuns = 2
SPECIFICATION EffectsSpec
INVARIANTS EffectsInv BodyIsOnTheDeck EnablesHaveTheFinalWord NoStrangersChain NextRunStartsWhereLastEnded
CHECK_DEADLOCK FALSE
