CONSTANTS
  Registers = {"SelectedMix", "KnobLedSelect", "CreatorMixLevels", "AudienceMixLevels"}
  MaxFaults = 1
  MaxUnplugs = 0
  MaxSets = 0
SPECIFICATION SessionSpec
INVARIANT LevelsAreTheUsers
CHECK_DEADLOCK FALSE
