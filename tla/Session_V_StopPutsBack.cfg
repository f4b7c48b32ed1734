CONSTANTS
  Registers = {"SelectedMix", "KnobLedBrightness", "KnobLedSelect", "CreatorMixLevels", "AudienceMixLevels"}
  MaxFaults = 0
  MaxUnplugs = 0
  MaxSets = 0
SPECIFICATION SessionSpec
INVARIANT StopPutsBack
CHECK_DEADLOCK FALSE
