CONSTANTS
  Registers = {"SelectedMix", "KnobLedSelect", "CreatorMixLevels", "AudienceMixLevels"}
  MaxFaults = 2
  MaxUnplugs = 1
  MaxSets = 1
SPECIFICATION SessionFairSpec
INVARIANTS SessionInv SettingsComeBack
PROPERTIES Reconnects StopEnds
CHECK_DEADLOCK FALSE
