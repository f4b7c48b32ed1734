SPECIFICATION BridgeSpec
CONSTANTS
  Tracks = {"Mic"}
  MaxSteps = 2
  Half = 1
  MaxQueue = 2
  MaxCalls = 4
INVARIANT BridgeInv
INVARIANT MirrorFollowsCache
INVARIANT RestoreIsWhatWasHeard
INVARIANT GaugesFollowMirror
