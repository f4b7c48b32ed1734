CONSTANTS
  one = one
  other = other
  Registers = {}
  MaxFaults = 1
  MaxLooks = 2
  MaxMishaps = 1
  MaxUnplugs = 1
  MaxSets = 0
  Senders = {one, other}
  Nobody = nobody
  Sizes = {0, 3}
SPECIFICATION PanelFairSpec
INVARIANTS PanelInv ChunkHasHandle
PROPERTIES OneFrameAtATime ShowsALiveView LastLookIsShown ProgramEnds
CHECK_DEADLOCK FALSE
