CONSTANTS
  gui = gui
  worker = worker
  Threads = {gui, worker}
  Reader = worker
  NoThread = nobody
  Knobs = {"System"}
  MaxSteps = 1
  Gap = 1
  Faults = {}
  GuiCalls = {"level", "mix"}
  Deltas = {1}
SPECIFICATION MixSpec
INVARIANTS MixInv
PROPERTY OnlyTheBlindCollapse
