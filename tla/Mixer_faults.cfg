CONSTANTS
  gui = gui
  worker = worker
  Threads = {gui, worker}
  Reader = worker
  NoThread = nobody
  Knobs = {"System"}
  MaxSteps = 1
  Gap = 0
  Faults = {"write", "read"}
  GuiCalls = {"mix"}
  Deltas = {1}
SPECIFICATION MixFairSpec
INVARIANTS MixInv SelectionAgrees StaleLevelsAreReread
PROPERTIES RereadComes
