CONSTANTS
  gui = gui
  worker = worker
  Threads = {gui, worker}
  Reader = worker
  NoThread = nobody
  Knobs = {"System"}
  MaxSteps = 1
  Gap = 0
  Faults = {"read"}
  GuiCalls = {"mix"}
  Deltas = {1}
SPECIFICATION MixSpec
PROPERTY DualMixesStayApart
