CONSTANTS
  gui = gui
  worker = worker
  Threads = {gui, worker}
  Reader = worker
  NoThread = nobody
  Knobs = {"Mic"}
  MaxSteps = 1
  Gap = 2
  Faults = {"write", "read"}
SPECIFICATION Spec
INVARIANTS TypeOK CacheAgrees LevelWritesSpaced MicPairAgrees
