CONSTANTS
  i1 = i1
  i2 = i2
  i3 = i3
  bad = bad
  k1 = k1
  k3 = k3
  kb = kb
  NoCmd = NoCmd
  Commands <- Four
  KeyOf <- Keys
  Malformed <- OneBad
  Window = 2
  HasWorker = TRUE
SPECIFICATION LoopSpec
INVARIANTS NTypeOK NoInvokeLost RunsInOrder CacheSound
PROPERTIES KeepsService ReplaysAnswered LoopKeepsTurning EveryInvokeAnswered
