CONSTANTS
  c1 = c1
  c2 = c2
  c3 = c3
  NoCmd = NoCmd
  Commands <- MCCommands
SPECIFICATION WFairSpec
PROPERTIES KeepsSlot EveryCommandReturns
