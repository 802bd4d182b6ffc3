SPECIFICATION LifeSpec
CONSTANTS
  Chunks = 2
  MaxClients = 2
  MaxSignals = 2
INVARIANTS
  LifeTypeOK
  JoinedBeforeDestroy
PROPERTIES
  SignalStops
  LoopEndStops
