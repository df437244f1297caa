\* Both signals and two connections.
SPECIFICATION FairLSpec
CONSTANTS
  Conns = {c1, c2}
  Signals = {"SIGTERM", "SIGINT"}
INVARIANTS LInv NobodyWaitsAtTheEnd
PROPERTIES ClosingServersEnd
CHECK_DEADLOCK FALSE
