\* A signal while the server starts.
SPECIFICATION FairLSpec
CONSTANTS
  Conns = {c1}
  Signals = {"SIGTERM"}
PROPERTIES SignalsEndTheProcess
CHECK_DEADLOCK FALSE
