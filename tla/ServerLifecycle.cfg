CONSTANTS
  Requests = {r1, r2, stream}
  Streams = {stream}
  Nobody = Nobody
  MaxFailures = 1
  Patient = FALSE
SPECIFICATION Spec
INVARIANTS OneMonitor
PROPERTIES RefusedForCause RequestsEnd SignalEnds
CHECK_DEADLOCK FALSE
