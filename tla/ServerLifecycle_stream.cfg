CONSTANTS
  Requests = {r1, stream}
  Streams = {stream}
  Nobody = Nobody
  MaxFailures = 0
  Patient = TRUE
SPECIFICATION Spec
PROPERTY StopsCleanly
CHECK_DEADLOCK FALSE
