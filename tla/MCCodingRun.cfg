SPECIFICATION Spec
CONSTANTS
  Runs = {r1}
  Sockets = {ws1, ws2}
  NoSocket = NoSocket
  NoRun = NoRun
  Cancellers = {u1, u2}
INVARIANTS
  SuccessIsDurable
  CaptureExclusive
  CancelFailClosed
PROPERTIES
  DroppedRunsSettle
  ImplementsLedger
  ResumeTellsAll
CHECK_DEADLOCK FALSE
