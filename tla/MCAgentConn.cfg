SPECIFICATION Spec
CONSTANTS
  Sockets = {ws1, ws2}
  NoSocket = NoSocket
  ChatRequests = {c1}
  CodingRequests = {}
  WorkspaceRequests = {w1}
  MaxConcurrency = 2
  ProgressFrames = 1
  SeqBound = 2
INVARIANTS SlotAccounting NoOrphanWaiter
PROPERTY RequestsEnd
CHECK_DEADLOCK FALSE
