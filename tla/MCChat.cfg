SPECIFICATION Spec
CONSTANTS
  team = team
  workspace = workspace
  home = home
  p1 = p1
  p2 = p2
  a1 = a1
  r1 = r1
  r2 = r2
  assistant = assistant
  Team = team
  Workspace = workspace
  Home = home
  Rooms = {home}
  People = {p1, p2}
  Readers = {p1}
  Role <- MCRole
  Agents = {a1}
  Requests = {r1, r2}
  Builtin = assistant
  MaxOps = 4
  MaxMsgs = 3
INVARIANTS
  ArchivedIsOffline
  NothingDangles
  ShownIsDurable
  PageComplete
CHECK_DEADLOCK FALSE
SYMMETRY RequestSymmetry
