SPECIFICATION MCSpec
CONSTANTS
  d = d
  e = e
  Devices = {d, e}
  First = d
  MaxSessions = 2
  MaxRows = 1
  Nobody = Nobody
  Fresh = 0
  Life <- MCLife
  RecoveryWait = 1
  EpochLimit = 1
  Changes <- MCChanges
  MaxSeq = 3
  MaxRestores = 1
  Requests = {q1, q2, q3, q4}
  MaxCounter = 3
  Width = 2
  Secrets = 3
  MaxStep = 3
  Codes = {0, 1}
  CodeAt <- MCCodeAt
  Sources = {s1, s2}
  Name = name
  MaxAttempts = 2
  Window = 3
  Base = 1
  Cap = 2
  MaxTime = 6
INVARIANTS
  RowsSound
  SessionsLive
  CancelledMeansWaiting
  CountersExact
  CodeOnce
  LimitsExact
PROPERTIES
  RevocationStands
CHECK_DEADLOCK FALSE
