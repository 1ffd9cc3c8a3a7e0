SPECIFICATION FairSpec
CONSTANTS
  A = A
  B = B
  Prunes = {}
  SelfCancelling <- OwnCancel
  Jobs = {A, B}
  Kind <- BackupOrMaintenance
  MaxQueued = 1
  MaxAttempts = 3
  MaxSessions = 2
  MaxFaults = 1
  MaxFrames = 1
  Env = {"agent_crash", "drop", "late_send_error", "silent", "heartbeat", "revoke"}
PROPERTY JobEnds
