SPECIFICATION Spec
CONSTANTS
  A = A
  B = B
  Prunes = {B}
  SelfCancelling <- OwnCancel
  Jobs = {A, B}
  Kind <- BackupOrMaintenance
  MaxQueued = 1
  MaxAttempts = 3
  MaxSessions = 2
  MaxFaults = 2
  MaxFrames = 1
  Env = {"drop", "agent_crash", "server_crash", "answer_lost", "refused", "cancel", "admin_cancel", "op_cancel", "log", "progress", "lock"}
INVARIANTS OneRunPerJob OutcomeNotRepeated LogOfOneRun VerdictsAgree ChainOnce
PROPERTY KeepsContract
