CONSTANTS
  Users = {u1, u2}
  MaxReads = 4
  Letters = 4
  Clients = 3
  MaxText = 2
  Senders = {s1, s2, s3}
  Receivers = {r1, r2}
  NoQueue = none
  MaxMsg = 1
SPECIFICATION MCSpec
CHECK_DEADLOCK FALSE
INVARIANTS NoMissedWakeup NoPhantomEvent NothingRunsUnloaded IpcSafe
PROPERTIES AllProceed
