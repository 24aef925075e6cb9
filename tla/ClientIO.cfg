SPECIFICATION Spec
CHECK_DEADLOCK FALSE
CONSTANTS
  Repo = {r1, r2, r3}
  MaxBatch = 2
  MaxRefused = 2
  Commit = {c1, c2}
  SaveBatch = 2
  MaxFailures = 2
  MaxCloses = 1
INVARIANTS SchedulerTypeOK NoRequestForgotten LogoutAfterRefusals BackupTypeOK MarkedIsStored
PROPERTIES EveryRequestSettled BackedUp
