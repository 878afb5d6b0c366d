SPECIFICATION FairSpec
CONSTANTS
  c1 = c1
  v1 = v1
  Command = {c1}
  Device = {v1}
  TargetOf <- MCTarget
  NoCommand = NoCommand
  MaxRetries = 2
  MaxRedeliver = 1
INVARIANTS ReportedOnce ConfirmedWasApplied RetriesBounded
PROPERTY AcceptedIsConcluded
CHECK_DEADLOCK FALSE
