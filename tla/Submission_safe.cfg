SPECIFICATION Spec
CONSTANTS
  Thread = {t1, t2}
  t1 = t1
  t2 = t2
  Decision = {d1}
  d1 = d1
  MaxClock = 2
  MaxAttempts = 2
  Faults = {"lost_response", "delayed", "crash", "save_fails", "load_fails"}
INVARIANTS
  TypeOK
  OneAtATime
  SecondExecutionExplained
PROPERTIES
  TerminalIsFinal
CHECK_DEADLOCK FALSE \* the bound on ids stops the instance
