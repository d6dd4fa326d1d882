\* One restart or one disturbed call, of any kind, retries included.
SPECIFICATION Spec
CONSTANTS
  Background = {t1, t2}
  Worker = {w1, w2}
  Request = {1}
  MaxStarts = 2
  MaxRetries = 1
  Faults = {"lost", "late", "office", "service"}
  MaxFaults = 1
SYMMETRY Symmetry
INVARIANTS TypeOK EffectOnce AcceptedIsDone 
CHECK_DEADLOCK FALSE
