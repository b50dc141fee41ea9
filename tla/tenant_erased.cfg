SPECIFICATION Spec
CONSTANTS
  loop = loop
  t1 = t1
  cli = cli
  d1 = d1
  d2 = d2
  q1 = q1
  k1 = k1
  tk1 = tk1
  tk2 = tk2
  NoJob = NoJob
  Async = {loop}
  Threads = {t1}
  Cli = {cli}
  Deliveries = {d1}
  Decisions = {q1}
  Consents = {k1}
  Tokens = {tk1}
  OneDoor = TRUE
  MaxFaults = 1
INVARIANTS
  NothingOutlives
CHECK_DEADLOCK FALSE
