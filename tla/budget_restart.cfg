SPECIFICATION IBSpec
CONSTANTS
  Callers = {x1, x2}
  Ceilings = {NoCeiling, 0, 1}
  NoCeiling = NoCeiling
  MaxSteps = 5
INVARIANTS
  SpendSurvivesRestart
CHECK_DEADLOCK FALSE
