SPECIFICATION Spec
CONSTANTS
  Tests = {t1, t2}
  NoTest = NoTest
  CONFIRM_FACTOR = 3
  CONFIRM_ROUNDS = 2
  Demands <- MCDemands
  Noise = 2
CHECK_DEADLOCK FALSE
INVARIANTS
  Controlled
  OneOverrunConvictsNobody
  RedSuiteConvictsNobody
  QuietMachineJudgesRight
