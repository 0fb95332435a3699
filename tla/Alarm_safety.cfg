CONSTANTS
  probe = probe
  rt1 = rt1
  rt2 = rt2
  Alarms <- MCAlarms
  Role <- MCRole
  Second <- MCSecond
  Rto <- MCRto
  Probe <- MCProbe
  Granularity <- MCGranularity
  Quantum <- MCQuantum
  Real0 <- MCReal0
  MaxReal <- MCMaxReal
  ElapseSteps <- MCElapseSteps
  MockHorizon <- MCMockHorizon
  MaxOps = 4
SPECIFICATION Spec

INVARIANTS TypeOK MapMatchesAlarms SetOnlyWhenUnset FiredWhenDue MapNonEmptyAtPoll
PROPERTY DueAlarmsFire
