SPECIFICATION FairSpec
CONSTANTS
  r1 = r1
  r2 = r2
  r3 = r3
  t1 = t1
  t2 = t2
  snow = snow
  quota = quota
  s1 = s1
  s2 = s2
  s3 = s3
  None = None
  NoTicket = NoTicket
  Runs = {r1, r2}
  Tickets = {t1}
  Approved = {t1}
  Gates = {snow, quota}
  RegisteredGates <- MCOtherGateFirst
  Blocking = {snow}
  TicketGates = {snow}
  Steps = {s1, s2, s3}
  StepOrder <- MCThreeSteps
  SortOutcome = "ordered"
  StopSteps = {s2}
  Handlers <- MCHandlers
  CredentialRaises = FALSE
INVARIANTS
  SuccessMeansComplete
  OnlyStopOnErrorSkipsSteps
  LifecycleProtocol
  GatePassedClearsTicket
PROPERTY EveryRunEnds
CHECK_DEADLOCK FALSE
