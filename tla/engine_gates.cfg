SPECIFICATION Spec
CONSTANTS
  r1 = r1
  r2 = r2
  r3 = r3
  t1 = t1
  t2 = t2
  snow = snow
  quota = quota
  s1 = s1
  s2 = s2
  s3 = s3
  None = None
  NoTicket = NoTicket
  Runs = {r1, r2, r3}
  Tickets = {t1, t2}
  Approved = {t1}
  Gates = {snow, quota}
  RegisteredGates <- MCTwoGates
  Blocking = {snow, quota}
  TicketGates = {snow}
  Steps = {s1, s2}
  StepOrder <- MCOneStep
  SortOutcome = "ordered"
  StopSteps = {}
  Handlers <- MCNoHandlers
  CredentialRaises = FALSE
SYMMETRY MCSymmetry
INVARIANTS
  TypeOK
  GateListSound
  FirstGateNeverBypassed
  BlockedMeansNoStep
  GateIsolation
  ApprovedWhenIsolated
  EngineInv
CHECK_DEADLOCK FALSE
