SPECIFICATION Spec
CONSTANTS
  r1 = r1
  r2 = r2
  prod = prod
  sandbox = sandbox
  mgProd = mgProd
  mgSandbox = mgSandbox
  ops = ops
  spn = spn
  q1 = q1
  q2 = q2
  Environments = {prod, sandbox}
  Sandbox = sandbox
  NoTag = NoTag
  Malformed = Malformed
  ItlSandbox = ItlSandbox
  EventMg = EventMg
  RootMg = RootMg
  NoMg = NoMg
  Ticket = Ticket
  PreflightTicket = PreflightTicket
  NoTicket = NoTicket
  Runs = {r1, r2}
  RequestKinds = {"provision", "dry_run", "preflight"}
  Budgets <- MCTwoBudgets
  MgMapping <- MCMapping
  Approved = {Ticket, PreflightTicket}
  SnowInstance = TRUE
  RoleSpecs <- MCNone
  Policies <- MCNone
  Topic = FALSE
  ApiUrl = FALSE
  WebhookUrl = FALSE
  Faulty = {"tags", "MG", "BUDGET"}
  MaxTagChanges = 1
SYMMETRY MCSymmetry
INVARIANTS
  LastRunSettles
  NoDefaultsBehindGate
PROPERTY StepsRunByEngine
CHECK_DEADLOCK FALSE
