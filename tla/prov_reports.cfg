SPECIFICATION Spec
CONSTANTS
  r1 = r1
  r2 = r2
  prod = prod
  sandbox = sandbox
  mgProd = mgProd
  mgSandbox = mgSandbox
  ops = ops
  spn = spn
  q1 = q1
  q2 = q2
  Environments = {prod, sandbox}
  Sandbox = sandbox
  NoTag = NoTag
  Malformed = Malformed
  ItlSandbox = ItlSandbox
  EventMg = EventMg
  RootMg = RootMg
  NoMg = NoMg
  Ticket = Ticket
  PreflightTicket = PreflightTicket
  NoTicket = NoTicket
  Runs = {r1}
  RequestKinds = {"provision", "local", "dry_run", "preflight"}
  Budgets <- MCBudgets
  MgMapping <- MCEmptyName
  Approved = {Ticket, PreflightTicket}
  SnowInstance = TRUE
  RoleSpecs <- MCTwoRoles
  Policies <- MCTwoPolicies
  Topic = TRUE
  ApiUrl = TRUE
  WebhookUrl = TRUE
  Faulty = {"tags", "gate", "MG", "INITIATIVE", "RBAC", "POLICY", "BUDGET", "NOTIFY", "API", "FEEDBACK", "WEBHOOK"}
  MaxTagChanges = 1
INVARIANTS
  TypeOK
  AnnouncedMeansConfigured
  ResultsAreTrue
PROPERTY DryRunsTouchNothing
CHECK_DEADLOCK FALSE
