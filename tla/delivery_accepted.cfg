SPECIFICATION Spec
CONSTANTS
  b1 = b1
  s1 = s1
  s2 = s2
  Skipped = Skipped
  Subs = {s1, s2}
  Batches = {b1}
  Content <- MCMixed
  Strategies = {"none", "dead_letter", "queue"}
  StorageAccount = TRUE
  SdkInstalled = TRUE
  StorageFails = FALSE
  MaxDeliveryCount = 1
  GridAttempts = 2
  MaxMessages = 4
  MaxManual = 0
  MaxDeliveries = 2
  MaxExpiries = 0
  MaxRefusals = 0
  MaxCrashes = 1
INVARIANTS
  AcceptedMeansProvisioned
  AcceptedMeansTried
  AcceptedMeansOwed
CHECK_DEADLOCK FALSE
