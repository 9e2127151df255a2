SPECIFICATION Spec
CONSTANTS
  b1 = b1
  s1 = s1
  s2 = s2
  Skipped = Skipped
  Subs = {s1}
  Batches = {b1}
  Content <- MCSingle
  Strategies = {"queue"}
  StorageAccount = TRUE
  SdkInstalled = TRUE
  StorageFails = TRUE
  MaxDeliveryCount = 2
  GridAttempts = 1
  MaxMessages = 2
  MaxManual = 1
  MaxDeliveries = 3
  MaxExpiries = 1
  MaxRefusals = 1
  MaxCrashes = 1
INVARIANTS
  TypeOK
  ParkedMeansRetried
PROPERTIES
  JobsKept
  MovesAsMonitored
CHECK_DEADLOCK FALSE
