SPECIFICATION Spec
CONSTANTS
  b1 = b1
  s1 = s1
  s2 = s2
  Skipped = Skipped
  Subs = {s1, s2}
  Batches = {b1}
  Content <- MCSingle
  Strategies = {"queue"}
  StorageAccount = TRUE
  SdkInstalled = TRUE
  StorageFails = TRUE
  MaxDeliveryCount = 1
  GridAttempts = 1
  MaxMessages = 1
  MaxManual = 0
  MaxDeliveries = 2
  MaxExpiries = 0
  MaxRefusals = 0
  MaxCrashes = 0
INVARIANT AcceptedMeansOwed
CHECK_DEADLOCK FALSE
