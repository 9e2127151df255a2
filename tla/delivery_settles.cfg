SPECIFICATION FairSpec
CONSTANTS
  b1 = b1
  s1 = s1
  s2 = s2
  Skipped = Skipped
  Subs = {s1, s2}
  Batches = {b1}
  Content <- MCSingle
  Strategies = {"queue"}
  StorageAccount = TRUE
  SdkInstalled = TRUE
  StorageFails = FALSE
  MaxDeliveryCount = 1
  GridAttempts = 2
  MaxMessages = 2
  MaxManual = 0
  MaxDeliveries = 5
  MaxExpiries = 1
  MaxRefusals = 1
  MaxCrashes = 1
PROPERTIES
  JobsSettle
  SubscriptionsSettle
CHECK_DEADLOCK FALSE
