SPECIFICATION MeshSpec
CONSTANTS
  Peers = {p1}
  Tasks = {auditor, payout}
  Auditor = auditor
  MaxEvents = 2
  MaxCrashes = 1
  BucketSize = 2
  Others = 1
  MaxReceipts = 1
INVARIANTS MeshInv
PROPERTIES StandingFades TrustIsEarned ReceiptsSettle
CHECK_DEADLOCK FALSE
