SPECIFICATION FairSpec
CONSTANTS
  w1 = w1  w2 = w2  c1 = c1  c2 = c2  c3 = c3
  Queries = {1}  Commits = {c1, c2}  Episodes = {1, 2}  Writes = {w1, w2}
  NoCommit = NoCommit  NoCost = NoCost
  Parent <- MCParent  Content <- MCContent  Artifact <- MCArtifact
  Session <- MCSession  Deliveries <- MCDeliveries
  Root = NoCommit  FirstCost = 1 Costs <- MCCosts  MayFall = TRUE  StaleAfter = 0  TTL = 1
  MaxNow = 1  MaxObserved = 2  MaxCrashes = 1  MaxOverlap = 0  KeepsUp = TRUE
INVARIANTS StoredIsWritable StatusAgrees ReportableIsClaimed ClaimsArePublished
PROPERTIES ClaimsSettle RejectedIsRevoked
