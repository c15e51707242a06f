SPECIFICATION FairSpec
CONSTANTS
  Skus <- Products
  Priced <- WithPrice
  Listings <- SomeListings
  Targets <- UpToThree
  SitePage = 2
  PageSize = 2
  Proxies <- TwoProxies
  Profiles = {f1, f2}
  MaxRetries = 2
  Warmup = TRUE
  PastTheEnd <- EitherEnd
  Faults <- EveryFault
  Moves = TRUE
  None = None
CHECK_DEADLOCK FALSE
INVARIANTS TypeOK SessionsAreConsistent GivesUpFairly ExhaustedMeansAll
PROPERTY CollectEnds
