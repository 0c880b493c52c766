CONSTANTS
  Name = {loop, server}
  Threshold = 1
  MaxKicks = 2
  MaxThreads = 2
SPECIFICATION FairSpec
INVARIANTS
  OncePerEpisode
  FiredIsReported
PROPERTY FreezeIsReported
