SPECIFICATION FairSpec
PROPERTIES
  PRequestsSpaced
  FatalExits
  FetchEnds
CONSTANTS
  CFetchers = {c1}
  PFetchers = {p1, p2}
  HostInterval = 1
  Interval <- ChainIntervals
  RPC_MAX_ATTEMPTS = 3
  MaxWait = 1
  RetryAfters = {1, 2}
CHECK_DEADLOCK FALSE
