SPECIFICATION Spec
CHECK_DEADLOCK FALSE
INVARIANTS
  
  StampedBeforeBlocks
  RefusedRightly
  HighestLayerWins
  OverridesNeverSelect
CONSTANTS
  Networks <- MCNetworks
  Hosts <- MCHosts
  PublicHost <- MCPublicHost
  NetworkOf <- MCNetworkOf
  Tip <- MCTip
  Dirs <- MCDirs
  Invocations <- MCInvocations
  NoName <- MCNoName
  Relics <- MCRelics
  MaxStarts = 2
