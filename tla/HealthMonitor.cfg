\* Any two numbers, or none, in localStorage; three acts of the user.
SPECIFICATION FairSpec
CONSTANTS
  NoNumber = NoNumber
  Default <- Defaults
  Minimum = 2
  Values <- Numbers
  MaxActs = 3
  MaxTroubles = 2
INVARIANTS TypeOK OfflineIsUnreachable ReloadKeepsIntervals
PROPERTIES DotCatchesUp
