SPECIFICATION DFairSpec
CONSTANTS
  NumChannels = 1
  MaxOutbound = 2
  MaxInbound = 1
  MaxCrashes = 1
INVARIANTS DTypeOK  CursorsSound
 
