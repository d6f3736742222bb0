SPECIFICATION FairSpec
CONSTANTS
  MaxStarts = 2
  Handler = {h1, h2}
  Nobody = nobody
INVARIANTS
  StateIsOwned
  CapturesComplete
PROPERTIES
  StopsEnd
CHECK_DEADLOCK FALSE
