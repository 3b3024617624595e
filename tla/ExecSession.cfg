CONSTANTS
  MaxStarts = 3
  stream = stream
  Calls <- MCCalls
  Streams <- MCStreams
SPECIFICATION FairSpec
CHECK_DEADLOCK FALSE
INVARIANTS
  ChannelsAreHeld
  ShownIsOwn
PROPERTY CallsEnd
