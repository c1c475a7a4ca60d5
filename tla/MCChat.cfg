CONSTANTS
  Streams = {stream1, stream2}
  Sends = {send1, send2}
  Keys = {key1}
  Questions = {question1}
  None = None
  MaxAttempts = 2
  MaxTroubles = 1
SPECIFICATION FairSpec
INVARIANTS
  TypeOK
  SavedBeforeTold
  JobHasQuestion
PROPERTIES
  StaysSettled
  SendsReturn
  StreamsReturn
\* Every request is made once, and then nothing happens any more.
CHECK_DEADLOCK FALSE
