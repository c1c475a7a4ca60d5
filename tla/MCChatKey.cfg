CONSTANTS
  Streams = {stream1, stream2}
  Sends = {}
  Keys = {key1, key2}
  Questions = {question1, question2}
  None = None
  MaxAttempts = 2
  MaxTroubles = 1
SPECIFICATION Spec
INVARIANTS
  KeyNamesOneQuestion
\* Every request is made once, and then nothing happens any more.
CHECK_DEADLOCK FALSE
