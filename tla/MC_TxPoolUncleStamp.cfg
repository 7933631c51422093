CONSTANTS
  c1 = c1
  c2 = c2
  t1 = t1
  t2 = t2
  u1 = u1
  u2 = u2
  Callers <- MCCallers
  Txs <- MCTxs
  Uncles <- MCUncles
  Calls <- MCUncleCalls
  ChannelSize = 1
  MaxCalls = 2
  MaxClock = 1
  HasAssembler = TRUE

SPECIFICATION Spec

PROPERTY UnclesStampMonotonic

\* The service stops for good once the controller is dropped.
CHECK_DEADLOCK FALSE
