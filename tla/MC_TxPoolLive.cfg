CONSTANTS
  c1 = c1
  c2 = c2
  t1 = t1
  t2 = t2
  u1 = u1
  u2 = u2
  Callers <- MCCallers
  Txs <- MCTxs
  Uncles <- MCUncles
  Calls <- MCLiveCalls
  ChannelSize = 1
  MaxCalls = 2
  MaxClock = 1
  HasAssembler = TRUE

SPECIFICATION FairSpec

\* The service may really stop: once the controller is dropped the loop
\* breaks and the runtime shuts down, and the callers' calls are bounded.
CHECK_DEADLOCK FALSE

PROPERTY CallerUnblocks
