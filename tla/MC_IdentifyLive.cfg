CONSTANTS
  s1 = s1
  s2 = s2
  s3 = s3
  s4 = s4
  gAddr = gAddr
  hAddr = hAddr
  lAddr = lAddr
  main = main
  test = test
  NoIdentify = NoIdentify
  NoMessage = NoMessage
  Sessions <- MCLiveSessions
  Keyed <- MCLiveSessions
  Outbound <- MCSecioOutbound
  Feelers <- MCSecioFeelers
  Addrs <- MCAddrs
  Reachable <- MCReachable
  PublicAddrs <- MCPublicAddrs
  Names <- MCNames
  LocalName = main
  FlagBits <- MCFlagBits
  LocalFlags <- MCLocalFlags
  MaxAddrs = 1
  Timeout = 1
  Undecodable = NoIdentify
  Garbage = NoMessage
  Messages <- MCMessages

SPECIFICATION FairSpec

PROPERTY HandshakeResolves
