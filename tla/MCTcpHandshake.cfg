CONSTANTS
  NCONN = 1
  SND_SZ = 2
  RCV_SZ = 2
  MSS_TX = 2
  REXMIT_TICKS = 2
  MAX_REXMIT = 2
  HALF = 8
  a1 = a1
  a2 = a2
  b1 = b1
  Clients = {a1}
  NoPeer = NoPeer
  IpOf <- MCIpOf
  ISS <- IssOne
  CISS = 15
  Endings = {"finished", "aborted", "gone"}
  MaxPut = 0
  MaxKeys = 0
  MaxMixed = 0
SPECIFICATION FairSpec
PROPERTY HandshakeEnds
