CONSTANTS
  NCONN = 1
  SND_SZ = 3
  RCV_SZ = 3
  MSS_TX = 2
  REXMIT_TICKS = 2
  MAX_REXMIT = 1
  HALF = 8
  a1 = a1
  a2 = a2
  b1 = b1
  Clients = {a1}
  NoPeer = NoPeer
  IpOf <- MCIpOf
  ISS <- IssOne
  CISS = 15
  Endings = {"finished", "aborted", "gone"}
  MaxPut = 3
  MaxKeys = 3
  MaxMixed = 2
SPECIFICATION FairSpec
INVARIANTS RingAgrees InOrder FreedOnlyIfReceived KeysAccounted WindowKept
PROPERTIES DeadPeerReaped ImplementsSlotTable
