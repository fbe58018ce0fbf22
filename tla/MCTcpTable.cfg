CONSTANTS
  NCONN = 2
  SND_SZ = 2
  RCV_SZ = 2
  MSS_TX = 2
  REXMIT_TICKS = 2
  MAX_REXMIT = 1
  HALF = 8
  a1 = a1
  a2 = a2
  b1 = b1
  Clients = {a1, a2, b1}
  NoPeer = NoPeer
  IpOf <- MCIpOf
  ISS <- IssTwo
  CISS = 15
  Endings = {"finished"}
  MaxPut = 2
  MaxKeys = 0
  MaxMixed = 0
SPECIFICATION Spec
INVARIANTS NoTwinSlots StreamShared
PROPERTY ImplementsSlotTable
SYMMETRY Alike
CONSTRAINT LateBytes
