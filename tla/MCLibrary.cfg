SPECIFICATION LibSpec
CONSTANTS
  PEND = 4
  RING = 3
  Encodings <- Keyboard
  AnyBytes = {"RS", "Y", "ESC", "[", "CR", "1"}
  MaxBytes = 5
  FP = 32749
  CA = 162
  BITS = 16
  LW = 4
  NL = 4
  ORDER = 4111
  B <- Base
  KEYLEN = 2
  BLOBMAX = 5
  NAMEBYTE = 77
  EVEN = 8
  ODD = 4
  FOLD = 3
  Points <- SomePoints
  Zs = {1, 77}
  Ys <- SomeYs
  Secrets <- SomeSecrets
  Expanded <- SomeExpanded
  Scalars <- SomeScalars
  Signers <- SomeSigners
  Limbed <- SomeLimbed
  Tight <- SomeTight
  Raws <- SomeRaws
  Blobs <- SomeBlobs
  Keys <- SomeKeys
  WORD = 2
  BLOCK = 8
  LENGTH = 4
  LOW = 128
  NL1305 = 2
  HashLengths = {0, 1, 2, 3, 4, 5, 6, 7, 8, 9, 11, 12, 13, 15, 16, 17, 20}
  Macs <- SomeMacs
  POOL_WORDS = 2
  INIT_STIRS = 3
  RESEED = 2
  HALF = 2
  CTR = 3
  MaxStirs = 5
  MaxRequests = 5
  MaxUnits = 3
  CHACHA = 16
  Sizes = {0, 3, 20}
  Pieces = {1, 7, 19}
  MaxPackets = 3
  KeyedFrom = 2
INVARIANTS
  RingFifo RebootOnSentinel KeysAsTyped KeysExact SignaturesExact
  DigestsExact OutputFresh PacketsOpen KeystreamOnce
PROPERTY AllKeysArrive
