CONSTANTS
  SerialCasts = {6}
  SER = 3
  NSlots = 2
  Hosts = {"a"}
  NoHost = "none"
  MaxConn = 2
  Bursts = {}
  HavePassword = TRUE
  HaveKeys = TRUE
  IB_SZ = 4
  OB_SZ = 6
  CIN_SZ = 4
  COUT_SZ = 4
  LINE_MAX = 3
  LOCAL_WINDOW = 4
  CHAN_CHUNK = 2
  RING = 4
  RESERVE = 1
  RB = 2
  TX_BUDGET = 1
  FRAME = 2
  PARTS = 2
  EofExit = TRUE
  MaxWin = 2
  Casts <- AllCasts
SPECIFICATION WorkerSpec
INVARIANTS OnlyTheProved StreamsReadable ScreensWhole WindowsAgree NextCallerAdmitted
