CONSTANTS
  NSlots = 2
  Hosts = {"a", "b"}
  NoHost = "none"
  MaxConn = 2
  Bursts <- UpToTwo
  Password <- OnePassword
  AuMax = 2
  EofExit = TRUE
  SbMax = 2
  Alphabet = {"p", "CR", "EOT"}
SPECIFICATION ConsoleSpec
INVARIANTS KeysPassTheGate BegunFirst ThreeStrikes ScreenPassesTheGate
