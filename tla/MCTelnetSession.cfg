SPECIFICATION FairSpec
CONSTANTS
  Password <- NoPassword
  AuMax = 2
  EofExit = FALSE
  SbMax = 5
  Options = {"SGA", "NAWS", "TTYPE"}
  Letters = {"x", "IAC"}
  Sizes <- TwoSizes
  MaxActs = 2
INVARIANT StreamTransparent
PROPERTY Settles
CHECK_DEADLOCK FALSE
