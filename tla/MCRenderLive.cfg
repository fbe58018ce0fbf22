SPECIFICATION FairSpec
CONSTANTS
  Terms = {t1}
  Chars = {"a"}
  Attrs = {"x", "y"}
  Geos <- Modes
  SHADOW_CELLS = 2
  OBUF = 7
  RESERVE = 5
  CADENCE_TICKS = 1
  HEAL_TICKS = 1
  DAY = 2
  MaxWrites = 1
  MaxChanges = 3
PROPERTIES CatchesUp ResyncsBeforeMidnight
