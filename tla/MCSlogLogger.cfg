SPECIFICATION Spec
CONSTANTS
  Threads = {main, a}
  Main = main
  Units = {u1, u2}
  Levels = {1, 6}
  S_MS_PER_SEC = 2
  Seconds = {1, 2}
  Width = 8
  Size = 40
  Reserve = 5
  Trailer = 2
  Texts = {9}
  Reals = {9}
  Signed <- MCSigned
  Unsigned = {0, 255}
  Pointers = {160}
  MaxOpen = 2
  MaxItems = 1
  MaxPast = 6
SYMMETRY UnitSymmetry
INVARIANTS
  RecordReadsBack
  AppenderAlive
CHECK_DEADLOCK FALSE
