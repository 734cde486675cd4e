SPECIFICATION UntilLost
CONSTANTS
  Targets = {t1}
  Sweeps = {s1, s2}
  MaxAttempts = 2
  MaxClicks = 1
  MaxTrouble = 2
CHECK_DEADLOCK FALSE
SYMMETRY Symmetry
INVARIANTS TypeOK OnceOut
