\* Two people sign one request at once; no handler is killed.
SPECIFICATION SignSpec
CHECK_DEADLOCK FALSE
INVARIANTS AllSignedCloses
CONSTANTS
  ann = ann
  ben = ben
  k1 = k1
  k2 = k2
  Signers = {ann, ben}
  Clerks = {k1, k2}
  MaxDeaths = 0
