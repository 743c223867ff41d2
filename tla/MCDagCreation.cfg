CONSTANTS
  NTxns = 3
  a1 = a1
  a2 = a2
  Addresses = {a1, a2}
  ThreadCounts = {1, 2, 4}
  Variants = {"threads", "serial", "pool"}
  w1 = w1
  w2 = w2
  Workers = {w1, w2}
SPECIFICATION Spec
SYMMETRY Symmetry
INVARIANTS
  GraphInv
  NoLostWakeup
