SPECIFICATION TreeSpec
CONSTANTS
  k1 = k1
  k2 = k2
  k3 = k3
  Chars <- MCChars
  Keys <- MCKeys
  NameOf <- MCNameOf
  PathOf <- MCPathOf
  Order <- MCOrder
  Values <- MCValues
  Modes <- MCModes
  MaxThreads = 2
  MaxOps = 2
  MaxCalls = 5
INVARIANTS
  
  LinksInv
  
