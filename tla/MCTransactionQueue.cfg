CONSTANTS
  QueueSize = 4
  Items = {t1, t2}
  Empty = Empty
SPECIFICATION Spec
INVARIANTS
  SlotInv
PROPERTIES
  ImplementsFifo
