\* up to five blocks, with every way of splitting and merging them
SPECIFICATION Spec
CONSTANTS
  HEAP_SIZE = 16
  HEADER = 2
  Sizes = {0, 1, 2, 3, 5}
INVARIANTS
  WellFormed
PROPERTIES
  Defragments
  ImplementsAllocator
