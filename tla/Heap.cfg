SPECIFICATION Spec
CONSTANTS
  startAddr = 32
  maxAddr = 192
  PAGE_SIZE = 32
  HEAP_MIN_SIZE = 96
  Requests = {8, 20}
  AlignedRequests = {8}
  Freed = {"plain"}
  NULL = NULL
INVARIANT HeapInv
PROPERTY ImplementsAllocator
CHECK_DEADLOCK FALSE
