CONSTANTS
  PAGE_TABLE_ENTRIES_NUM = 5
  TLB_ENTRIES_NUM = 2
  NUM_FRAMES = 3
  PAGE_SIZE = 2
  Addresses = {0, 2, 5, 7, 8, 11}
  MaxRefs = 7
SPECIFICATION Spec
INVARIANTS StackWellFormed TLBIsTopOfStack
PROPERTY IsLRUPaging
