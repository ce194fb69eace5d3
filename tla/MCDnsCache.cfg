SPECIFICATION Spec
CONSTANTS
  Entries <- MCEntries
  Addrs = {"a", "b"}
  Bytes <- MCBytes
  max_mem_b = 2
  timeout_s = 0
  MaxTime = 1
  MaxHandles = 2
INVARIANTS TypeOK RefcntExact LiveExactly TreeIsList DatabaseFits
PROPERTIES RefusedOnlyWhenPinned
