SPECIFICATION MemorySpec
INVARIANT FlushCoversItsChain
CHECK_DEADLOCK FALSE
