SPECIFICATION StorageSpec
INVARIANTS StorageSound StoreKeepsOrder CheckpointsTellTruth
PROPERTIES ImplementsDurableLog NewestStands
CONSTANTS
    c1 = c1  c2 = c2
    Tasks = {"t1"}
    Workloads <- MCWorkloads
    MaxFacts = 2  MaxListed = 2  MaxRecent = 2
    MinIncrement = 2  Limits <- MCLimits
