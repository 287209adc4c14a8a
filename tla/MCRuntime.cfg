SPECIFICATION FairSpec
INVARIANTS ShutdownTellsTruth FencedIsOlder
PROPERTIES TerminalStable EpochFence EveryCommandSettles
CONSTANTS
  Sessions = {s1}
  Tasks = {t1, t2}
  Operations = {o1}
  NoId = NoId
  QueueCapacity = 2
  MaxCommands = 4
  MaxLost = 1
