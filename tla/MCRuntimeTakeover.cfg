SPECIFICATION Spec
CONSTANTS
  Sessions = {s1}
  Tasks = {t1}
  Operations = {o1}
  NoId = NoId
  QueueCapacity = 2
  MaxCommands = 4
  MaxLost = 0
PROPERTIES
  OperationsBeginAutonomous
