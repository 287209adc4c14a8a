SPECIFICATION WorkflowSpec
INVARIANTS  ExperienceIsTrue
PROPERTIES  ImplementsRunContract WorkSettles
CONSTANTS
    r1 = r1  r2 = r2  p1 = p1  p2 = p2  p3 = p3  h1 = h1  h2 = h2
    Loads <- MCLoads
    MaxActive = 2  MaxAsync = 1  MaxExecutions = 4
    MaxPending = 1  MaxApplied = 2  MaxEscalations = 2
CHECK_DEADLOCK FALSE
