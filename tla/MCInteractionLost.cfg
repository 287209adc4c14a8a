SPECIFICATION Spec
CONSTANTS
    Inputs <- MCInputs  PrincipalOf <- MCPrincipalOf  ReplyTo <- MCReplyTo
    Principals = {"p1", "p2"}
    Window = 0  MaxSubmits = 3
    MaxSessions = 2  MaxConstraints = 1
    Workloads <- TwoSubmits
INVARIANTS HandedNeverLost
CHECK_DEADLOCK FALSE
