SPECIFICATION KnowledgeSpec
CONSTANTS
    MaxDepth = 8  MaxProperties = 64  MaxEnumValues = 64  ProbeCap = 4  ProbeItems = 4
    MaxEntries = 4  Defs <- MCDefs  Specs <- MCSpecs  Loads <- MCLoads  SkillNames = {"s"}
    VersionModulus = 4  MaxMounts = 2  MaxSkills = 1  MaxSuperseded = 1
    MaxDepthOfCalls = 2  MaxActiveRuns = 3
INVARIANTS
     PlanIsLeast  
    CompiledReplaysItsRun   MutationsOnce 
    SupervisorHonest RefreshHonest LearningIsBacked
PROPERTIES LibraryOnlyGrows 
CHECK_DEADLOCK FALSE
