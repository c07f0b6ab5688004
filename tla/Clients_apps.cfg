SPECIFICATION ClientsSpec
CONSTANTS
 Callers <- DirectOrCrashing
 Opening = 3
 Price = 5
 MaxAttempts = 4
 MaxSessions = 3
 MaxFlows = 2
 MaxKeys = 4
 MaxVersion = 2
 MaxCalls = 2
 MaxPolls = 1
 AppScenes <- MCAppScenes
INVARIANTS SettlementIsAllOrNothing AnswerStoredWithSettlement OncePerIntent FlagsAreTrue
PROPERTIES ChargerNotTakenFromOther ShownIsOwn ShownFlowCatchesUp OperationsEnd
CHECK_DEADLOCK FALSE
