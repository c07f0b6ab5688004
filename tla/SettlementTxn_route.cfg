SPECIFICATION Spec
CONSTANTS
    Callers <- ThrowingRoute
    Opening = 3
    Price = 5
    MaxAttempts = 4
INVARIANTS SettlementIsAllOrNothing
CHECK_DEADLOCK FALSE
