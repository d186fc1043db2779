\* Two members serve one binding and reserve attempts at the same time.
CONSTANTS
    BudgetMembers = {"first", "second"}
    BudgetCalls = {1, 2}
    FirstScope = FirstScope
    MaxBudgetTokens = 3
    BudgetReservation = 2
    MaxConcurrentCalls = 1
    MaxBudgetWrites = 3
    MaxBudgetFaults = 0
CHECK_DEADLOCK FALSE
SPECIFICATION IbSpec
INVARIANT HardLimitsTogether
