SPECIFICATION Spec
CONSTANTS
    Plans <- MCPlans
    MaxConcurrency = 2
    MaxReplans = 1
    MaxRetries = 1
    MaxTurns = 2
    TokenBudget = 3
    Costs = {1}
    MaxRuns = 2
    MaxSupplements = 1
PROPERTIES OnlyTheRunActs
