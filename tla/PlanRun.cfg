SPECIFICATION FairSpec
CONSTANTS
    Plans <- MCPlans
    MaxConcurrency = 2
    MaxReplans = 1
    MaxRetries = 1
    MaxTurns = 2
    TokenBudget = 5
    Costs = {1, 2}
    MaxRuns = 1
    MaxSupplements = 1
INVARIANTS PlanSettled TokensAccounted
PROPERTIES EveryPlanRunEnds
