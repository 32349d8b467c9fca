SPECIFICATION Spec
CONSTANTS
    Policies <- OneRateLimit
    Budgets = {}
    NoBudget = NoBudget
    Answers <- MCAnswers
    Delays = {0, 1}
    Horizon = 3
INVARIANT NoRateLimitRetries
