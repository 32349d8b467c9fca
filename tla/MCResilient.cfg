SPECIFICATION ResilientSpec
CONSTANTS
    Policies <- UsedLimits
    Circuits <- UsedCircuits
    Budgets = {0, 2, 3}
    NoBudget = NoBudget
    Answers <- AnswerSample
    Delays = {0, 1, 2}
    Horizon = 4
    Settable <- EdgeValues
    MaxEdits = 3
INVARIANTS
    TypeOK
    AttemptsBounded
    FinalIsFinal
    SurfacesLastAttempt
    WithinBudget
    PausesLeadOn
    ObtainableBuilds
    SettingsReachClients
    SourcesAgree
    CountsCalls
    HarmlessNeverTrips
