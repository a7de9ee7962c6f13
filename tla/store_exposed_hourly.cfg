\* Callers without a cumulative cap: only the hourly cap can hold exposed money.
SPECIFICATION Spec
CONSTANTS
    Scopes = {merchant}
    AssetIds <- OneAsset
    Ids = {r1, r2}
    Fingerprints = {"f"}
    Amounts = {1, 2}
    CallerHourCaps = {2}
    CallerTotalCaps <- Uncapped
    AdminLimits <- NoLimits
    Networks <- NoNames
    Recipients <- NoNames
    Allowlists <- NoNames
    Enforcements = {"off"}
    GovernedScopes <- NoNames
    TTL = 1
    Window = 2
    ClockSteps = {1}
    MaxTime = 4
    QueryLeads = {0}
    NoCap = NoCap
    NoPayee = NoPayee
SYMMETRY Interchangeable
INVARIANTS ExposedHoldsHourly
