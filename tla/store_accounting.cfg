\* One account under a cumulative and an hourly cap; one administered cap.
SPECIFICATION Spec
CONSTANTS
    Scopes = {merchant}
    AssetIds <- OneAsset
    Ids = {r1, r2, r3}
    Fingerprints = {"f"}
    Amounts = {1, 2}
    CallerHourCaps = {2, 3}
    CallerTotalCaps = {4}
    AdminLimits <- OneLimit
    Networks <- NoNames
    Recipients <- NoNames
    Allowlists <- NoNames
    Enforcements = {"off"}
    GovernedScopes <- NoNames
    TTL = 1
    Window = 2
    ClockSteps = {1}
    MaxTime = 3
    QueryLeads = {0}
    NoCap = NoCap
    NoPayee = NoPayee
SYMMETRY Interchangeable
INVARIANTS ExposedTotalExact EntriesMatchRecords CumulativeCeiling HourlyCeiling
PROPERTIES ExposedHeld ImmutableTerms ImplementsContract
