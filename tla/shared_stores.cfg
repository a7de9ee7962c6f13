\* Two ids under caller and administered caps, on both topologies.
SPECIFICATION Spec
CONSTANTS
    Scopes = {"merchant"}
    AssetIds <- OneAsset
    Ids = {r1, r2}
    Fingerprints = {"f", "g"}
    Amounts = {1, 2}
    CallerHourCaps = {1, 2}
    CallerTotalCaps <- CappedOrNot
    AdminLimits <- TotalLimits
    Networks <- OneNetwork
    Recipients <- TwoPayees
    Allowlists <- OneList
    Enforcements = {"tofu"}
    Credentials = {"admin", "data"}
    CallerInputs <- SomeInputs
    GovernedScopes = {"*"}
    TTL = 1
    Window = 1
    MaxTime = 2
    ResendWithin = 1
    NoCap = NoCap
    NoPayee = NoPayee
    MaxDisturbances = 1
    NoCall = NoCall
SYMMETRY Interchangeable
INVARIANTS SameAnswers LedgerConsistent
PROPERTIES ResendMovesNoMoney AdministeredCapBinds RedisImplementsContract
