\* One operator and one agent on one scope; one request may be left behind.
SPECIFICATION Spec
CONSTANTS
    Scopes = {"merchant"}
    AssetIds <- OneAsset
    Ids = {"r1"}
    Fingerprints = {"f", "g"}
    Amounts = {1}
    CallerHourCaps = {1}
    CallerTotalCaps <- NoTotals
    AdminLimits <- NoLimits
    Networks <- OneNetwork
    Recipients <- OnePayee
    Allowlists <- OneList
    Enforcements = {"tofu"}
    Credentials = {"admin", "data"}
    TTL = 1
    Window = 1
    NoCap = NoCap
    NoPayee = NoPayee
    Clients = {"operator", "agent"}
    Operator = "operator"
    DataToken = "data"
    AdminToken = "admin"
    NoToken = "none"
    AdminVariables = {"", "admin"}
    ClientCalls <- Calls
    ClientTokens <- Tokens
    RawRequests <- Raw
    CommandLines <- Lines
    DefaultAsset <- FirstAsset
    MaxFaults = 1
    NoVerb = NoVerb
INVARIANTS AnswersTellTruth HaltHolds
PROPERTIES ExitTellsTruth
