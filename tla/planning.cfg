\* Two payments side by side, first use of a payee, both chain families.
SPECIFICATION MCSpec
CONSTANTS
    Passes = {p1, p2}
    Challenges <- EveryChallenge
    Replies <- ReplyTable
    Manifests <- ManifestTable
    TrustedKeys <- Keys
    Caip2 <- TwoNetworks
    NotAnObject = NotAnObject
    MaxSafe = 100000
    OddKeys = {"naive"}
    NoHeader = NoHeader
    Misshapen = Misshapen
    MaxBytes = 1
    MaxDepth = 5
    MaxRequirements = 4
    AllowInsecureLocalhost = FALSE
    Networks <- TwoNetworks
    Assets <- TwoAssets
    Token2022 = {"t22"}
    AllowedDomains <- BelowShop
    ConfiguredNetworks <- ByAlias
    MaxPerRequest = 2
    MaxPerHour = 2
    Modes = {"off", "allowlist", "tofu"}
    AllowEntries <- AllowOnSol
    Now = 2
    MaxQuoteAge = 1
    MaxFutureSkew = 1
    NoStamp = NoStamp
    BadStamp = BadStamp
    Family <- FamilyMap
    Signers = {"eip155", "solana"}
    PreferNetworks <- BaseFirst
    Balances = {1, 2}
    Scores = {0}
    NoReading = NoReading
    Pending = Pending
    Unreachable = Unreachable
    MaxAsks <- AskTwiceOnce
    Contended <- ContendedBase
    p1 = p1
    p2 = p2
    x = x
    y = y
INVARIANTS BlameIsTrue OneReadPerBalance OnePayeePerScope SignedOnceAsReserved
PROPERTIES BestRouteChosen EveryPassEnds
CHECK_DEADLOCK FALSE
