\* Administered caps, freezes and resets around callers with and without a cap, who
\* write one ERC-20 address in two ways; allowlists, first-use pins and their
\* provisioning around callers who name a payee.
SPECIFICATION PolicySpec
CONSTANTS
    Scopes = {merchant}
    AssetIds <- TwoSpellings
    Ids = {r1, r2}
    Fingerprints = {"f"}
    Amounts = {1, 2}
    CallerHourCaps = {1, 3}
    CallerTotalCaps <- CappedOrNot
    AdminLimits <- LowLimits
    Networks <- TwoNetworks
    Recipients <- SpeltRecipients
    Allowlists <- SpeltAllowlists
    Enforcements = {"allowlist", "tofu"}
    GovernedScopes = {merchant, "*"}
    TTL = 1
    Window = 1
    ClockSteps = {1}
    MaxTime = 2
    QueryLeads = {0}
    NoCap = NoCap
    NoPayee = NoPayee
SYMMETRY Interchangeable
INVARIANTS PinnedPayees
PROPERTIES CapAcrossSpellings AdministeredCapBinds FrozenNeverGrows
