\* Two requests race for a budget only one fits in; each may be re-challenged once.
SPECIFICATION Spec
CONSTANTS
    Requests = {q1, q2}
    MaxPaidAttempts = 2
    Amounts = {1}
    Cap = 1
    Statuses <- EveryStatus
    Resends = FALSE
    OperatorWaits = TRUE
SYMMETRY Interchangeable
INVARIANTS MoneyWithinCap PayableIsCovered PaysOnce HonestOutcome
CHECK_DEADLOCK FALSE
