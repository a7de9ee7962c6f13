\* The same script, over merchants whose answer may break off in its body.
SPECIFICATION CallSpec
CONSTANTS
    Requests <- TwoRuns
    MaxPaidAttempts = 2
    Amounts = {1}
    Cap = 4
    Statuses <- SomeStatuses
    Resends = FALSE
    OperatorWaits = TRUE
    Reruns <- NothingPaid
INVARIANTS MoneyShowsInExit
CHECK_DEADLOCK FALSE
