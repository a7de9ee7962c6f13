\* A script that runs the command at most twice, or one request of a program.
SPECIFICATION FairCallSpec
CONSTANTS
    Requests <- TwoRuns
    MaxPaidAttempts = 2
    Amounts = {1}
    Cap = 4
    Statuses <- SomeStatuses
    Resends = TRUE
    OperatorWaits = FALSE
    Reruns <- NothingPaid
INVARIANTS RerunPaysOnce SettlementIsBacked
PROPERTIES EveryCallEnds KeepsContract
CHECK_DEADLOCK FALSE
