\* The returned receipt's voteSubmissionId is covered by neither check.
CONSTANTS
    Voters = {v1, v2}
    MaxLedger = 2
    MaxAttempts = 1
    None = None
SPECIFICATION Spec
INVARIANT ReceiptMatchesLedger
CHECK_DEADLOCK FALSE
