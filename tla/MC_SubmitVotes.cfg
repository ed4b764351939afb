\* Two voters, two calls each, a board chain of up to two entries.
\* Every voter stops once its calls are spent: the final states have no
\* successor by design, so deadlock is not an error here.
CONSTANTS
    Voters = {v1, v2}
    MaxLedger = 2
    MaxAttempts = 2
    None = None
SPECIFICATION Spec
INVARIANTS
    TypeOK
    ReceiptSound
SYMMETRY VoterSymmetry
CHECK_DEADLOCK FALSE
