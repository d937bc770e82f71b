CONSTANTS
    SendCall = {s1, s2}
    Verifier = {v1, v2}
    Limit <- Limits
    MaxAttempts = 1
    MaxVerify = 3
    MaxErrors = 1
SYMMETRY Symmetry
SPECIFICATION Spec
INVARIANTS GuessesBounded ClosedNotAccepted
CHECK_DEADLOCK FALSE
