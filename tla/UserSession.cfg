CONSTANTS
    Device = {d1, d2, d3}
    Type = {mobile, desktop}
    Call = {c1, c2, c3}
    MaxErrors = 1
SYMMETRY Symmetry
SPECIFICATION Spec
INVARIANTS RevocationComplete KickComplete
CHECK_DEADLOCK FALSE
