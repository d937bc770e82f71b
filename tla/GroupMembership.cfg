CONSTANTS
    User = {o, a, b}
    Req = {r1, r2}
    Call = {c1, c2}
    NoUser = NoUser
    NoReq = NoReq
    Creator = o
    MemberIds <- MCMemberIds
    NewRole = {"owner", "admin", "member"}
    MaxMembers = 3
    MaxCalls = 3
SPECIFICATION Spec
INVARIANTS CountNotAbove AdmittedByRequest
SYMMETRY Symmetric3
CHECK_DEADLOCK FALSE
