CONSTANTS
    ReceiptCall = {c1, c2}
    ClientSeq <- MCClientSeq
    NoRow = NoRow
    MaxSeq = 2
    MaxReceiptCalls = 3
    Msg = {q1, q2, q3}
    PinCall = {c1, c2}
    NoMsg = NoMsg
    Limit = 1
    MaxPins = 3
    File = {f1, f2}
    FileUser = {u1, u2}
    NoUser = NoUser
    FileCall = {c1, c2}
    NoFile = NoFile
    FileSize = {50, 60, 200}
    MaxFileCalls = 3
    Target = {t1}
    ConvId = {u1, u2}
    NoConv = NoConv
    ConvCall = {c1, c2}
    MaxConvCalls = 3
    MaxValue = 1
    AccUser = {u1, u2}
    Value = {v1, v2}
    NoValue = NoValue
    Default = v1
    Token = {q1, q2, q3}
    AccCall = {c1, c2}
    NoAccount = NoAccount
    MaxAccCalls = 2
    QToken = {q1, q2, q3}
    NoToken = NoToken
    QCall = {c1, c2}
    MaxQCalls = 4
SYMMETRY Symmetric
SPECIFICATION StoresSpec
INVARIANTS
    PositionJustified SettledKept BoundedOverrun RowMatchesObject ViewAgrees
    WritesKept ShownCodeResolves RefreshRevokes
CHECK_DEADLOCK FALSE
