CONSTANTS
    Handler = {h1, h2, h3}
    Key = {k1, k2}
    Conv = {c1}
    ConvOf <- MCConvOf
    Single = {c1}
    MsgId = {m1, m2, m3}
    NoKey = NoKey
    NoMsg = NoMsg
    Free = Free
    MaxCalls = 3
    MaxErrors = 0
    ReadLimit = 1
SPECIFICATION Spec
SYMMETRY Symmetric
PROPERTY
    CommittedCallIsAnswered
