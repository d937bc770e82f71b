CONSTANTS
    Handler = {h1, h2}
    Key = {k1, k2}
    Conv = {c1}
    ConvOf <- MCConvOf
    Single = {}
    MsgId = {m1, m2}
    NoKey = NoKey
    NoMsg = NoMsg
    Free = Free
    MaxCalls = 2
    MaxErrors = 1
    ReadLimit = 1
SPECIFICATION FairSpec
INVARIANTS
    SequencesDense
    OneMessagePerKey
    RepliesAgree
    ReaderMissesNothing
PROPERTY
    LogSpec
    CallsEnd
