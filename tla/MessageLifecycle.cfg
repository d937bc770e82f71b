CONSTANTS
    m1 = m1
    m2 = m2
    alice = alice
    bob = bob
    Msg = {m1, m2}
    User = {alice, bob}
    Sender <- MCSender
    AutoDur <- MCAutoDur
    BurnSecs <- MCBurnSecs
    RecallLimit = 1
    BatchSize = 1
    first = p1
    Call = {p1, p2}
    NoTime = NoTime
    NoMsg = NoMsg
    MaxTime = 2
    MaxErrors = 1
SPECIFICATION ScenesSpec
INVARIANTS ExpireIsEarliest DeadlineKept
PROPERTIES
    ExpiredIsRemoved
    SweepEnds
