CONSTANTS
    m1 = m1
    m2 = m2
    alice = alice
    bob = bob
    Msg = {m2}
    User = {alice, bob}
    Sender <- MCSender
    AutoDur <- MCAutoDur
    BurnSecs <- MCBurnSecs
    RecallLimit = 1
    BatchSize = 1
    Call = {p1, p2}
    NoTime = NoTime
    NoMsg = NoMsg
    MaxTime = 2
    MaxErrors = 0
SPECIFICATION FairSpec
PROPERTY DeadlineNeverLater
