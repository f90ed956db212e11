SPECIFICATION Spec
CONSTANTS
    FilterNum = 2
    FeedNum = 2
    DmxFilterNum = 2
    Pids = {1, 2, 8192}
    SecFlags <- EitherFlag
    PesOutputs = {TRUE, FALSE}
    MaxPids = 2
CONSTRAINT Sound
INVARIANTS
    ActiveHasFeed
    NoOrphan
    DmaFollowsFeeds
    NoOops
CHECK_DEADLOCK FALSE
