CONSTANTS
    App = {a1}
    Interval = 2
    TimeModulus = 100
    SeqModulus = 4
    MaxTime = 4
    MaxRequests = 3
    MaxSessions = 2
SPECIFICATION Spec
INVARIANTS TypeOK SampledOnce OneStraySample IntervalIsKept PendingWasSent StatisticsAddUp OneClockUnlessOverlapping
PROPERTIES MatchedInItsSession OnlyLatestIsAwaited
