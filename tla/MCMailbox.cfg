CONSTANTS
    Senders = {s1, s2, s3}
    Chunks = {k1, k2, k3, k4}
    N = 2
    None = None
    MaxSends = 5
SPECIFICATION FairSpec
INVARIANTS
    SignalMeansCommand
    OneWakeup
    PointersLive
    NoUseAfterDestroy
PROPERTIES
    ImplementsFifo
    EventuallyReceived
CHECK_DEADLOCK FALSE
