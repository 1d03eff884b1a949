SPECIFICATION FairSpec
CONSTANTS
    Threads = {t1, t2, t3}
    AutoReset = TRUE
    NoOne = NoOne
INVARIANTS
    TypeOK
    NobodySleepsThroughASignal
PROPERTIES
    ImplementsAtomicEvent
    SignalReleases
