SPECIFICATION FairSpec
CONSTANTS
    Producers = {p1, p2}
    Commands = {step, go}
    MaxAdds = 4
PROPERTIES
    ImplementsChannel
    ImplementsAtomicConsole
    EventDelivers
CHECK_DEADLOCK FALSE
