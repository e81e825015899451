CONSTANTS
    Asked <- EveryOther
    MaxWatch = 2
    MaxEvents = 2
    QueueLimit = 2
    OpenFiles = {0, 1, 2, 3}
    Sec = {0, 1, 2, 3}
    Second = 6
    Carry = 2
    MaxCompares = 4
SPECIFICATION Spec
INVARIANTS
    EventsInOrder
    ReportsWhatWasAsked
    ComparesRight
PROPERTY EarlierStays
