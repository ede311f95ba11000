SPECIFICATION Spec
CONSTANTS
    MAX_CONNS = 2
    ENGINES = 2
    MAILBOX_CAP = 1
    SEND_HIGH_WATER = 2
    MAX_INBOUND = 1
    CONNECTIONS = 2
    REQUESTS = 2
    MALFORMED = {2}
    FRAMES = {1}
INVARIANT AnswersGoHome OneInFlight OnlyLateWorkIsLeft
PROPERTY AnswersInOrderUnlessUpset NotClosedWhileOwed InFlightReturns
