SPECIFICATION FairSpec
CONSTANTS
    Clients = {"tui"}
    MaxRequests = 3
    MaxEvents = 1
    MaxLines = 1
    Capacity = 1
PROPERTY StreamsEnd
CHECK_DEADLOCK FALSE
