CONSTANTS
    Calls <- MCCalls
    Codes = {0, 1}
SPECIFICATION FairSpec
CHECK_DEADLOCK FALSE
INVARIANTS ResultsRight RoomToPut PingAfterCommand
PROPERTY Promise
