SPECIFICATION FairSpec
CONSTANTS
    Callers = {owner, poll, service}
    Owner = owner
    NoCaller = none
    Requests = {"LOGIN", "GETAPINFO"}
    Login = "LOGIN"
    Keyword <- MCKeyword
    MaxCommands = 2
    MaxSessions = 1
    MaxEvents = 1
PROPERTIES CallsReturn LossIsNoticed
CHECK_DEADLOCK FALSE
