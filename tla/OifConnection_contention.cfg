SPECIFICATION Spec
CONSTANTS
    Callers = {owner, poll, service}
    Owner = owner
    NoCaller = none
    Requests = {"LOGIN", "GETAPINFO"}
    Login = "LOGIN"
    Keyword <- MCKeyword
    MaxCommands = 3
    MaxSessions = 2
    MaxEvents = 0
INVARIANTS AnsweredAfterAsked FailureMeansDown StrayOnlyFromGone
SYMMETRY OtherCallers
CHECK_DEADLOCK FALSE
