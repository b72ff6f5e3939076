SPECIFICATION IssuesFairSpec
CONSTANTS
    IssueAfter = 3
INVARIANTS IssuesCanBeCleared
PROPERTIES OutageIsLong LongOutageIsReported
