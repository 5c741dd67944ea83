SPECIFICATION Spec
CONSTANTS
    Sources = {"sheet", "other", "db"}
    Sheets = {"sheet", "other"}
    Tabs = {"t1", "t2", "t3"}
    SourceOf <- MCSourceOf
    Refs = {"r1"}
    Updatable = {"a", "b"}
    Lasting = {"c", "d"}
    Workers = {"w1"}
    QueueOf <- MCOneQueueOf
    Requests = {"q1", "q2"}
    Scenarios <- MCTwice
    MaxLines = 3
    MaxTries = 2
PROPERTY SyncsEnd
CHECK_DEADLOCK FALSE
