SPECIFICATION Spec
CONSTANTS
    Sources = {"sheet", "other", "db"}
    Sheets = {"sheet", "other"}
    Tabs = {"t1", "t2", "t3"}
    SourceOf <- MCSourceOf
    Refs = {"r1"}
    Updatable = {"a", "b"}
    Lasting = {"c", "d"}
    Workers = {"w1", "w2", "w3", "w4", "w5"}
    QueueOf <- MCQueueOf
    Requests = {"q1", "q2", "q3"}
    Scenarios <- MCScenarios
    MaxLines = 3
    MaxTries = 2
INVARIANTS TypeOK QuietSyncMirrors RetryPostsOnce InvalidRowsTraced CompletedReportMatchesFile AnsweredIsDone
PROPERTIES JobsEnd CalmSyncsEnd
CHECK_DEADLOCK FALSE
