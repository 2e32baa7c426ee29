SPECIFICATION FairSpec
CONSTANTS
    t1 = t1
    t2 = t2
    Target = {t1, t2}
    RunsPerDay = 3
    SummaryRun = 1
    MaxFaults = 3
INVARIANTS RecordMatchesReports
PROPERTIES ReportsSettle
