\* Two requests for a recommendation and two for a report on one inspection that
\* is analysed twice.
SPECIFICATION ReportSpec
CONSTANTS
    Inspections = {i1}
    Requests = {r1, r2}
    p1 = p1
    Refs = {p1}
    Hits <- Searches
    NotAList = {NotARef}
    Failure = Failure
    None = None
    MaxRun = 2
    Clerks = {k1, k2}
    Titles = {t1, t2}
    Files = {f1, f2}
SYMMETRY Symmetry
INVARIANTS
    OnePerAnalysis
    DecidedOnOneRun
    ExplainedTogether
    CitesOrFlags
    ReportTypeOK
    OneReportPerPlan
    ReportsOfStoredRuns
    ReportHasItsPdf
