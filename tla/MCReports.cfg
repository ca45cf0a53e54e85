\* Requests that log around the end of a month, and two reports.
SPECIFICATION MCFair
CONSTANTS
    Writers = {w1, w2}
    Readers = {r1, r2}
    Days = {1, 2, 3}
    MonthOf <- MCMonthOf
    Queries <- MCQueries
    Matches <- MCMatches
    Nil = Nil
INVARIANTS ReportsTypeOK OwnDay CacheFresh ReportComplete
PROPERTIES EveryoneEnds
