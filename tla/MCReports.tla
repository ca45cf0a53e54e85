----------------------------- MODULE MCReports -----------------------------
(* Small instances of Reports.                                              *)
EXTENDS Reports, TLC

\* Two months: the last day of one, and the first two of another.
MCMonthOf == [d \in Days |-> IF d = 1 THEN "July" ELSE "August"]

\* A report may be asked for the whole year: its pattern fits all the files.
MCQueries == {"July", "August", "Year"}
MCMatches == [q \in MCQueries |-> IF q = "Year" THEN Days
                                  ELSE {d \in Days : MCMonthOf[d] = q}]

\* Handlers run on, and the mutexes are handed over.
MCFair == Spec /\ \A w \in Writers : WF_vars(WriterStep(w))
               /\ \A r \in Readers : WF_vars(ReaderStep(r))
=============================================================================
