------------------------------ MODULE Reports ------------------------------
(* internal/report/report.go: the request log, one file per day, and the    *)
(* monthly reports with their cache.                                        *)
(*                                                                          *)
(* Every request that ends writes one line (relay.go, finish) under the     *)
(* mutex of the Logger, and then takes the mutex of the Service to drop the *)
(* month's report.  A report is built under the mutex of the Service alone, *)
(* so that files grow while they are read.  A line is known by its writer;  *)
(* a report is the set of the lines it counts.                              *)
EXTENDS Integers

CONSTANTS Writers, Readers,
          Days, MonthOf,      \* MonthOf[d]: the month of day d
          Queries, Matches,   \* Matches[q]: the days that the pattern of q fits
          Nil

Months == {MonthOf[d] : d \in Days}

\* The handlers pass on what stands for ?month=, whether it is a month or not.
ASSUME ReportsAssumption ==
    /\ Days \subseteq Nat
    /\ Months \subseteq Queries
    /\ Matches \in [Queries -> SUBSET Days]
    /\ \A m \in Months : Matches[m] = {d \in Days : MonthOf[d] = m}
    /\ Nil \notin Days /\ Nil \notin Writers /\ Nil \notin Readers

\* delete(cache, m) and cache[m] = report.
Without(c, m) == [n \in DOMAIN c \ {m} |-> c[n]]
With(c, m, report) ==
    [n \in DOMAIN c \cup {m} |-> IF n = m THEN report ELSE c[n]]

VARIABLES today,
          logMu, svcMu,   \* who holds Logger.mu and Service.mu, or Nil
          file,           \* Logger.file: the day file that is open, or Nil
          day,            \* Logger.day: the day of the last one opened, or Nil
          files,          \* the day files: what a scan finds in them
          cache,          \* Service.cache: the queries that have a report
          writes,         \* writes[w]: a request that logs
          reads           \* reads[r]: a request for a report

vars == <<today, logMu, svcMu, file, day, files, cache, writes, reads>>

\* glued is a history: the line was appended to a part of another one.
Write == [pc : {"idle", "stamped", "written", "done", "failed"},
          day : Days, glued : BOOLEAN]

\* todo holds the files still to read.  before is a history: the writes of
\* these days that were done, and not glued, when the report was asked for.
Read == [pc : {"idle", "build", "done", "failed"}, month : Queries,
         todo : SUBSET Days, acc : SUBSET Writers, before : SUBSET Writers]

\* A file is absent, or has lines that are valid JSON and perhaps a part of a
\* line at its end.  A line that is not valid JSON is skipped by every scan.
File == [exists : BOOLEAN, lines : SUBSET Writers, torn : BOOLEAN]

-----------------------------------------------------------------------------
(* Logger.                                                                  *)

\* finish takes the time of the entry before it calls Write.
Stamp(w) ==
    /\ writes[w].pc = "idle"
    /\ writes' = [writes EXCEPT ![w] =
            [@ EXCEPT !.pc = "stamped", !.day = today]]
    /\ UNCHANGED <<today, logMu, svcMu, file, day, files, cache, reads>>

\* Write begins: the mutex is free, and w wants it.
Begins(w) == writes[w].pc = "stamped" /\ logMu = Nil

\* Fault: an entry of an earlier day goes to whatever file is open.
OpenedUnlessLater(w) == file # Nil /\ writes[w].day <= day

\* openLocked finds the file of the day open.
Opened(w) == file # Nil /\ day = writes[w].day

\* It is not, and cannot be opened; what was open is closed.
OpenFails(w) ==
    /\ Begins(w)
    /\ ~Opened(w)
    /\ file' = Nil
    /\ writes' = [writes EXCEPT ![w].pc = "failed"]
    /\ UNCHANGED <<today, logMu, svcMu, day, files, cache, reads>>

\* The file that is open after openLocked: the one that was, or a new one.
Target(w) == IF Opened(w) THEN file ELSE writes[w].day

OpenLocked(w) == /\ file' = Target(w)
                 /\ day' = IF Opened(w) THEN day ELSE writes[w].day

\* The line is appended, to the part of a line that an earlier write left.
Append(w) ==
    LET d == Target(w) IN
    /\ Begins(w)
    /\ OpenLocked(w)
    /\ files' = [files EXCEPT ![d] =
            [exists |-> TRUE, torn |-> FALSE,
             lines |-> IF @.torn THEN @.lines ELSE @.lines \cup {w}]]
    /\ writes' = [writes EXCEPT ![w] =
            [@ EXCEPT !.pc = "written", !.glued = files[d].torn]]
    /\ logMu' = w
    /\ UNCHANGED <<today, svcMu, cache, reads>>

\* The write fails, perhaps after a part of the line.
AppendFails(w, part) ==
    LET d == Target(w) IN
    /\ Begins(w)
    /\ OpenLocked(w)
    /\ files' = [files EXCEPT ![d] =
            [exists |-> TRUE, torn |-> @.torn \/ part, lines |-> @.lines]]
    /\ writes' = [writes EXCEPT ![w].pc = "failed"]
    /\ UNCHANGED <<today, logMu, svcMu, cache, reads>>

\* Fault: the month of the moment is dropped, not that of the entry.
InvalidateToday(w) ==
    /\ writes[w].pc = "written"
    /\ svcMu = Nil
    /\ cache' = Without(cache, MonthOf[today])
    /\ writes' = [writes EXCEPT ![w].pc = "done"]
    /\ logMu' = Nil
    /\ UNCHANGED <<today, svcMu, file, day, files, reads>>

\* Service.Invalidate, and the end of Write.
Invalidate(w) ==
    /\ writes[w].pc = "written"
    /\ svcMu = Nil
    /\ cache' = Without(cache, MonthOf[writes[w].day])
    /\ writes' = [writes EXCEPT ![w].pc = "done"]
    /\ logMu' = Nil
    /\ UNCHANGED <<today, svcMu, file, day, files, reads>>

\* main closes the log when it stops; handlers that go on open it again.
Close ==
    /\ logMu = Nil
    /\ file' = Nil
    /\ UNCHANGED <<today, logMu, svcMu, day, files, cache, writes, reads>>

-----------------------------------------------------------------------------
(* Service.                                                                 *)

Recorded(q) == {w \in Writers : /\ writes[w].pc = "done"
                                /\ writes[w].day \in Matches[q]
                                /\ ~writes[w].glued}

\* Monthly finds the report in the cache ...
AskHit(r, m) ==
    /\ reads[r].pc = "idle"
    /\ svcMu = Nil
    /\ m \in DOMAIN cache
    /\ reads' = [reads EXCEPT ![r] =
            [pc |-> "done", month |-> m, todo |-> {}, acc |-> cache[m],
             before |-> Recorded(m)]]
    /\ UNCHANGED <<today, logMu, svcMu, file, day, files, cache, writes>>

\* Fault: a report is built without holding the mutex.
AskMissUnlocked(r, m) ==
    /\ reads[r].pc = "idle"
    /\ svcMu = Nil
    /\ m \in Queries \ DOMAIN cache
    /\ reads' = [reads EXCEPT ![r] =
            [pc |-> "build", month |-> m, acc |-> {}, before |-> Recorded(m),
             todo |-> {d \in Matches[m] : files[d].exists}]]
    /\ UNCHANGED <<today, logMu, svcMu, file, day, files, cache, writes>>

\* ... or lists the files that exist ...
AskMiss(r, m) ==
    /\ reads[r].pc = "idle"
    /\ svcMu = Nil
    /\ m \in Queries \ DOMAIN cache
    /\ svcMu' = r
    /\ reads' = [reads EXCEPT ![r] =
            [pc |-> "build", month |-> m, acc |-> {}, before |-> Recorded(m),
             todo |-> {d \in Matches[m] : files[d].exists}]]
    /\ UNCHANGED <<today, logMu, file, day, files, cache, writes>>

\* ... reads them one by one, leaving out lines of another month ...
ReadFile(r, d) ==
    /\ reads[r].pc = "build"
    /\ d \in reads[r].todo
    /\ \A e \in reads[r].todo : d <= e
    /\ reads' = [reads EXCEPT
                    ![r].todo = @ \ {d},
                    ![r].acc = @ \cup {w \in files[d].lines :
                                        MonthOf[writes[w].day] = MonthOf[d]}]
    /\ UNCHANGED <<today, logMu, svcMu, file, day, files, cache, writes>>

\* Fault: the mutex is not let go after an error.
ReadFailsLocked(r) ==
    /\ reads[r].pc = "build"
    /\ reads[r].todo # {}
    /\ reads' = [reads EXCEPT ![r].pc = "failed"]
    /\ UNCHANGED <<today, logMu, svcMu, file, day, files, cache, writes>>

ReadFails(r) ==
    /\ reads[r].pc = "build"
    /\ reads[r].todo # {}
    /\ reads' = [reads EXCEPT ![r].pc = "failed"]
    /\ svcMu' = Nil
    /\ UNCHANGED <<today, logMu, file, day, files, cache, writes>>

\* ... and keeps the report.
Finish(r) ==
    /\ reads[r].pc = "build"
    /\ reads[r].todo = {}
    /\ cache' = With(cache, reads[r].month, reads[r].acc)
    /\ reads' = [reads EXCEPT ![r].pc = "done"]
    /\ svcMu' = Nil
    /\ UNCHANGED <<today, logMu, file, day, files, writes>>

NextDay ==
    /\ today + 1 \in Days
    /\ today' = today + 1
    /\ UNCHANGED <<logMu, svcMu, file, day, files, cache, writes, reads>>

-----------------------------------------------------------------------------

Init ==
    /\ today \in Days /\ \A d \in Days : today <= d
    /\ logMu = Nil /\ svcMu = Nil /\ file = Nil /\ day = Nil
    /\ files = [d \in Days |-> [exists |-> FALSE, lines |-> {}, torn |-> FALSE]]
    /\ cache = [m \in {} |-> {}]
    /\ writes = [w \in Writers |-> [pc |-> "idle", day |-> today,
                                    glued |-> FALSE]]
    /\ reads = [r \in Readers |-> [pc |-> "idle", month |-> MonthOf[today],
                                   todo |-> {}, acc |-> {}, before |-> {}]]

WriterStep(w) == \/ OpenFails(w) \/ Append(w) \/ Invalidate(w)
                 \/ \E part \in BOOLEAN : AppendFails(w, part)

ReaderStep(r) == ReadFails(r) \/ Finish(r) \/ \E d \in Days : ReadFile(r, d)

Next == \/ \E w \in Writers : Stamp(w) \/ WriterStep(w)
        \/ \E r \in Readers : \/ \E m \in Queries : AskHit(r, m) \/ AskMiss(r, m)
                              \/ ReaderStep(r)
        \/ Close \/ NextDay

Spec == Init /\ [][Next]_vars

-----------------------------------------------------------------------------
(* Properties.                                                              *)

\* Types; a mutex is held by who is in the part of the code that it guards.
ReportsTypeOK ==
    /\ today \in Days
    /\ file \in Days \cup {Nil} /\ day \in Days \cup {Nil}
    /\ files \in [Days -> File]
    /\ DOMAIN cache \subseteq Queries
    /\ cache \in [DOMAIN cache -> SUBSET Writers]
    /\ writes \in [Writers -> Write]
    /\ reads \in [Readers -> Read]
    /\ logMu \in Writers \cup {Nil} /\ svcMu \in Readers \cup {Nil}
    /\ \A w \in Writers : logMu = w <=> writes[w].pc = "written"
    /\ \A r \in Readers : svcMu = r <=> reads[r].pc = "build"

\* Every line is in the file of its own day: the file that openLocked leaves
\* open is that of the entry, whatever the order in which requests around
\* midnight take the mutex, after failures to open and after Close.
OwnDay == \A d \in Days : \A w \in files[d].lines : writes[w].day = d

\* A report stays in the cache only as long as nothing is missing in it but
\* lines whose writers are about to drop it ("caches them until a new log
\* line is written for that month").  Of months only: what is cached for any
\* other query stays.
CacheFresh ==
    \A d \in Days : MonthOf[d] \in DOMAIN cache =>
        \A w \in files[d].lines \ cache[MonthOf[d]] : writes[w].pc = "written"

\* A report that is handed out, from the cache or built while the log grows,
\* counts every request of its month that was logged before it was asked for.
ReportComplete ==
    \A r \in Readers :
        reads[r].pc = "done" /\ reads[r].month \in Months =>
            reads[r].before \subseteq reads[r].acc

\* Every write that begins ends, and so does every report: a writer holds one
\* mutex and waits for the other, and nobody waits the other way round.
EveryoneEnds ==
    /\ \A w \in Writers :
          writes[w].pc = "stamped" ~> writes[w].pc \in {"done", "failed"}
    /\ \A r \in Readers :
          reads[r].pc = "build" ~> reads[r].pc \in {"done", "failed"}
=============================================================================
