--------------------------- MODULE ReportsProofs ---------------------------
(* The properties of Reports, for every number of requests, of reports and  *)
(* of days.                                                                 *)
EXTENDS Reports, TLAPS

-----------------------------------------------------------------------------
(* The inductive invariant.                                                 *)

\* What the files say of the writers, and the writers of the files.
Logged ==
    /\ \A d \in Days : ~files[d].exists => files[d].lines = {}
    /\ \A d \in Days : \A w \in files[d].lines :
          writes[w].pc \in {"written", "done"}
    /\ \A w \in Writers : writes[w].pc \in {"written", "done"} /\ ~writes[w].glued
                              => w \in files[writes[w].day].lines

\* Logger.day is the day of Logger.file as long as that is open.
OwnFile == file # Nil => file = day

\* A report that is built.  Of the files behind the reader, it misses no line
\* but those whose writer waits for the mutex that the reader holds; what it
\* has to count and has not counted is in a file ahead.
Scan ==
    \A r \in Readers : reads[r].pc = "build" =>
        /\ \A d \in Matches[reads[r].month] \ reads[r].todo :
              \A w \in files[d].lines \ reads[r].acc : writes[w].pc = "written"
        /\ \A w \in reads[r].before \ reads[r].acc :
              \E d \in reads[r].todo : w \in files[d].lines

ReportsInv ==
    /\ ReportsTypeOK /\ Logged /\ OwnFile /\ OwnDay
    /\ CacheFresh /\ Scan /\ ReportComplete

-----------------------------------------------------------------------------
(* One step.                                                                *)

\* ReportsTypeOK without the mutexes ...
Typed ==
    /\ today \in Days
    /\ file \in Days \cup {Nil} /\ day \in Days \cup {Nil}
    /\ files \in [Days -> File]
    /\ DOMAIN cache \subseteq Queries
    /\ cache \in [DOMAIN cache -> SUBSET Writers]
    /\ writes \in [Writers -> Write]
    /\ reads \in [Readers -> Read]

\* ... and the mutexes.
Mutexes ==
    /\ logMu \in Writers \cup {Nil} /\ svcMu \in Readers \cup {Nil}
    /\ \A w \in Writers : logMu = w <=> writes[w].pc = "written"
    /\ \A r \in Readers : svcMu = r <=> reads[r].pc = "build"

LEMMA TypeParts == ReportsTypeOK <=> Typed /\ Mutexes
    BY DEF ReportsTypeOK, Typed, Mutexes

\* openLocked leaves the file of the entry's day open.
LEMMA TargetOwn ==
    ASSUME OwnFile, NEW w \in Writers
    PROVE  Target(w) = writes[w].day
    BY DEF OwnFile, Target, Opened

\* The types of the variables.
LEMMA TypedStep ==
    ASSUME Typed, [Next]_vars
    PROVE  Typed'
<1> USE ReportsAssumption DEF Typed, Months
<1>0. /\ writes \in [Writers -> Write] /\ reads \in [Readers -> Read]
      /\ files \in [Days -> File]
    OBVIOUS
<1>1. ASSUME NEW w \in Writers, Stamp(w) PROVE Typed'
    <2>1. writes' = [writes EXCEPT
                ![w] = [writes[w] EXCEPT !.pc = "stamped", !.day = today]]
        BY <1>1 DEF Stamp
    <2>2. [writes[w] EXCEPT !.pc = "stamped", !.day = today] \in Write
        BY <1>1 DEF Write, Stamp
    <2>3. writes' \in [Writers -> Write]
        BY <1>0, <2>1, <2>2
    <2> QED
        BY <1>1, <2>3 DEF Stamp
<1>2. ASSUME NEW w \in Writers, OpenFails(w) PROVE Typed'
    <2>1. writes' = [writes EXCEPT ![w] = [writes[w] EXCEPT !.pc = "failed"]]
        BY <1>2 DEF OpenFails, Begins
    <2>2. [writes[w] EXCEPT !.pc = "failed"] \in Write
        BY <1>2 DEF Write, OpenFails, Begins
    <2>3. writes' \in [Writers -> Write]
        BY <1>0, <2>1, <2>2
    <2> QED
        BY <1>2, <2>3 DEF OpenFails, Begins
<1>3. ASSUME NEW w \in Writers, Append(w) PROVE Typed'
    <2> DEFINE own   == Target(w)
               after == [exists |-> TRUE, torn |-> FALSE,
                       lines |-> IF files[own].torn THEN files[own].lines
                                 ELSE files[own].lines \cup {w}]
               write == [writes[w] EXCEPT !.pc = "written",
                                          !.glued = files[own].torn]
    <2>0. files' = [files EXCEPT ![own] = after]
        BY <1>3 DEF Append, Begins
    <2>1. writes' = [writes EXCEPT ![w] = write]
        BY <1>3 DEF Append, Begins
    <2>2. own \in Days /\ after \in File /\ write \in Write
        <3>1. own \in Days
            BY <1>3, <1>0 DEF Write, Target, Opened
        <3>2. files[own] \in File /\ files[own].torn \in BOOLEAN
            BY <1>0, <3>1 DEF File
        <3>3. after \in File
            BY <1>3, <3>2 DEF File
        <3>4. writes[w] \in Write
            BY <1>3, <1>0
        <3>5. write \in Write
            <4> HIDE DEF Typed
            <4> QED
                BY <3>2, <3>4 DEF Write
        <3> QED
            BY <3>1, <3>3, <3>5
    <2> HIDE DEF own, after, write
    <2>3. files' \in [Days -> File] /\ writes' \in [Writers -> Write]
        BY <1>0, <2>0, <2>1, <2>2
    <2>4. file' \in Days /\ day' \in Days \cup {Nil}
        <3>1. file' = own /\ day' \in {day, writes[w].day}
            BY <1>3 DEF Append, OpenLocked, own
        <3> QED
            BY <1>0, <1>3, <2>2, <3>1 DEF Write
    <2> QED
        BY <1>3, <2>3, <2>4 DEF Append
<1>4. ASSUME NEW w \in Writers, NEW part \in BOOLEAN, AppendFails(w, part)
      PROVE Typed'
    <2> DEFINE own   == Target(w)
               after == [exists |-> TRUE, torn |-> files[own].torn \/ part,
                       lines |-> files[own].lines]
               write == [writes[w] EXCEPT !.pc = "failed"]
    <2>0. files' = [files EXCEPT ![own] = after]
        BY <1>4 DEF AppendFails, Begins
    <2>1. writes' = [writes EXCEPT ![w] = write]
        BY <1>4 DEF AppendFails, Begins
    <2>2. own \in Days /\ after \in File /\ write \in Write
        <3>1. own \in Days
            BY <1>4, <1>0 DEF Write, Target, Opened
        <3>2. files[own] \in File /\ files[own].torn \in BOOLEAN
            BY <1>0, <3>1 DEF File
        <3>3. after \in File
            BY <1>4, <3>2 DEF File
        <3>4. writes[w] \in Write
            BY <1>4, <1>0
        <3>5. write \in Write
            <4> HIDE DEF Typed
            <4> QED
                BY <3>2, <3>4 DEF Write
        <3> QED
            BY <3>1, <3>3, <3>5
    <2> HIDE DEF own, after, write
    <2>3. files' \in [Days -> File] /\ writes' \in [Writers -> Write]
        BY <1>0, <2>0, <2>1, <2>2
    <2>4. file' \in Days /\ day' \in Days \cup {Nil}
        <3>1. file' = own /\ day' \in {day, writes[w].day}
            BY <1>4 DEF AppendFails, OpenLocked, own
        <3> QED
            BY <1>0, <1>4, <2>2, <3>1 DEF Write
    <2> QED
        BY <1>4, <2>3, <2>4 DEF AppendFails
<1>5. ASSUME NEW w \in Writers, Invalidate(w) PROVE Typed'
    <2>1. writes' = [writes EXCEPT ![w] = [writes[w] EXCEPT !.pc = "done"]]
        BY <1>5 DEF Invalidate, Without
    <2>2. [writes[w] EXCEPT !.pc = "done"] \in Write
        BY <1>5 DEF Write, Invalidate, Without
    <2>3. writes' \in [Writers -> Write]
        BY <1>0, <2>1, <2>2
    <2> QED
        BY <1>5, <2>3 DEF Invalidate, Without
<1>6. ASSUME NEW r \in Readers, NEW m \in Queries, AskHit(r, m) PROVE Typed'
    <2> DEFINE read == [pc |-> "done", month |-> m, todo |-> {},
                        acc |-> cache[m], before |-> Recorded(m)]
    <2>1. reads' = [reads EXCEPT ![r] = read]
        BY <1>6 DEF AskHit, Recorded
    <2>2. read \in Read
        BY <1>6 DEF Read, AskHit, Recorded
    <2>3. reads' \in [Readers -> Read]
        BY <1>0, <2>1, <2>2
    <2> QED
        BY <1>6, <2>3 DEF AskHit, Recorded
<1>7. ASSUME NEW r \in Readers, NEW m \in Queries, AskMiss(r, m) PROVE Typed'
    <2>1. reads' = [reads EXCEPT ![r] = reads'[r]]
        BY <1>7 DEF AskMiss, Recorded
    <2>2. reads'[r] \in Read
        BY <1>7 DEF Read, AskMiss, Recorded
    <2>3. reads' \in [Readers -> Read]
        BY <1>0, <2>1, <2>2
    <2> QED
        BY <1>7, <2>3 DEF AskMiss, Recorded
<1>8. ASSUME NEW r \in Readers, NEW d \in Days, ReadFile(r, d) PROVE Typed'
    <2> DEFINE more == {w \in files[d].lines : MonthOf[writes[w].day] = MonthOf[d]}
               read == [reads[r] EXCEPT !.todo = @ \ {d}, !.acc = @ \cup more]
    <2>0. reads' = [reads EXCEPT ![r] = reads'[r]] /\ reads'[r] = read
        BY <1>0, <1>8 DEF ReadFile, Read
    <2>1. reads' = [reads EXCEPT ![r] = read]
        BY <2>0
    <2>2. read \in Read
        <3>1. more \subseteq Writers
            BY <1>0 DEF File
        <3>2. reads[r] \in Read
            BY <1>0
        <3> HIDE DEF more
        <3> QED
            BY <3>1, <3>2 DEF Read
    <2> HIDE DEF read
    <2>3. reads' \in [Readers -> Read]
        BY <1>0, <2>1, <2>2
    <2> QED
        BY <1>8, <2>3 DEF ReadFile
<1>9. ASSUME NEW r \in Readers, ReadFails(r) PROVE Typed'
    <2>1. reads' = [reads EXCEPT ![r] = [reads[r] EXCEPT !.pc = "failed"]]
        BY <1>9 DEF ReadFails
    <2>2. [reads[r] EXCEPT !.pc = "failed"] \in Read
        BY <1>9 DEF Read, ReadFails
    <2>3. reads' \in [Readers -> Read]
        BY <1>0, <2>1, <2>2
    <2> QED
        BY <1>9, <2>3 DEF ReadFails
<1>10. ASSUME NEW r \in Readers, Finish(r) PROVE Typed'
    <2>1. reads' = [reads EXCEPT ![r] = [reads[r] EXCEPT !.pc = "done"]]
        BY <1>10 DEF Finish, With
    <2>2. [reads[r] EXCEPT !.pc = "done"] \in Read
        BY <1>10 DEF Read, Finish, With
    <2>3. reads' \in [Readers -> Read]
        BY <1>0, <2>1, <2>2
    <2>4. reads[r].month \in Queries /\ reads[r].acc \in SUBSET Writers
        BY <1>0 DEF Read
    <2>5. /\ DOMAIN cache' \subseteq Queries
          /\ cache' \in [DOMAIN cache' -> SUBSET Writers]
        BY <1>10, <2>4 DEF Finish, With
    <2> QED
        BY <1>10, <2>3, <2>5 DEF Finish
<1>11. ASSUME Close PROVE Typed'
    BY <1>11 DEF Close
<1>12. ASSUME NextDay PROVE Typed'
    BY <1>12 DEF NextDay
<1>13. CASE UNCHANGED vars
    BY <1>13 DEF vars
<1> HIDE DEF Typed, Months
<1> QED
    BY <1>1, <1>2, <1>3, <1>4, <1>5, <1>6, <1>7, <1>8, <1>9, <1>10, <1>11,
       <1>12, <1>13 DEF Next, WriterStep, ReaderStep

\* A mutex is taken and let go by the same one.
LEMMA MutexStep ==
    ASSUME Typed, Mutexes, [Next]_vars
    PROVE  Mutexes'
<1> USE ReportsAssumption DEF Typed, Mutexes, File, Write, Read
<1>1. ASSUME NEW w \in Writers, Stamp(w) PROVE Mutexes'
    BY <1>1 DEF Stamp
<1>2. ASSUME NEW w \in Writers, OpenFails(w) PROVE Mutexes'
    BY <1>2 DEF OpenFails, Begins
<1>3. ASSUME NEW w \in Writers, Append(w) PROVE Mutexes'
    BY <1>3 DEF Append, Begins
<1>4. ASSUME NEW w \in Writers, NEW part \in BOOLEAN, AppendFails(w, part)
      PROVE Mutexes'
    BY <1>4 DEF AppendFails, Begins
<1>5. ASSUME NEW w \in Writers, Invalidate(w) PROVE Mutexes'
    BY <1>5 DEF Invalidate, Without
<1>6. ASSUME NEW r \in Readers, NEW m \in Queries, AskHit(r, m) PROVE Mutexes'
    BY <1>6 DEF AskHit
<1>7. ASSUME NEW r \in Readers, NEW m \in Queries, AskMiss(r, m) PROVE Mutexes'
    BY <1>7 DEF AskMiss
<1>8. ASSUME NEW r \in Readers, NEW d \in Days, ReadFile(r, d) PROVE Mutexes'
    BY <1>8 DEF ReadFile
<1>9. ASSUME NEW r \in Readers, ReadFails(r) PROVE Mutexes'
    BY <1>9 DEF ReadFails
<1>10. ASSUME NEW r \in Readers, Finish(r) PROVE Mutexes'
    BY <1>10 DEF Finish, With
<1>11. ASSUME Close PROVE Mutexes'
    BY <1>11 DEF Close
<1>12. ASSUME NextDay PROVE Mutexes'
    BY <1>12 DEF NextDay
<1>13. CASE UNCHANGED vars
    BY <1>13 DEF vars
<1> HIDE DEF Typed, Mutexes, File, Write, Read
<1> QED
    BY <1>1, <1>2, <1>3, <1>4, <1>5, <1>6, <1>7, <1>8, <1>9, <1>10, <1>11,
       <1>12, <1>13 DEF Next, WriterStep, ReaderStep

\* Files and writers agree.
LEMMA LoggedStep ==
    ASSUME ReportsTypeOK, Logged, OwnFile, [Next]_vars
    PROVE  Logged'
<1> USE ReportsAssumption DEF ReportsTypeOK, File, Write, Logged
<1>1. ASSUME NEW w \in Writers, Stamp(w) PROVE Logged'
    BY <1>1 DEF Stamp
<1>2. ASSUME NEW w \in Writers, OpenFails(w) PROVE Logged'
    BY <1>2 DEF OpenFails, Begins
<1>3. ASSUME NEW w \in Writers, Append(w) PROVE Logged'
    BY <1>3, TargetOwn DEF Append, Begins
<1>4. ASSUME NEW w \in Writers, NEW part \in BOOLEAN, AppendFails(w, part)
      PROVE Logged'
    BY <1>4, TargetOwn DEF AppendFails, Begins
<1>5. ASSUME NEW w \in Writers, Invalidate(w) PROVE Logged'
    BY <1>5 DEF Invalidate, Without
<1>6. ASSUME NEW r \in Readers, NEW m \in Queries, AskHit(r, m) PROVE Logged'
    BY <1>6 DEF AskHit
<1>7. ASSUME NEW r \in Readers, NEW m \in Queries, AskMiss(r, m) PROVE Logged'
    BY <1>7 DEF AskMiss
<1>8. ASSUME NEW r \in Readers, NEW d \in Days, ReadFile(r, d) PROVE Logged'
    BY <1>8 DEF ReadFile
<1>9. ASSUME NEW r \in Readers, ReadFails(r) PROVE Logged'
    BY <1>9 DEF ReadFails
<1>10. ASSUME NEW r \in Readers, Finish(r) PROVE Logged'
    BY <1>10 DEF Finish, With
<1>11. ASSUME Close PROVE Logged'
    BY <1>11 DEF Close
<1>12. ASSUME NextDay PROVE Logged'
    BY <1>12 DEF NextDay
<1>13. CASE UNCHANGED vars
    BY <1>13 DEF vars
<1> HIDE DEF ReportsTypeOK, File, Write, Logged
<1> QED
    BY <1>1, <1>2, <1>3, <1>4, <1>5, <1>6, <1>7, <1>8, <1>9, <1>10, <1>11,
       <1>12, <1>13 DEF Next, WriterStep, ReaderStep

\* The file and the day of the logger move together.
LEMMA OwnFileStep ==
    ASSUME OwnFile, [Next]_vars
    PROVE  OwnFile'
<1> USE ReportsAssumption DEF OwnFile
<1>1. ASSUME NEW w \in Writers, OpenFails(w) PROVE OwnFile'
    BY <1>1 DEF OpenFails
<1>2. ASSUME NEW w \in Writers, OpenLocked(w) PROVE OwnFile'
    BY <1>2 DEF OpenLocked, Target, Opened
<1>3. CASE Close
    BY <1>3 DEF Close
<1>4. ASSUME UNCHANGED <<file, day>> PROVE OwnFile'
    BY <1>4
<1> HIDE DEF OwnFile
<1> QED
    BY <1>1, <1>2, <1>3, <1>4
    DEF Next, vars, WriterStep, ReaderStep, Stamp, Append, AppendFails,
        Invalidate, AskHit, AskMiss, ReadFile, ReadFails, Finish, NextDay

\* A line goes to the file of its day.
LEMMA OwnDayStep ==
    ASSUME ReportsTypeOK, Logged, OwnFile, OwnDay, [Next]_vars
    PROVE  OwnDay'
<1> USE ReportsAssumption DEF ReportsTypeOK, File, Write, Logged, OwnDay
<1>1. ASSUME NEW w \in Writers, Stamp(w) PROVE OwnDay'
    BY <1>1 DEF Stamp
<1>2. ASSUME NEW w \in Writers, OpenFails(w) PROVE OwnDay'
    BY <1>2 DEF OpenFails, Begins
<1>3. ASSUME NEW w \in Writers, Append(w) PROVE OwnDay'
    BY <1>3, TargetOwn DEF Append, Begins
<1>4. ASSUME NEW w \in Writers, NEW part \in BOOLEAN, AppendFails(w, part)
      PROVE OwnDay'
    BY <1>4, TargetOwn DEF AppendFails, Begins
<1>5. ASSUME NEW w \in Writers, Invalidate(w) PROVE OwnDay'
    BY <1>5 DEF Invalidate, Without
<1>6. ASSUME NEW r \in Readers, NEW m \in Queries, AskHit(r, m) PROVE OwnDay'
    BY <1>6 DEF AskHit
<1>7. ASSUME NEW r \in Readers, NEW m \in Queries, AskMiss(r, m) PROVE OwnDay'
    BY <1>7 DEF AskMiss
<1>8. ASSUME NEW r \in Readers, NEW d \in Days, ReadFile(r, d) PROVE OwnDay'
    BY <1>8 DEF ReadFile
<1>9. ASSUME NEW r \in Readers, ReadFails(r) PROVE OwnDay'
    BY <1>9 DEF ReadFails
<1>10. ASSUME NEW r \in Readers, Finish(r) PROVE OwnDay'
    BY <1>10 DEF Finish, With
<1>11. ASSUME Close PROVE OwnDay'
    BY <1>11 DEF Close
<1>12. ASSUME NextDay PROVE OwnDay'
    BY <1>12 DEF NextDay
<1>13. CASE UNCHANGED vars
    BY <1>13 DEF vars
<1> HIDE DEF ReportsTypeOK, File, Write, Logged, OwnDay
<1> QED
    BY <1>1, <1>2, <1>3, <1>4, <1>5, <1>6, <1>7, <1>8, <1>9, <1>10, <1>11,
       <1>12, <1>13 DEF Next, WriterStep, ReaderStep

\* The cache is filled by a scan, and emptied by a writer.
LEMMA CacheStep ==
    ASSUME ReportsTypeOK, Logged, OwnFile, OwnDay, Scan, CacheFresh,
           [Next]_vars
    PROVE  CacheFresh'
<1> USE ReportsAssumption DEF ReportsTypeOK, File, Write, Read, Months,
          Logged, OwnDay, Scan, CacheFresh
<1>1. ASSUME NEW w \in Writers, Stamp(w) PROVE CacheFresh'
    BY <1>1 DEF Stamp
<1>2. ASSUME NEW w \in Writers, OpenFails(w) PROVE CacheFresh'
    BY <1>2 DEF OpenFails, Begins
<1>3. ASSUME NEW w \in Writers, Append(w) PROVE CacheFresh'
    BY <1>3, TargetOwn DEF Append, Begins
<1>4. ASSUME NEW w \in Writers, NEW part \in BOOLEAN, AppendFails(w, part)
      PROVE CacheFresh'
    BY <1>4, TargetOwn DEF AppendFails, Begins
<1>5. ASSUME NEW w \in Writers, Invalidate(w) PROVE CacheFresh'
    BY <1>5 DEF Invalidate, Without
<1>6. ASSUME NEW r \in Readers, NEW m \in Queries, AskHit(r, m) PROVE CacheFresh'
    BY <1>6 DEF AskHit
<1>7. ASSUME NEW r \in Readers, NEW m \in Queries, AskMiss(r, m)
      PROVE CacheFresh'
    BY <1>7 DEF AskMiss
<1>8. ASSUME NEW r \in Readers, NEW d \in Days, ReadFile(r, d) PROVE CacheFresh'
    BY <1>8 DEF ReadFile
<1>9. ASSUME NEW r \in Readers, ReadFails(r) PROVE CacheFresh'
    BY <1>9 DEF ReadFails
<1>10. ASSUME NEW r \in Readers, Finish(r) PROVE CacheFresh'
    <2> DEFINE q == reads[r].month
    <2>1. /\ \A n \in DOMAIN cache' \ {q} :
                n \in DOMAIN cache /\ cache'[n] = cache[n]
          /\ q \in DOMAIN cache' => cache'[q] = reads[r].acc
          /\ UNCHANGED <<files, writes>>
        BY <1>10 DEF Finish, With
    <2>2. ASSUME NEW d \in Days, MonthOf[d] = q
          PROVE  \A w \in files[d].lines \ reads[r].acc : writes[w].pc = "written"
        <3>1. reads[r].pc = "build" /\ reads[r].todo = {}
            BY <1>10 DEF Finish
        <3>2. q \in Months /\ d \in Matches[q]
            BY <2>2
        <3> QED
            BY <3>1, <3>2
    <2> QED
        BY <2>1, <2>2
<1>11. ASSUME Close PROVE CacheFresh'
    BY <1>11 DEF Close
<1>12. ASSUME NextDay PROVE CacheFresh'
    BY <1>12 DEF NextDay
<1>13. CASE UNCHANGED vars
    BY <1>13 DEF vars
<1> HIDE DEF ReportsTypeOK, File, Write, Read, Months, Logged, OwnDay, Scan,
          CacheFresh
<1> QED
    BY <1>1, <1>2, <1>3, <1>4, <1>5, <1>6, <1>7, <1>8, <1>9, <1>10, <1>11,
       <1>12, <1>13 DEF Next, WriterStep, ReaderStep

\* A scan goes on while files grow.
LEMMA ScanStep ==
    ASSUME ReportsTypeOK, Logged, OwnFile, OwnDay, Scan, [Next]_vars
    PROVE  Scan'
<1> USE ReportsAssumption DEF ReportsTypeOK, File, Write, Read, Months,
          Logged, OwnDay, Scan
<1>1. ASSUME NEW w \in Writers, Stamp(w) PROVE Scan'
    BY <1>1 DEF Stamp
<1>2. ASSUME NEW w \in Writers, OpenFails(w) PROVE Scan'
    BY <1>2 DEF OpenFails, Begins
<1>3. ASSUME NEW w \in Writers, Append(w) PROVE Scan'
    BY <1>3, TargetOwn DEF Append, Begins
<1>4. ASSUME NEW w \in Writers, NEW part \in BOOLEAN, AppendFails(w, part)
      PROVE Scan'
    BY <1>4, TargetOwn DEF AppendFails, Begins
<1>5. ASSUME NEW w \in Writers, Invalidate(w) PROVE Scan'
    BY <1>5 DEF Invalidate, Without
<1>6. ASSUME NEW r \in Readers, NEW m \in Queries, AskHit(r, m) PROVE Scan'
    <2>1. \A q \in Readers : reads[q].pc # "build"
        BY <1>6 DEF AskHit
    <2>2. \A q \in Readers : reads'[q].pc # "build"
        BY <1>6, <2>1 DEF AskHit
    <2> QED
        BY <2>2
<1>7. ASSUME NEW r \in Readers, NEW m \in Queries, AskMiss(r, m) PROVE Scan'
    <2>1. \A q \in Readers : reads[q].pc # "build"
        BY <1>7 DEF AskMiss
    <2>2. \A q \in Readers \ {r} : reads'[q].pc # "build"
        BY <1>7, <2>1 DEF AskMiss
    <2>3. /\ reads'[r].month = m /\ reads'[r].before = Recorded(m)
          /\ reads'[r].todo = {d \in Matches[m] : files[d].exists}
        BY <1>7 DEF AskMiss
    <2>4. \A d \in Matches[m] \ reads'[r].todo : files[d].lines = {}
        BY <2>3
    <2>5. ASSUME NEW w \in Recorded(m)
          PROVE  \E d \in reads'[r].todo : w \in files[d].lines
        <3>1. w \in Writers /\ w \in files[writes[w].day].lines
            BY <2>5 DEF Recorded
        <3>2. writes[w].day \in Days /\ writes[w].day \in Matches[m]
            BY <2>5, <3>1 DEF Recorded
        <3> QED
            BY <2>3, <3>1, <3>2
    <2>6. UNCHANGED <<files, writes>>
        BY <1>7 DEF AskMiss
    <2> QED
        BY <2>2, <2>3, <2>4, <2>5, <2>6
<1>8. ASSUME NEW r \in Readers, NEW d \in Days, ReadFile(r, d) PROVE Scan'
    BY <1>8 DEF ReadFile
<1>9. ASSUME NEW r \in Readers, ReadFails(r) PROVE Scan'
    BY <1>9 DEF ReadFails
<1>10. ASSUME NEW r \in Readers, Finish(r) PROVE Scan'
    BY <1>10 DEF Finish, With
<1>11. ASSUME Close PROVE Scan'
    BY <1>11 DEF Close
<1>12. ASSUME NextDay PROVE Scan'
    BY <1>12 DEF NextDay
<1>13. CASE UNCHANGED vars
    BY <1>13 DEF vars
<1> HIDE DEF ReportsTypeOK, File, Write, Read, Months, Logged, OwnDay, Scan
<1> QED
    BY <1>1, <1>2, <1>3, <1>4, <1>5, <1>6, <1>7, <1>8, <1>9, <1>10, <1>11,
       <1>12, <1>13 DEF Next, WriterStep, ReaderStep

\* A report is handed out.
LEMMA CompleteStep ==
    ASSUME ReportsTypeOK, Logged, OwnFile, CacheFresh, Scan, ReportComplete,
           [Next]_vars
    PROVE  ReportComplete'
<1> USE ReportsAssumption DEF ReportsTypeOK, File, Write, Read, Months,
          Logged, CacheFresh, Scan, ReportComplete
<1>1. ASSUME NEW w \in Writers, Stamp(w) PROVE ReportComplete'
    BY <1>1 DEF Stamp
<1>2. ASSUME NEW w \in Writers, OpenFails(w) PROVE ReportComplete'
    BY <1>2 DEF OpenFails, Begins
<1>3. ASSUME NEW w \in Writers, Append(w) PROVE ReportComplete'
    BY <1>3, TargetOwn DEF Append, Begins
<1>4. ASSUME NEW w \in Writers, NEW part \in BOOLEAN, AppendFails(w, part)
      PROVE ReportComplete'
    BY <1>4, TargetOwn DEF AppendFails, Begins
<1>5. ASSUME NEW w \in Writers, Invalidate(w) PROVE ReportComplete'
    BY <1>5 DEF Invalidate, Without
<1>6. ASSUME NEW r \in Readers, NEW m \in Queries, AskHit(r, m)
      PROVE ReportComplete'
    <2>1. ASSUME m \in Months, NEW w \in Recorded(m) PROVE w \in cache[m]
        <3>1. /\ w \in Writers /\ writes[w].pc = "done"
              /\ writes[w].day \in Days /\ MonthOf[writes[w].day] = m
              /\ ~writes[w].glued
            BY <2>1 DEF Recorded
        <3>2. w \in files[writes[w].day].lines
            BY <3>1
        <3> QED
            BY <1>6, <3>1, <3>2 DEF AskHit
    <2>2. /\ reads'[r].month = m
          /\ m \in Months => reads'[r].before \subseteq reads'[r].acc
        BY <1>6, <2>1 DEF AskHit
    <2>3. \A q \in Readers \ {r} : reads'[q] = reads[q]
        BY <1>6 DEF AskHit
    <2> QED
        BY <2>2, <2>3
<1>7. ASSUME NEW r \in Readers, NEW m \in Queries, AskMiss(r, m)
      PROVE ReportComplete'
    BY <1>7 DEF AskMiss
<1>8. ASSUME NEW r \in Readers, NEW d \in Days, ReadFile(r, d)
      PROVE ReportComplete'
    BY <1>8 DEF ReadFile
<1>9. ASSUME NEW r \in Readers, ReadFails(r) PROVE ReportComplete'
    BY <1>9 DEF ReadFails
<1>10. ASSUME NEW r \in Readers, Finish(r) PROVE ReportComplete'
    BY <1>10 DEF Finish, With
<1>11. ASSUME Close PROVE ReportComplete'
    BY <1>11 DEF Close
<1>12. ASSUME NextDay PROVE ReportComplete'
    BY <1>12 DEF NextDay
<1>13. CASE UNCHANGED vars
    BY <1>13 DEF vars
<1> HIDE DEF ReportsTypeOK, File, Write, Read, Months, Logged, CacheFresh,
          Scan, ReportComplete
<1> QED
    BY <1>1, <1>2, <1>3, <1>4, <1>5, <1>6, <1>7, <1>8, <1>9, <1>10, <1>11,
       <1>12, <1>13 DEF Next, WriterStep, ReaderStep

-----------------------------------------------------------------------------
(* The theorems.                                                            *)

\* Nothing is logged and nothing is cached at the start.
LEMMA InvInit == Init => ReportsInv
<1> SUFFICES ASSUME Init PROVE ReportsInv
    OBVIOUS
<1>1. ReportsTypeOK
    BY ReportsAssumption
    DEF Init, ReportsTypeOK, File, Write, Read, Months
<1>2. Logged /\ OwnFile /\ OwnDay /\ CacheFresh /\ Scan /\ ReportComplete
    BY DEF Init, Logged, OwnFile, OwnDay, CacheFresh, Scan, ReportComplete
<1> QED
    BY <1>1, <1>2 DEF ReportsInv

\* Every step keeps the invariant.
LEMMA InvStep == ReportsInv /\ [Next]_vars => ReportsInv'
<1> SUFFICES ASSUME ReportsInv, [Next]_vars PROVE ReportsInv'
    OBVIOUS
<1>1. /\ ReportsTypeOK /\ Typed /\ Mutexes
      /\ Logged /\ OwnFile /\ OwnDay /\ CacheFresh /\ Scan /\ ReportComplete
    BY TypeParts DEF ReportsInv
<1>2. ReportsTypeOK'
    <2>1. Typed' /\ Mutexes'
        BY <1>1, TypedStep, MutexStep
    <2> QED
        BY <2>1 DEF Typed, Mutexes, ReportsTypeOK
<1>3. Logged'
    BY <1>1, LoggedStep
<1>4. OwnDay'
    BY <1>1, OwnDayStep
<1>5. CacheFresh'
    BY <1>1, CacheStep
<1>6. Scan'
    BY <1>1, ScanStep
<1>7. ReportComplete'
    BY <1>1, CompleteStep
<1>8. OwnFile'
    BY <1>1, OwnFileStep
<1> QED
    BY <1>2, <1>3, <1>4, <1>5, <1>6, <1>7, <1>8 DEF ReportsInv

LEMMA InvAlways == Spec => []ReportsInv
    BY InvInit, InvStep, PTL DEF Spec

\* Types hold, and a mutex is held by whoever is between its Lock and Unlock.
THEOREM ReportsTypeCorrect == Spec => []ReportsTypeOK
<1>1. ReportsInv => ReportsTypeOK
    BY DEF ReportsInv
<1> QED
    BY <1>1, InvAlways, PTL

\* openLocked reuses the open file or opens another one so that a line is in
\* the file of the day of its entry, in whatever order the requests around
\* midnight come to Logger.Write, after failures to open and after Close.
THEOREM ReportsOwnDay == Spec => []OwnDay
<1>1. ReportsInv => OwnDay
    BY DEF ReportsInv
<1> QED
    BY <1>1, InvAlways, PTL

\* What Service.cache has of a month misses nothing but lines whose writers are about to call
\* Service.Invalidate.
THEOREM ReportsCacheFresh == Spec => []CacheFresh
<1>1. ReportsInv => CacheFresh
    BY DEF ReportsInv
<1> QED
    BY <1>1, InvAlways, PTL

\* Service.Monthly of a month counts every line that was logged when it was called.
THEOREM ReportsComplete == Spec => []ReportComplete
<1>1. ReportsInv => ReportComplete
    BY DEF ReportsInv
<1> QED
    BY <1>1, InvAlways, PTL
=============================================================================
