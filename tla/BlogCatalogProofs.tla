-------------------------- MODULE BlogCatalogProofs --------------------------
(***************************************************************************)
(* BlogLifecycle implements BlogCatalog until its first anomaly, for any   *)
(* finite sets of blogs, requests and cron runs, any tags and any bounds.  *)
(*                                                                         *)
(* A clean write found the row as its task had read it, so the check the   *)
(* task made then is the guard of an operation of the catalog now.  That   *)
(* the counters move along follows from CountsExact: settled counters are  *)
(* numbers of carriers before and after the step, and those differ by the  *)
(* one row written.                                                        *)
(***************************************************************************)
EXTENDS BlogLifecycleProofs

\* What a cron run has read as due stays due: time does not go back.
BatchDue == \A w \in Workers : \A d \in batch[w] : IsDue(d.seen, now)

\* Initially no run has read anything.
LEMMA BatchInit == Init => BatchDue
BY DEF Init, BatchDue

\* Only CronRead adds to a batch, what is due when it reads.
LEMMA BatchStep == TypeOK /\ BatchDue /\ [Next]_vars => BatchDue'
<1> SUFFICES ASSUME TypeOK, BatchDue, [Next]_vars PROVE BatchDue'
    OBVIOUS
<1>1. ASSUME \A w \in Workers : batch'[w] \subseteq batch[w], now' = now
      PROVE  BatchDue'
    BY <1>1 DEF BatchDue
<1>2. ASSUME NEW w \in Workers, CronRead(w) PROVE BatchDue'
    <2>1. /\ now' = now
          /\ batch' = [batch EXCEPT ![w] = {[blog |-> b, seen |-> row[b]] :
                                              b \in {a \in Blogs : IsDue(row[a], now)}}]
        BY <1>2 DEF CronRead, envVars
    <2>2. \A d \in batch'[w] : IsDue(d.seen, now)
        BY <2>1 DEF TypeOK
    <2> QED
        BY <2>1, <2>2 DEF BatchDue, TypeOK
<1>3. ASSUME NEW w \in Workers, Cron(w), ~CronRead(w) PROVE BatchDue'
    <2>1. now' = now
        BY <1>3 DEF Cron, CronPublish, CronPublishFails, CronCount, CronCountFails,
                    CronMarkFailed, CronMarkFailedFails, WriteRow, envVars
    <2>2. \A v \in Workers : batch'[v] \subseteq batch[v]
        BY <1>3 DEF Cron, CronPublish, CronPublishFails, CronCount, CronCountFails,
                    CronMarkFailed, CronMarkFailedFails, Take, TypeOK
    <2> QED
        BY <1>1, <2>1, <2>2
<1>4. ASSUME NEW c \in Clients, Request(c) PROVE BatchDue'
    <2>1. now' = now
        BY <1>4 DEF Request, PublishWrite, ScheduleWrite, ArchiveWrite, UnarchiveWrite,
                    DeleteWrite, UpdateWrite, WriteFails, CountUp, CountDown, CountFails,
                    WriteRow, envVars
    <2> QED
        BY <1>1, <1>4, <2>1, RequestStep
<1>5. CASE Crash
    BY <1>1, <1>5 DEF Crash
<1>6. CASE Tick
    BY <1>6 DEF Tick, BatchDue, TypeOK, IsDue, Dates, Row, Due
<1> QED
    BY <1>1, <1>2, <1>3, <1>4, <1>5, <1>6
       DEF Next, Create, StartUpdate, StartSchedule, StartOther, Start, Emit, envVars, vars

\* What the handlers know whenever they write.
CatalogInv == /\ TypeOK /\ TaskShape /\ CronTags /\ ScheduledAhead
              /\ TagCountExact /\ BatchDue

\* No blog, no request: nothing has to be known yet.
LEMMA CatalogInvInit == Init => CatalogInv
BY TypeInit, ShapeInit, DatesInit, CountInit, BatchInit DEF CatalogInv, DatesInv

\* Every step preserves it.
LEMMA CatalogInvStep == CatalogInv /\ [Next]_vars => CatalogInv'
BY TypeStep, ShapeStep, AheadStep, CountStep, BatchStep DEF CatalogInv

-----------------------------------------------------------------------------
(* Counters *)

\* While nothing has gone wrong, the settled counters move with the one row written.
LEMMA SettledMoves ==
    ASSUME CatalogInv, [Next]_vars, anomalies' = {}, NEW b \in Blogs, NEW r,
           row' = [row EXCEPT ![b] = r], NEW t \in Tags
    PROVE  /\ Settled(t) \in Nat /\ Settled(t)' \in Nat
           /\ Settled(t)' = Settled(t) - Num(Shows(row[b], t)) + Num(Shows(r, t))
<1>1. TypeOK /\ anomalies = {} /\ TagCountExact /\ TagCountExact'
    BY AnomaliesStay, CatalogInvStep DEF CatalogInv
<1>2. Settled(t) = Cardinality(Carriers(row, t)) /\ Settled(t)' = Cardinality(Carriers(row', t))
    BY <1>1 DEF TagCountExact, Carriers
<1> QED
    BY <1>1, <1>2, RowMoves

\* A step that writes no row leaves the settled counters alone.
LEMMA SettledStays ==
    ASSUME CatalogInv, [Next]_vars, anomalies' = {}, UNCHANGED row, NEW t \in Tags
    PROVE  Settled(t)' = Settled(t)
<1>1. anomalies = {} /\ TagCountExact /\ TagCountExact'
    BY AnomaliesStay, CatalogInvStep DEF CatalogInv
<1> QED
    BY <1>1 DEF TagCountExact, Carriers

\* Of T each tag, of others none, is shown by n more when a row goes from q to r.
Shifts(q, r, T, n) ==
    \A t \in Tags : Num(Shows(r, t)) - Num(Shows(q, t)) = IF t \in T THEN n ELSE 0

\* Writing one row is becoming it in the catalog, if the tags T are those it
\* comes to show (n = 1), to hide (n = -1), or none (n = 0).
LEMMA Becomes ==
    ASSUME CatalogInv, [Next]_vars, anomalies' = {}, now' = now, NEW b \in Blogs, NEW r,
           row' = [row EXCEPT ![b] = r], NEW T, NEW n \in {-1, 0, 1}, Shifts(row[b], r, T, n)
    PROVE  Catalog!Become(b, r, T, n)
<1>1. \A t \in Tags : Settled(t)' = IF t \in T THEN Settled(t) + n ELSE Settled(t)
    <2> SUFFICES ASSUME NEW t \in Tags
                 PROVE  Settled(t)' = IF t \in T THEN Settled(t) + n ELSE Settled(t)
        OBVIOUS
    <2>1. Settled(t) \in Nat /\ Settled(t)' = Settled(t) - Num(Shows(row[b], t)) + Num(Shows(r, t))
        BY SettledMoves
    <2>2. Num(Shows(r, t)) \in Int /\ Num(Shows(row[b], t)) \in Int
        BY DEF Num
    <2> QED
        BY <2>1, <2>2 DEF Shifts
<1>2. [t \in Tags |-> Settled(t)'] =
        [t \in Tags |-> IF t \in T THEN [s \in Tags |-> Settled(s)][t] + n
                                   ELSE [s \in Tags |-> Settled(s)][t]]
    BY <1>1
<1> QED
    BY <1>2 DEF Catalog!Become

\* A row that readers see neither before nor after is kept from the counters.
LEMMA Keeps ==
    ASSUME CatalogInv, [Next]_vars, anomalies' = {}, now' = now, NEW b \in Blogs, NEW r,
           row' = [row EXCEPT ![b] = r],
           row[b].status # "published", r.status # "published"
    PROVE  Catalog!Keep(b, r)
<1>1. Shifts(row[b], r, {}, 0)
    BY DEF Shifts, Num, Shows
<1>2. Catalog!Become(b, r, {}, 0)
    BY <1>1, Becomes
<1> QED
    BY <1>2 DEF Catalog!Keep

CatalogStep == Catalog!CatalogNext \/ UNCHANGED Catalog!catalogVars

\* A step that neither writes a row nor moves the clock is invisible.
LEMMA Invisible ==
    ASSUME CatalogInv, [Next]_vars, anomalies' = {}, UNCHANGED <<row, now>>
    PROVE  CatalogStep
<1>1. [t \in Tags |-> Settled(t)'] = [t \in Tags |-> Settled(t)]
    BY SettledStays
<1> QED
    BY <1>1 DEF CatalogStep, Catalog!catalogVars
-----------------------------------------------------------------------------
(* Steps *)

\* What a handler knows when its write goes through clean: the row is as read.
LEMMA HandlerWrites ==
    ASSUME CatalogInv, NEW c \in Clients, NEW op \in Operations, At(c, op, "write"),
           NEW new, NEW next,
           WriteRow(c, task[c].blog, task[c].seen, new, next), anomalies' = {}
    PROVE  /\ task[c].blog \in Blogs /\ row[task[c].blog] \in Row
           /\ row[task[c].blog] = task[c].seen
           /\ row[task[c].blog].status \in Admits[op]
           /\ row' = [row EXCEPT ![task[c].blog] = new] /\ now' = now
<1>1. c \in Tasks /\ task[c].op = op /\ task[c].step = "write" /\ TypeOK
    BY DEF Tasks, At, CatalogInv
<1>2. task[c].blog \in Blogs /\ row[task[c].blog] \in Row
    BY <1>1, Busy
<1>3. task[c].seen.status \in Admits[op]
    BY <1>1 DEF CatalogInv, TaskShape
<1>4. row[task[c].blog] = task[c].seen /\ row' = [row EXCEPT ![task[c].blog] = new]
    BY <1>1, <1>2, CleanWrite
<1>5. now' = now
    BY DEF WriteRow, envVars
<1> QED
    BY <1>2, <1>3, <1>4, <1>5

\* publish
LEMMA PublishStep ==
    ASSUME CatalogInv, [Next]_vars, anomalies' = {}, NEW c \in Clients, PublishWrite(c)
    PROVE  CatalogStep
<1> DEFINE b == task[c].blog
           r == Published(row[b], now)
<1>1. /\ b \in Blogs /\ row[b] \in Row /\ row[b].status \in BlogStatus \ {"published"}
      /\ row' = [row EXCEPT ![b] = r] /\ now' = now
    BY HandlerWrites, OperationNames DEF PublishWrite, Admits
<1>2. now \in Dates
    BY DEF CatalogInv, TypeOK, Dates
<1>3. r.status = "published" /\ r.tags = row[b].tags
    BY <1>1, <1>2, RowWrites
<1>4. Catalog!Become(b, r, row[b].tags, 1)
    <2>1. Shifts(row[b], r, row[b].tags, 1)
        BY <1>1, <1>3 DEF Shifts, Num, Shows
    <2> QED
        BY <1>1, <2>1, Becomes
<1>5. Catalog!Publish(b)
    BY <1>1, <1>4 DEF Catalog!Publish, Catalog!Exists, Catalog!BlogStatus, BlogStatus,
                      Catalog!Published, Published
<1> QED
    BY <1>1, <1>5 DEF CatalogStep, Catalog!CatalogNext

\* schedule
LEMMA ScheduleStep ==
    ASSUME CatalogInv, [Next]_vars, anomalies' = {}, NEW c \in Clients, ScheduleWrite(c)
    PROVE  CatalogStep
<1> DEFINE b == task[c].blog
           r == Scheduled(row[b], task[c].at)
<1>1. /\ b \in Blogs /\ row[b] \in Row /\ row[b].status \in BlogStatus \ {"published"}
      /\ row' = [row EXCEPT ![b] = r] /\ now' = now
    BY HandlerWrites, OperationNames DEF ScheduleWrite, Admits
<1>2. task[c].at \in Nat
    <2>1. task[c].at \in Dates \ {NoDate}
        BY Busy DEF ScheduleWrite, At, CatalogInv, ScheduledAhead, Tasks
    <2> QED
        BY <2>1 DEF Dates
<1>3. r.status = "scheduled" /\ r.scheduledAt = task[c].at
    <2>1. task[c].at \in Dates
        BY <1>2 DEF Dates
    <2> QED
        BY <1>1, <2>1, RowWrites
<1>4. Catalog!Keep(b, r) /\ row'[b] = r
    BY <1>1, <1>3, Keeps DEF CatalogInv, TypeOK
<1>5. Catalog!Schedule(b)
    BY <1>1, <1>2, <1>3, <1>4 DEF Catalog!Schedule, Catalog!Exists, Catalog!BlogStatus, BlogStatus,
                      Catalog!Scheduled, Scheduled
<1> QED
    BY <1>1, <1>5 DEF CatalogStep, Catalog!CatalogNext

\* archive
LEMMA ArchiveStep ==
    ASSUME CatalogInv, [Next]_vars, anomalies' = {}, NEW c \in Clients, ArchiveWrite(c)
    PROVE  CatalogStep
<1> DEFINE b == task[c].blog
           r == Archived(row[b])
           n == IF row[b].status = "published" THEN -1 ELSE 0
<1>1. /\ b \in Blogs /\ row[b] \in Row
      /\ row[b].status \in {"published", "scheduled", "publish_failed"}
      /\ row' = [row EXCEPT ![b] = r] /\ now' = now
    BY HandlerWrites, OperationNames DEF ArchiveWrite, Admits, BlogStatus
<1>2. r.status = "archived" /\ r.tags = row[b].tags
    BY <1>1, RowWrites DEF Dates
<1>3. Catalog!Become(b, r, row[b].tags, n)
    <2>1. Shifts(row[b], r, row[b].tags, n)
        BY <1>1, <1>2 DEF Shifts, Num, Shows
    <2> QED
        BY <1>1, <2>1, Becomes
<1>4. Catalog!Archive(b)
    BY <1>1, <1>3 DEF Catalog!Archive, Catalog!Archived, Archived
<1> QED
    BY <1>1, <1>4 DEF CatalogStep, Catalog!CatalogNext

\* unarchive
LEMMA UnarchiveStep ==
    ASSUME CatalogInv, [Next]_vars, anomalies' = {}, NEW c \in Clients, UnarchiveWrite(c)
    PROVE  CatalogStep
<1> DEFINE b  == task[c].blog
           at == IF row[b].publishedAt = NoDate THEN now ELSE row[b].publishedAt
           r  == Restored(row[b], at)
<1>1. /\ b \in Blogs /\ row[b] \in Row /\ row[b].status = "archived"
      /\ row' = [row EXCEPT ![b] = r] /\ now' = now
    BY HandlerWrites, OperationNames DEF UnarchiveWrite, Admits
<1>2. at \in Dates
    BY <1>1 DEF CatalogInv, TypeOK, Dates, Row
<1>3. r.status = "published" /\ r.tags = row[b].tags
    BY <1>1, <1>2, RowWrites
<1>4. Catalog!Become(b, r, row[b].tags, 1)
    <2>1. Shifts(row[b], r, row[b].tags, 1)
        BY <1>1, <1>3 DEF Shifts, Num, Shows
    <2> QED
        BY <1>1, <2>1, Becomes
<1>5. Catalog!Unarchive(b)
    BY <1>1, <1>4 DEF Catalog!Unarchive, Catalog!Restored, Restored
<1> QED
    BY <1>1, <1>5 DEF CatalogStep, Catalog!CatalogNext

\* delete
LEMMA DeleteStep ==
    ASSUME CatalogInv, [Next]_vars, anomalies' = {}, NEW c \in Clients, DeleteWrite(c)
    PROVE  CatalogStep
<1> DEFINE b == task[c].blog
<1>1. /\ b \in Blogs /\ row[b].status = "draft"
      /\ row' = [row EXCEPT ![b] = NoRow("deleted")] /\ now' = now
    BY HandlerWrites, OperationNames DEF DeleteWrite, Admits
<1>2. Catalog!Keep(b, NoRow("deleted"))
    BY <1>1, Keeps, NoRowFields
<1>3. Catalog!Delete(b)
    BY <1>1, <1>2 DEF Catalog!Delete, Catalog!NoRow, NoRow
<1> QED
    BY <1>1, <1>3 DEF CatalogStep, Catalog!CatalogNext

\* update: of a published blog, only with the tags it has.
LEMMA UpdateStep ==
    ASSUME CatalogInv, [Next]_vars, anomalies' = {}, NEW c \in Clients, UpdateWrite(c)
    PROVE  CatalogStep
<1> DEFINE b == task[c].blog
           T == task[c].tags
           r == Retagged(row[b], T)
<1>1. /\ b \in Blogs /\ row[b] \in Row /\ T \in SUBSET Tags
    BY Busy DEF UpdateWrite, At, CatalogInv, Tasks
<1>2. /\ Exists(row[b]) /\ row' = [row EXCEPT ![b] = r] /\ now' = now
      /\ row[b].status = "published" => row[b].tags = T
    BY DEF UpdateWrite, Blame, envVars
<1>3. CASE row[b].status = "published"
    <2>1. r = row[b]
        BY <1>1, <1>2, <1>3 DEF Retagged, Row
    <2>2. row' = row
        BY <1>2, <2>1 DEF CatalogInv, TypeOK
    <2> QED
        BY <1>2, <2>2, Invisible
<1>4. CASE row[b].status # "published"
    <2>1. r.status = row[b].status /\ r.tags = T /\ row'[b] = r
        BY <1>1, <1>2, TagWrites DEF CatalogInv, TypeOK
    <2>2. Catalog!Keep(b, r)
        BY <1>1, <1>2, <1>4, <2>1, Keeps
    <2>3. Catalog!Retag(b)
        BY <1>1, <1>2, <1>4, <2>1, <2>2
           DEF Catalog!Retag, Exists, Catalog!Exists, Catalog!BlogStatus, BlogStatus,
               Catalog!Retagged, Retagged
    <2> QED
        BY <1>1, <2>3 DEF CatalogStep, Catalog!CatalogNext
<1> QED
    BY <1>3, <1>4

\* The scheduler publishes: what was due when the run read it is due still.
LEMMA AutoPublishStep ==
    ASSUME CatalogInv, [Next]_vars, anomalies' = {}, NEW w \in Workers, NEW d \in batch[w],
           CronPublish(w, d)
    PROVE  CatalogStep
<1> DEFINE b == d.blog
           r == Published(row[b], now)
<1>1. TypeOK /\ w \in Tasks /\ d \in Due
    BY DEF CatalogInv, TypeOK, Tasks
<1>2. b \in Blogs /\ row[b] \in Row /\ now \in Dates
    BY <1>1 DEF Due, TypeOK, Dates
<1>3. row[b] = d.seen /\ row' = [row EXCEPT ![b] = r] /\ now' = now
    <2>1. WriteRow(w, b, d.seen, r, CronTask(d, "count", r))
        BY DEF CronPublish
    <2>2. now' = now
        BY <2>1 DEF WriteRow, envVars
    <2> QED
        BY <1>1, <1>2, <2>1, <2>2, CleanWrite
<1>4. IsDue(row[b], now)
    BY <1>3 DEF CatalogInv, BatchDue
<1>5. r.status = "published" /\ r.tags = row[b].tags /\ row[b].status = "scheduled"
    BY <1>2, <1>4, RowWrites DEF IsDue
<1>6. Catalog!Become(b, r, row[b].tags, 1)
    <2>1. Shifts(row[b], r, row[b].tags, 1)
        BY <1>5 DEF Shifts, Num, Shows
    <2> QED
        BY <1>2, <1>3, <2>1, Becomes
<1>7. Catalog!AutoPublish(b)
    BY <1>4, <1>6 DEF Catalog!AutoPublish, IsDue, Catalog!IsDue, Catalog!Published, Published
<1> QED
    BY <1>2, <1>7 DEF CatalogStep, Catalog!CatalogNext

\* The catch block gives up.
LEMMA GiveUpStep ==
    ASSUME CatalogInv, [Next]_vars, anomalies' = {}, NEW w \in Workers, CronMarkFailed(w)
    PROVE  CatalogStep
<1> DEFINE b == task[w].blog
           r == PublishFailed(row[b])
           n == IF row[b].status = "published" THEN -1 ELSE 0
<1>1. TypeOK /\ w \in Tasks /\ task[w].step = "catch"
    BY DEF CatalogInv, Tasks, CronMarkFailed, At
<1>2. b \in Blogs /\ row[b] \in Row
    BY <1>1, Busy
<1>3. row[b] = task[w].seen /\ row' = [row EXCEPT ![b] = r] /\ now' = now
    <2>1. WriteRow(w, b, task[w].seen, r, Idle)
        BY DEF CronMarkFailed
    <2>2. now' = now
        BY <2>1 DEF WriteRow, envVars
    <2> QED
        BY <1>1, <1>2, <2>1, <2>2, CleanWrite
<1>4. row[b].status \in {"scheduled", "published"}
    BY <1>1, <1>3 DEF CatalogInv, TaskShape
<1>5. r.status = "publish_failed" /\ r.tags = row[b].tags
    BY <1>2, RowWrites DEF Dates
<1>6. Catalog!Become(b, r, row[b].tags, n)
    <2>1. Shifts(row[b], r, row[b].tags, n)
        BY <1>4, <1>5 DEF Shifts, Num, Shows
    <2> QED
        BY <1>2, <1>3, <2>1, Becomes
<1>7. Catalog!GiveUp(b)
    BY <1>4, <1>6 DEF Catalog!GiveUp, Catalog!PublishFailed, PublishFailed
<1> QED
    BY <1>2, <1>7 DEF CatalogStep, Catalog!CatalogNext

\* Requests
LEMMA RequestSteps ==
    ASSUME CatalogInv, [Next]_vars, anomalies' = {}, NEW c \in Clients, Request(c)
    PROVE  CatalogStep
<1>1. CASE WriteFails(c) \/ CountUp(c) \/ CountDown(c) \/ CountFails(c)
    BY <1>1, Invisible DEF WriteFails, CountUp, CountDown, CountFails, dbVars, envVars
<1> QED
    BY <1>1, PublishStep, ScheduleStep, ArchiveStep, UnarchiveStep, DeleteStep, UpdateStep
       DEF Request

\* Cron runs
LEMMA CronSteps ==
    ASSUME CatalogInv, [Next]_vars, anomalies' = {}, NEW w \in Workers, Cron(w)
    PROVE  CatalogStep
<1>1. CASE CronRead(w) \/ CronCount(w) \/ CronCountFails(w) \/ CronMarkFailedFails(w)
    BY <1>1, Invisible DEF CronRead, CronCount, CronCountFails, CronMarkFailedFails, dbVars, envVars
<1>2. ASSUME NEW d \in batch[w], CronPublishFails(w, d) PROVE CatalogStep
    BY <1>2, Invisible DEF CronPublishFails, dbVars
<1> QED
    BY <1>1, <1>2, AutoPublishStep, GiveUpStep DEF Cron

\* Drafts, new requests, events, crashes and time
LEMMA OtherSteps ==
    ASSUME CatalogInv, [Next]_vars, anomalies' = {},
           \/ \E b \in Blogs, T \in SUBSET Tags : Create(b, T)
           \/ \E c \in Clients : StartUpdate(c) \/ StartSchedule(c) \/ StartOther(c)
           \/ \E b \in Blogs : Emit(b)
           \/ Crash \/ Tick \/ UNCHANGED vars
    PROVE  CatalogStep
<1>1. ASSUME NEW b \in Blogs, NEW T \in SUBSET Tags, Create(b, T) PROVE CatalogStep
    <2>1. /\ row[b].status = "absent" /\ row' = [row EXCEPT ![b] = Draft(T)] /\ now' = now
          /\ row'[b] = Draft(T)
        BY <1>1 DEF Create, envVars, CatalogInv, TypeOK
    <2>2. Draft(T).status = "draft" /\ Draft(T).tags = T
        BY TagWrites, RowAssumption DEF Draft, NoRow
    <2>3. Catalog!Keep(b, Draft(T))
        BY <2>1, <2>2, Keeps
    <2>4. Catalog!Create(b)
        BY <2>1, <2>2, <2>3 DEF Catalog!Create, Catalog!Draft, Draft, Catalog!NoRow, NoRow
    <2> QED
        BY <2>4 DEF CatalogStep, Catalog!CatalogNext
<1>2. CASE Tick
    <2>1. now' = now + 1 /\ row' = row
        BY <1>2 DEF Tick, dbVars
    <2>2. [t \in Tags |-> Settled(t)'] = [t \in Tags |-> Settled(t)]
        BY <2>1, SettledStays
    <2>3. Catalog!Wait
        BY <2>1, <2>2 DEF Catalog!Wait
    <2> QED
        BY <2>3 DEF CatalogStep, Catalog!CatalogNext
<1>3. CASE \/ \E c \in Clients : StartUpdate(c) \/ StartSchedule(c) \/ StartOther(c)
           \/ \E b \in Blogs : Emit(b)
           \/ Crash \/ UNCHANGED vars
    BY <1>3, Invisible
       DEF StartUpdate, StartSchedule, StartOther, Start, Emit, Crash, vars, dbVars, envVars
<1> QED
    BY <1>1, <1>2, <1>3

\* The catalog starts without blogs and counts nothing.
LEMMA CatalogStart == Init => Catalog!CatalogInit
<1> SUFFICES ASSUME Init PROVE Catalog!CatalogInit
    OBVIOUS
<1>1. \A t \in Tags : Settled(t) = 0
    <2> SUFFICES ASSUME NEW t \in Tags PROVE Settled(t) = 0
        OBVIOUS
    <2>1. Increments(t) = {} /\ Decrements(t) = {}
        BY NothingOwed, IdleStep DEF Init, Increments, Decrements
    <2>2. blogCount[t] = 0
        BY DEF Init
    <2> QED
        BY <2>1, <2>2, FS_EmptySet DEF Settled
<1> QED
    BY <1>1 DEF Init, Catalog!CatalogInit, Catalog!NoRow, NoRow

\* publish, schedule, archive, unarchive, remove, update, the scheduler and
\* its catch block take several statements each, interleaved at will, fail and
\* crash: until the first anomaly nobody can tell them, and the counters of
\* the tags, from single steps of BlogCatalog.
THEOREM CatalogImplemented == Spec => AtomicUntilAnomaly
<1>1. CatalogInv /\ [Next]_vars
        => [anomalies' # {} \/ Catalog!CatalogNext]_(Catalog!catalogVars)
    <2> SUFFICES ASSUME CatalogInv, [Next]_vars, anomalies' = {} PROVE CatalogStep
        BY DEF CatalogStep
    <2> QED
        BY RequestSteps, CronSteps, OtherSteps DEF Next
<1> QED
    BY <1>1, CatalogInvInit, CatalogInvStep, CatalogStart, PTL DEF Spec, AtomicUntilAnomaly
=============================================================================
