------------------------- MODULE BlogLifecycleProofs -------------------------
(***************************************************************************)
(* Theorems about BlogLifecycle, for any finite sets of blogs, requests    *)
(* and cron runs, any tags and any bounds.                                 *)
(***************************************************************************)
EXTENDS BlogLifecycle, FiniteSetTheorems, TLAPS

-----------------------------------------------------------------------------
(* Rows and tasks *)

\* The six handlers.
LEMMA OperationNames ==
    Operations = {"update", "delete", "publish", "schedule", "archive", "unarchive"}
BY DEF Operations, Admits

\* What each write of a row leaves in the columns.
LEMMA RowWrites ==
    ASSUME NEW r \in Row, NEW at \in Dates
    PROVE  /\ Published(r, at) \in Row /\ Scheduled(r, at) \in Row
           /\ Archived(r) \in Row /\ Restored(r, at) \in Row /\ PublishFailed(r) \in Row
           /\ Published(r, at).status = "published" /\ Published(r, at).tags = r.tags
           /\ Published(r, at).publishedAt = at
           /\ Scheduled(r, at).status = "scheduled" /\ Scheduled(r, at).tags = r.tags
           /\ Scheduled(r, at).publishedAt = r.publishedAt
           /\ Scheduled(r, at).scheduledAt = at
           /\ Archived(r).status = "archived" /\ Archived(r).tags = r.tags
           /\ Archived(r).publishedAt = r.publishedAt
           /\ Restored(r, at).status = "published" /\ Restored(r, at).tags = r.tags
           /\ Restored(r, at).publishedAt = at
           /\ PublishFailed(r).status = "publish_failed"
           /\ PublishFailed(r).tags = r.tags
           /\ PublishFailed(r).publishedAt = r.publishedAt
BY DEF Row, BlogStatus, Dates, Published, Scheduled, Archived, Restored, PublishFailed

\* What an update writes, and the row a new blog starts with.
LEMMA TagWrites ==
    ASSUME NEW r \in Row, NEW T \in SUBSET Tags
    PROVE  /\ Retagged(r, T) \in Row /\ Draft(T) \in Row
           /\ Retagged(r, T).status = r.status /\ Retagged(r, T).tags = T
           /\ Retagged(r, T).publishedAt = r.publishedAt
           /\ Retagged(r, T).scheduledAt = r.scheduledAt
           /\ Draft(T).status = "draft"
BY DEF Row, BlogStatus, Dates, Retagged, NoRow, Draft

\* What stands for a blog that is not in the table is a row, of that status.
LEMMA NoRowFields ==
    ASSUME NEW why \in {"absent", "deleted"}
    PROVE  NoRow(why) \in Row /\ NoRow(why).status = why
BY DEF NoRow, Row, Dates

\* The record of a task, field by field.
LEMMA TaskFields ==
    ASSUME NEW x \in Task \cup {Idle}
    PROVE  /\ x.step # "idle" => x \in Task
           /\ x \in Task => /\ x.op \in Operations \cup {"cron"}
                           /\ x.step \in {"write", "count", "catch"}
                           /\ x.blog \in Blogs /\ x.seen \in Row
                           /\ x.tags \in SUBSET Tags /\ x.at \in Dates
                           /\ x # Idle
           /\ Idle.step = "idle"
BY DEF Task, Idle

-----------------------------------------------------------------------------
(* Type correctness *)

\* A write of a row keeps the types if what it writes has them.
LEMMA WriteRowTypes ==
    ASSUME TypeOK, NEW k \in Tasks, NEW b \in Blogs, NEW seen,
           NEW new \in Row, NEW next \in Task \cup {Idle},
           WriteRow(k, b, seen, new, next),
           batch' \in [Workers -> SUBSET Due]
    PROVE  TypeOK'
BY DEF TypeOK, WriteRow, Blame, Anomaly, envVars

\* A task that goes on to its count is a task.
LEMMA CountingTypes ==
    ASSUME NEW c, task[c] \in Task, NEW r \in Row, NEW T \in SUBSET Tags
    PROVE  Counting(c, r, T) \in Task
BY DEF Counting, Task

\* So is what the cron job makes of a due blog.
LEMMA CronTaskTypes ==
    ASSUME NEW d \in Due, NEW r \in Row, NEW s \in {"write", "count", "catch"}
    PROVE  CronTask(d, s, r) \in Task
BY DEF CronTask, Task, Due, Row, Dates

\* Moving the counters, by any number, leaves integers.
LEMMA MoveCountsTypes ==
    ASSUME blogCount \in [Tags -> Int], NEW T, NEW n \in Int, MoveCounts(T, n)
    PROVE  blogCount' \in [Tags -> Int]
BY DEF MoveCounts

\* What a busy task holds.
LEMMA Busy ==
    ASSUME TypeOK, NEW k \in Tasks, task[k].step # "idle"
    PROVE  /\ task[k] \in Task
           /\ task[k].blog \in Blogs /\ row[task[k].blog] \in Row
           /\ row[task[k].blog].tags \in SUBSET Tags
           /\ task[k].seen \in Row /\ task[k].at \in Dates
           /\ task[k].tags \in SUBSET Tags
<1>1. task[k] \in Task \cup {Idle}
    BY DEF TypeOK
<1>2. task[k] \in Task /\ task[k].blog \in Blogs
    BY <1>1, TaskFields
<1> QED
    BY <1>1, <1>2, TaskFields DEF TypeOK, Row

\* The database is empty and nothing runs.
LEMMA TypeInit == Init => TypeOK
BY RowAssumption DEF Init, TypeOK, NoRow, Row, Dates

\* Every step keeps the types.
LEMMA TypeStep == TypeOK /\ [Next]_vars => TypeOK'
<1> SUFFICES ASSUME TypeOK, [Next]_vars PROVE TypeOK'
    OBVIOUS
<1> USE LifecycleAssumption, RowAssumption
<1>1. /\ now \in Dates /\ NoDate \in Dates
      /\ Clients \subseteq Tasks /\ Workers \subseteq Tasks
      /\ batch \in [Workers -> SUBSET Due]
      /\ Idle \in Task \cup {Idle}
    BY DEF TypeOK, Dates, Tasks
<1>2. ASSUME NEW b \in Blogs, NEW T \in SUBSET Tags, Create(b, T) PROVE TypeOK'
    BY <1>2, TagWrites DEF TypeOK, Create, envVars
<1>3. ASSUME NEW c \in Clients, StartUpdate(c) \/ StartSchedule(c) \/ StartOther(c)
      PROVE TypeOK'
    <2>1. ASSUME NEW op \in Operations, NEW b \in Blogs, NEW T \in SUBSET Tags,
                 NEW at \in Dates, Start(c, op, b, T, at)
          PROVE TypeOK'
        BY <2>1 DEF TypeOK, Start, Tasks, Task, dbVars
    <2>2. \A at \in (now + 1)..(MaxTime + 1) : at \in Dates
        BY DEF Dates, TypeOK
    <2> QED
        BY <1>1, <1>3, <2>1, <2>2, OperationNames
           DEF StartUpdate, StartSchedule, StartOther
<1>4. ASSUME NEW c \in Clients, PublishWrite(c) PROVE TypeOK'
    <2> DEFINE b == task[c].blog  r == Published(row[b], now)
    <2>1. task[c] \in Task /\ b \in Blogs /\ row[b] \in Row
        BY <1>1, <1>4, Busy DEF PublishWrite, At
    <2>2. r \in Row /\ r.tags \in SUBSET Tags
        BY <1>1, <2>1, RowWrites DEF Row
    <2> QED
        BY <1>1, <1>4, <2>1, <2>2, CountingTypes, WriteRowTypes DEF PublishWrite
<1>5. ASSUME NEW c \in Clients, ScheduleWrite(c) PROVE TypeOK'
    <2> DEFINE b == task[c].blog  r == Scheduled(row[b], task[c].at)
    <2>1. task[c] \in Task /\ b \in Blogs /\ row[b] \in Row /\ task[c].at \in Dates
        BY <1>1, <1>5, Busy DEF ScheduleWrite, At
    <2>2. r \in Row
        BY <2>1, RowWrites
    <2> QED
        BY <1>1, <1>5, <2>1, <2>2, WriteRowTypes DEF ScheduleWrite
<1>6. ASSUME NEW c \in Clients, ArchiveWrite(c) PROVE TypeOK'
    <2> DEFINE b == task[c].blog  r == Archived(row[b])
    <2>1. task[c] \in Task /\ b \in Blogs /\ row[b] \in Row
        BY <1>1, <1>6, Busy DEF ArchiveWrite, At
    <2>2. r \in Row /\ r.tags \in SUBSET Tags
        BY <1>1, <2>1, RowWrites DEF Row
    <2> QED
        BY <1>1, <1>6, <2>1, <2>2, CountingTypes, WriteRowTypes DEF ArchiveWrite
<1>7. ASSUME NEW c \in Clients, UnarchiveWrite(c) PROVE TypeOK'
    <2> DEFINE b == task[c].blog
               first == task[c].seen.publishedAt
               at == IF first = NoDate THEN now ELSE first
               r == Restored(row[b], at)
    <2>1. task[c] \in Task /\ b \in Blogs /\ row[b] \in Row /\ task[c].seen \in Row
        BY <1>1, <1>7, Busy DEF UnarchiveWrite, At
    <2>2. at \in Dates
        BY <1>1, <2>1 DEF Row
    <2>3. r \in Row /\ r.tags \in SUBSET Tags
        BY <2>1, <2>2, RowWrites DEF Row
    <2> QED
        BY <1>1, <1>7, <2>1, <2>3, CountingTypes, WriteRowTypes DEF UnarchiveWrite
<1>8. ASSUME NEW c \in Clients, DeleteWrite(c) PROVE TypeOK'
    <2>1. task[c].blog \in Blogs /\ row[task[c].blog] \in Row
        BY <1>1, <1>8, Busy DEF DeleteWrite, At
    <2>2. NoRow("deleted") \in Row
        BY NoRowFields
    <2> QED
        BY <1>1, <1>8, <2>1, <2>2, WriteRowTypes DEF DeleteWrite
<1>9. ASSUME NEW c \in Clients, UpdateWrite(c) PROVE TypeOK'
    <2>1. /\ task[c].blog \in Blogs /\ row[task[c].blog] \in Row
          /\ task[c].tags \in SUBSET Tags
        BY <1>1, <1>9, Busy DEF UpdateWrite, At
    <2>2. Retagged(row[task[c].blog], task[c].tags) \in Row
        BY <2>1, TagWrites
    <2> QED
        BY <1>1, <1>9, <2>1, <2>2 DEF UpdateWrite, TypeOK, Blame, Anomaly, envVars
<1>10. ASSUME NEW c \in Clients, WriteFails(c) \/ CountFails(c) PROVE TypeOK'
    <2>1. CASE WriteFails(c)
        BY <1>1, <2>1 DEF WriteFails, TypeOK, Fault, dbVars
    <2>2. CASE CountFails(c)
        BY <1>1, <2>2 DEF CountFails, TypeOK, Fault, Blame, Anomaly, dbVars
    <2> QED
        BY <1>10, <2>1, <2>2
<1>11. ASSUME NEW c \in Clients, CountUp(c) \/ CountDown(c) PROVE TypeOK'
    <2>1. task[c].blog \in Blogs /\ blogCount' \in [Tags -> Int]
        BY <1>1, <1>11, Busy, MoveCountsTypes DEF CountUp, CountDown, At, TypeOK
    <2> QED
        BY <1>11, <2>1 DEF CountUp, CountDown, TypeOK, Defer, envVars
<1>12. ASSUME NEW w \in Workers, CronRead(w) PROVE TypeOK'
    BY <1>12 DEF CronRead, TypeOK, Due, dbVars, envVars
<1>13. ASSUME NEW w \in Workers, NEW d \in batch[w], CronPublish(w, d) PROVE TypeOK'
    <2> DEFINE r == Published(row[d.blog], now)
    <2>1. d \in Due /\ d.blog \in Blogs /\ row[d.blog] \in Row
        BY DEF TypeOK, Due
    <2>2. r \in Row
        BY <1>1, <2>1, RowWrites
    <2>3. batch' \in [Workers -> SUBSET Due]
        BY <1>1, <1>13 DEF CronPublish, Take
    <2> QED
        BY <1>1, <1>13, <2>1, <2>2, <2>3, CronTaskTypes, WriteRowTypes DEF CronPublish
<1>14. ASSUME NEW w \in Workers, NEW d \in batch[w], CronPublishFails(w, d) PROVE TypeOK'
    <2>1. d \in Due /\ d.seen \in Row
        BY DEF TypeOK, Due
    <2>2. CronTask(d, "catch", d.seen) \in Task
        BY <2>1, CronTaskTypes
    <2>3. batch' \in [Workers -> SUBSET Due]
        BY <1>1, <1>14 DEF CronPublishFails, Take
    <2> QED
        BY <1>1, <1>14, <2>2, <2>3 DEF CronPublishFails, TypeOK, Fault, dbVars
<1>15. ASSUME NEW w \in Workers, CronCount(w) PROVE TypeOK'
    <2>1. task[w].blog \in Blogs /\ blogCount' \in [Tags -> Int]
        BY <1>1, <1>15, Busy, MoveCountsTypes DEF CronCount, At, TypeOK
    <2> QED
        BY <1>1, <1>15, <2>1, SMTT(30) DEF CronCount, TypeOK, Defer, envVars
<1>16. ASSUME NEW w \in Workers, CronCountFails(w) PROVE TypeOK'
    <2>1. task[w] \in Task
        BY <1>1, <1>16, Busy DEF CronCountFails, At
    <2>2. [task[w] EXCEPT !.step = "catch"] \in Task
        BY <2>1 DEF Task
    <2> QED
        BY <1>1, <1>16, <2>2 DEF CronCountFails, TypeOK, Fault, dbVars
<1>17. ASSUME NEW w \in Workers, CronMarkFailed(w) PROVE TypeOK'
    <2>1. task[w].blog \in Blogs /\ row[task[w].blog] \in Row
        BY <1>1, <1>17, Busy DEF CronMarkFailed, At
    <2>2. PublishFailed(row[task[w].blog]) \in Row
        BY <1>1, <2>1, RowWrites
    <2> QED
        BY <1>1, <1>17, <2>1, <2>2, WriteRowTypes DEF CronMarkFailed
<1>18. ASSUME NEW w \in Workers, CronMarkFailedFails(w) PROVE TypeOK'
    <2>1. anomalies' \in SUBSET Anomaly
        BY <1>18 DEF CronMarkFailedFails, Blame, Anomaly, TypeOK
    <2>2. faults' \in Nat
        BY <1>18 DEF CronMarkFailedFails, Fault, TypeOK
    <2>3. task' \in [Tasks -> Task \cup {Idle}]
        BY <1>1, <1>18 DEF CronMarkFailedFails, TypeOK
    <2> QED
        BY <1>18, <2>1, <2>2, <2>3 DEF CronMarkFailedFails, TypeOK, dbVars
<1>19. ASSUME NEW b \in Blogs, Emit(b) PROVE TypeOK'
    BY <1>19 DEF Emit, TypeOK, dbVars, envVars
<1>20. CASE Crash
    BY <1>20 DEF Crash, TypeOK, Fault, Blame, Anomaly, dbVars
<1>21. CASE Tick
    BY <1>21 DEF Tick, TypeOK, dbVars
<1>22. CASE UNCHANGED vars
    BY <1>22 DEF vars, TypeOK
<1> QED
    BY <1>2, <1>3, <1>4, <1>5, <1>6, <1>7, <1>8, <1>9, <1>10, <1>11, <1>12, <1>13,
       <1>14, <1>15, <1>16, <1>17, <1>18, <1>19, <1>20, <1>21, <1>22
       DEF Next, Request, Cron

\* In every reachable state the variables have the values their columns and
\* fields allow; no failure or crash leaves a half-formed task behind.
THEOREM TypeCorrect == Spec => []TypeOK
<1> QED
    BY TypeInit, TypeStep, PTL DEF Spec

-----------------------------------------------------------------------------
(* The shape of tasks: what is known about a task in progress from the     *)
(* checks it passed, whatever happened to its blog since.                  *)

TaskShape ==
    /\ \A c \in Clients : task[c].step # "idle" =>
          /\ task[c].op \in Operations
          /\ task[c].step \in {"write", "count"}
          /\ task[c].step = "write" => task[c].seen.status \in Admits[task[c].op]
    /\ \A w \in Workers : task[w].step # "idle" =>
          /\ task[w].op = "cron"
          /\ \/ task[w].step = "count" /\ task[w].seen.status = "published"
             \/ task[w].step = "catch" /\ task[w].seen.status \in {"scheduled", "published"}
    /\ \A w \in Workers : \A d \in batch[w] : d.seen.status = "scheduled"

\* While nothing has gone wrong a cron run counts the tags its blog has.
CronTags ==
    anomalies = {} => \A w \in Workers :
        task[w].step # "idle" => task[w].tags = task[w].seen.tags

\* Nothing runs at first: every shape holds.
LEMMA ShapeInit == Init => TaskShape /\ CronTags
BY DEF Init, TaskShape, CronTags, Idle, Tasks

\* A step of client c that leaves it idle, or past its write, and nobody else.
LEMMA ShapeOfClient ==
    ASSUME TypeOK, TaskShape, NEW c \in Clients, NEW x,
           task' = [task EXCEPT ![c] = x], UNCHANGED batch,
           \/ x = Idle
           \/ task[c].step # "idle" /\ x.op = task[c].op /\ x.step = "count"
    PROVE  TaskShape'
BY LifecycleAssumption DEF TypeOK, TaskShape, Tasks, Idle

\* A step of worker w that leaves it idle, or past its read, and nobody else.
LEMMA ShapeOfWorker ==
    ASSUME TypeOK, TaskShape, NEW w \in Workers, NEW x,
           task' = [task EXCEPT ![w] = x],
           \A v \in Workers : batch'[v] \subseteq batch[v],
           \/ x = Idle
           \/ /\ x.op = "cron"
              /\ \/ x.step = "count" /\ x.seen.status = "published"
                 \/ x.step = "catch" /\ x.seen.status \in {"scheduled", "published"}
    PROVE  TaskShape'
BY LifecycleAssumption DEF TypeOK, TaskShape, Tasks, Idle

\* A step of a client leaves what the cron runs are to count alone.
LEMMA TagsOfClient ==
    ASSUME TypeOK, CronTags, NEW c \in Clients, NEW x,
           task' = [task EXCEPT ![c] = x], anomalies' = {} => anomalies = {}
    PROVE  CronTags'
BY LifecycleAssumption DEF TypeOK, CronTags, Tasks

\* A step of worker w whose run still counts the tags it read.
LEMMA TagsOfWorker ==
    ASSUME TypeOK, CronTags, NEW w \in Workers, NEW x,
           task' = [task EXCEPT ![w] = x], anomalies' = {} => anomalies = {},
           anomalies' = {} => x = Idle \/ x.tags = x.seen.tags
    PROVE  CronTags'
BY LifecycleAssumption DEF TypeOK, CronTags, Tasks, Idle

\* Blaming adds to the anomalies, if anything, what it names.
LEMMA BlameGrows ==
    ASSUME NEW why, NEW cond \in BOOLEAN, Blame(why, cond), anomalies' = {}
    PROVE  anomalies = {} /\ ~cond
BY DEF Blame

\* A task about to count: what it holds.
LEMMA CountingFields ==
    ASSUME NEW c, task[c] \in Task, NEW r \in Row, NEW T \in SUBSET Tags
    PROVE  /\ Counting(c, r, T).op = task[c].op
           /\ Counting(c, r, T).step = "count"
           /\ Counting(c, r, T).tags = T /\ Counting(c, r, T).seen = r
BY DEF Counting, Task

\* A task of the cron job: what it holds.
LEMMA CronTaskFields ==
    ASSUME NEW d \in Due, NEW r \in Row, NEW s \in {"write", "count", "catch"}
    PROVE  /\ CronTask(d, s, r).op = "cron" /\ CronTask(d, s, r).step = s
           /\ CronTask(d, s, r).tags = d.seen.tags /\ CronTask(d, s, r).seen = r
BY DEF CronTask

\* What a step of a client does to its task.
LEMMA RequestStep ==
    ASSUME TypeOK, NEW c \in Clients, Request(c)
    PROVE  /\ UNCHANGED batch
           /\ task[c].step # "idle"
           /\ \E x : /\ task' = [task EXCEPT ![c] = x]
                     /\ x = Idle \/ (x.op = task[c].op /\ x.step = "count")
           /\ anomalies' = {} => anomalies = {}
<1>1. c \in Tasks /\ now \in Dates
    BY DEF Tasks, TypeOK, Dates
<1>2. task[c].step # "idle"
    BY DEF Request, PublishWrite, ScheduleWrite, ArchiveWrite, UnarchiveWrite, DeleteWrite,
           UpdateWrite, WriteFails, CountUp, CountDown, CountFails, At
<1>3. /\ task[c] \in Task /\ row[task[c].blog] \in Row /\ task[c].seen \in Row
    BY <1>1, <1>2, Busy
<1>4. CASE PublishWrite(c)
    <2> DEFINE r == Published(row[task[c].blog], now)
    <2>1. r \in Row /\ r.tags \in SUBSET Tags
        BY <1>1, <1>3, RowWrites DEF Row
    <2>2. /\ Counting(c, r, r.tags).op = task[c].op
          /\ Counting(c, r, r.tags).step = "count"
        BY <1>3, <2>1, CountingFields
    <2>3. /\ task' = [task EXCEPT ![c] = Counting(c, r, r.tags)]
          /\ UNCHANGED batch
          /\ anomalies' = {} => anomalies = {}
        BY <1>4 DEF PublishWrite, WriteRow, Blame
    <2> QED
        BY <1>2, <2>2, <2>3
<1>5. CASE ArchiveWrite(c)
    <2> DEFINE r == Archived(row[task[c].blog])
    <2>1. r \in Row /\ r.tags \in SUBSET Tags
        BY <1>1, <1>3, RowWrites DEF Row
    <2>2. /\ Counting(c, r, r.tags).op = task[c].op
          /\ Counting(c, r, r.tags).step = "count"
        BY <1>3, <2>1, CountingFields
    <2>3. /\ \/ task' = [task EXCEPT ![c] = Counting(c, r, r.tags)]
             \/ task' = [task EXCEPT ![c] = Idle]
          /\ UNCHANGED batch
          /\ anomalies' = {} => anomalies = {}
        BY <1>5 DEF ArchiveWrite, WriteRow, Blame
    <2> QED
        BY <1>2, <2>2, <2>3
<1>6. CASE UnarchiveWrite(c)
    <2> DEFINE first == task[c].seen.publishedAt
               at == IF first = NoDate THEN now ELSE first
               r == Restored(row[task[c].blog], at)
    <2>1. at \in Dates
        BY <1>1, <1>3 DEF Row
    <2>2. r \in Row /\ r.tags \in SUBSET Tags
        BY <1>3, <2>1, RowWrites DEF Row
    <2>3. /\ Counting(c, r, r.tags).op = task[c].op
          /\ Counting(c, r, r.tags).step = "count"
        BY <1>3, <2>2, CountingFields
    <2>4. /\ task' = [task EXCEPT ![c] = Counting(c, r, r.tags)]
          /\ UNCHANGED batch
          /\ anomalies' = {} => anomalies = {}
        BY <1>6 DEF UnarchiveWrite, WriteRow, Blame
    <2> QED
        BY <1>2, <2>3, <2>4
<1>7. CASE ScheduleWrite(c) \/ DeleteWrite(c)
    BY <1>2, <1>7 DEF ScheduleWrite, DeleteWrite, WriteRow, Blame
<1>8. CASE UpdateWrite(c) \/ WriteFails(c) \/ CountUp(c) \/ CountDown(c) \/ CountFails(c)
    BY <1>2, <1>8 DEF UpdateWrite, WriteFails, CountUp, CountDown, CountFails, Blame
<1> QED
    BY <1>4, <1>5, <1>6, <1>7, <1>8 DEF Request

\* Every step keeps the shape of the tasks.
LEMMA ShapeStep ==
    TypeOK /\ TaskShape /\ CronTags /\ [Next]_vars => TaskShape' /\ CronTags'
<1> SUFFICES ASSUME TypeOK, TaskShape, CronTags, [Next]_vars
             PROVE  TaskShape' /\ CronTags'
    OBVIOUS
<1>1. Clients \subseteq Tasks /\ Workers \subseteq Tasks /\ now \in Dates
    BY DEF Tasks, TypeOK, Dates
<1>2. ASSUME UNCHANGED <<task, batch>>, anomalies' = {} => anomalies = {}
      PROVE  TaskShape' /\ CronTags'
    BY <1>2 DEF TaskShape, CronTags
<1>3. ASSUME NEW c \in Clients, NEW op \in Operations, NEW b \in Blogs,
             NEW T, NEW at, Start(c, op, b, T, at)
      PROVE  TaskShape' /\ CronTags'
    <2>1. TaskShape'
        BY <1>3, LifecycleAssumption DEF Start, TypeOK, TaskShape, Tasks
    <2>2. CronTags'
        BY <1>3, TagsOfClient DEF Start
    <2> QED
        BY <2>1, <2>2
<1>4. ASSUME NEW c \in Clients, StartUpdate(c) \/ StartSchedule(c) \/ StartOther(c)
      PROVE  TaskShape' /\ CronTags'
    BY <1>3, <1>4, OperationNames DEF StartUpdate, StartSchedule, StartOther
<1>5. ASSUME NEW c \in Clients, Request(c) PROVE TaskShape' /\ CronTags'
    BY <1>5, RequestStep, ShapeOfClient, TagsOfClient
<1>6. ASSUME NEW w \in Workers, CronRead(w) PROVE TaskShape' /\ CronTags'
    <2>1. CronTags'
        BY <1>6 DEF CronRead, CronTags
    <2>2. \A v \in Workers : \A d \in batch'[v] : d.seen.status = "scheduled"
        BY <1>6 DEF CronRead, TaskShape, TypeOK, IsDue
    <2>3. TaskShape'
        BY <1>6, <2>2 DEF CronRead, TaskShape
    <2> QED
        BY <2>1, <2>3
<1>7. ASSUME NEW w \in Workers, NEW d \in batch[w], CronPublish(w, d)
      PROVE  TaskShape' /\ CronTags'
    <2> DEFINE r == Published(row[d.blog], now)
    <2>1. d \in Due /\ row[d.blog] \in Row /\ d.seen \in Row
        BY DEF TypeOK, Due
    <2>2. r \in Row /\ r.status = "published" /\ r.tags = row[d.blog].tags
        BY <1>1, <2>1, RowWrites, ZenonT(60)
    <2>3. /\ task' = [task EXCEPT ![w] = CronTask(d, "count", r)]
          /\ \A v \in Workers : batch'[v] \subseteq batch[v]
          /\ Blame("stale_write", row[d.blog] # d.seen)
        BY <1>7 DEF CronPublish, Take, WriteRow, TypeOK
    <2> DEFINE x == CronTask(d, "count", r)
    <2>4. /\ x.op = "cron" /\ x.step = "count" /\ x.seen = r
          /\ x.tags = d.seen.tags
        BY <2>1, <2>2, CronTaskFields
    <2>5. anomalies' = {} => anomalies = {} /\ row[d.blog] = d.seen
        BY <2>3 DEF Blame
    <2> HIDE DEF x, r
    <2>6. TaskShape'
        BY <2>2, <2>3, <2>4, ShapeOfWorker DEF x
    <2>7. CronTags'
        BY <2>2, <2>3, <2>4, <2>5, TagsOfWorker DEF x
    <2> QED
        BY <2>6, <2>7
<1>8. ASSUME NEW w \in Workers, NEW d \in batch[w], CronPublishFails(w, d)
      PROVE  TaskShape' /\ CronTags'
    <2>1. d \in Due /\ d.seen \in Row /\ d.seen.status = "scheduled"
        BY DEF TypeOK, Due, TaskShape
    <2>2. /\ task' = [task EXCEPT ![w] = CronTask(d, "catch", d.seen)]
          /\ \A v \in Workers : batch'[v] \subseteq batch[v]
          /\ UNCHANGED anomalies
        BY <1>8 DEF CronPublishFails, Take, TypeOK
    <2> DEFINE x == CronTask(d, "catch", d.seen)
    <2>3. /\ x.op = "cron" /\ x.step = "catch" /\ x.seen = d.seen
          /\ x.tags = d.seen.tags
        BY <2>1, CronTaskFields
    <2> HIDE DEF x
    <2>4. TaskShape'
        BY <2>1, <2>2, <2>3, ShapeOfWorker DEF x
    <2>5. CronTags'
        BY <2>2, <2>3, TagsOfWorker DEF x
    <2> QED
        BY <2>4, <2>5
<1>9. ASSUME NEW w \in Workers, CronCountFails(w) PROVE TaskShape' /\ CronTags'
    <2> DEFINE x == [task[w] EXCEPT !.step = "catch"]
    <2>1. task[w] \in Task /\ task[w].step = "count"
        BY <1>1, <1>9, Busy DEF CronCountFails, At
    <2>2. /\ x.step = "catch" /\ x.op = task[w].op
          /\ x.seen = task[w].seen /\ x.tags = task[w].tags
        BY <2>1 DEF Task
    <2>3. /\ task' = [task EXCEPT ![w] = x]
          /\ UNCHANGED <<batch, anomalies>>
        BY <1>9 DEF CronCountFails
    <2>4. task[w].op = "cron" /\ task[w].seen.status = "published"
        BY <2>1 DEF TaskShape
    <2>5. anomalies = {} => task[w].tags = task[w].seen.tags
        BY <2>1 DEF CronTags
    <2>6. TaskShape'
        BY <2>2, <2>3, <2>4, ShapeOfWorker
    <2>7. CronTags'
        BY <2>2, <2>3, <2>5, TagsOfWorker
    <2> QED
        BY <2>6, <2>7
<1>10. ASSUME NEW w \in Workers, CronCount(w) \/ CronMarkFailed(w) \/ CronMarkFailedFails(w)
       PROVE  TaskShape' /\ CronTags'
    <2>1. /\ task' = [task EXCEPT ![w] = Idle]
          /\ UNCHANGED batch
          /\ anomalies' = {} => anomalies = {}
        BY <1>10 DEF CronCount, CronMarkFailed, CronMarkFailedFails, WriteRow, Blame
    <2> QED
        BY <2>1, ShapeOfWorker, TagsOfWorker
<1>11. CASE Crash
    <2>1. /\ \A k \in Tasks : task'[k].step = "idle"
          /\ \A w \in Workers : batch'[w] = {}
        BY <1>11 DEF Crash, Idle
    <2> QED
        BY <1>1, <2>1 DEF TaskShape, CronTags
<1> QED
    <2>1. CASE \E b \in Blogs, T \in SUBSET Tags : Create(b, T)
        BY <1>2, <2>1 DEF Create
    <2>2. CASE \E b \in Blogs : Emit(b)
        BY <1>2, <2>2 DEF Emit
    <2>3. CASE Tick
        BY <1>2, <2>3 DEF Tick
    <2>4. CASE UNCHANGED vars
        BY <1>2, <2>4 DEF vars
    <2> QED
        BY <1>4, <1>5, <1>6, <1>7, <1>8, <1>9, <1>10, <1>11, <2>1, <2>2, <2>3, <2>4
           DEF Next, Cron

-----------------------------------------------------------------------------
(* The tag counters.  A step moves one task and one row at a time, so the  *)
(* three sets that TagCountExact counts lose or gain at most one element.  *)

Num(p) == IF p THEN 1 ELSE 0

\* Two subsets of a finite set that agree off k.
LEMMA OffByOne ==
    ASSUME NEW S, IsFiniteSet(S), NEW A \in SUBSET S, NEW B \in SUBSET S, NEW k \in S,
           \A j \in S \ {k} : j \in A <=> j \in B
    PROVE  /\ Cardinality(A) \in Nat /\ Cardinality(B) \in Nat
           /\ Cardinality(B) = Cardinality(A) - Num(k \in A) + Num(k \in B)
<1>1. IsFiniteSet(A) /\ IsFiniteSet(B)
    BY FS_Subset
<1>2. Cardinality(A) \in Nat /\ Cardinality(B) \in Nat
    BY <1>1, FS_CardinalityType
<1>3. CASE (k \in A) = (k \in B)
    <2>1. A = B
        BY <1>3
    <2> QED
        BY <1>2, <2>1 DEF Num
<1>4. CASE k \in A /\ k \notin B
    <2>1. B = A \ {k}
        BY <1>4
    <2>2. Cardinality(A \ {k}) = Cardinality(A) - 1
        BY <1>1, <1>4, FS_RemoveElement
    <2> QED
        BY <1>2, <1>4, <2>1, <2>2 DEF Num
<1>5. CASE k \notin A /\ k \in B
    <2>1. B = A \cup {k}
        BY <1>5
    <2>2. Cardinality(A \cup {k}) = Cardinality(A) + 1
        BY <1>1, <1>5, FS_AddElement
    <2> QED
        BY <1>2, <1>5, <2>1, <2>2 DEF Num
<1> QED
    BY <1>3, <1>4, <1>5

\* Requests and cron runs are finitely many together.
LEMMA TasksFinite == IsFiniteSet(Tasks)
BY LifecycleAssumption, FS_Union DEF Tasks

\* Task k turns into x.
LEMMA TaskMoves ==
    ASSUME TypeOK, NEW k \in Tasks, NEW x, task' = [task EXCEPT ![k] = x], NEW t \in Tags
    PROVE  /\ Cardinality(Increments(t)) \in Nat /\ Cardinality(Increments(t)') \in Nat
           /\ Cardinality(Decrements(t)) \in Nat /\ Cardinality(Decrements(t)') \in Nat
           /\ Cardinality(Increments(t)') = Cardinality(Increments(t))
                 - Num(Adds(task[k], t)) + Num(Adds(x, t))
           /\ Cardinality(Decrements(t)') = Cardinality(Decrements(t))
                 - Num(Takes(task[k], t)) + Num(Takes(x, t))
<1>1. /\ task'[k] = x
      /\ \A j \in Tasks \ {k} : task'[j] = task[j]
    BY DEF TypeOK
<1>2. /\ Increments(t) = {j \in Tasks : Adds(task[j], t)}
      /\ Increments(t)' = {j \in Tasks : Adds(task'[j], t)}
      /\ Decrements(t) = {j \in Tasks : Takes(task[j], t)}
      /\ Decrements(t)' = {j \in Tasks : Takes(task'[j], t)}
    BY DEF Increments, Decrements, Adds, Takes, Owes
<1>3. /\ k \in Increments(t) <=> Adds(task[k], t)
      /\ k \in Increments(t)' <=> Adds(x, t)
      /\ k \in Decrements(t) <=> Takes(task[k], t)
      /\ k \in Decrements(t)' <=> Takes(x, t)
      /\ \A j \in Tasks \ {k} : /\ j \in Increments(t) <=> j \in Increments(t)'
                                /\ j \in Decrements(t) <=> j \in Decrements(t)'
      /\ Increments(t) \in SUBSET Tasks /\ Increments(t)' \in SUBSET Tasks
      /\ Decrements(t) \in SUBSET Tasks /\ Decrements(t)' \in SUBSET Tasks
    BY <1>1, <1>2
<1>4. /\ Cardinality(Increments(t)) \in Nat /\ Cardinality(Increments(t)') \in Nat
      /\ Cardinality(Increments(t)') = Cardinality(Increments(t))
            - Num(k \in Increments(t)) + Num(k \in Increments(t)')
    BY <1>3, TasksFinite, OffByOne
<1>5. /\ Cardinality(Decrements(t)) \in Nat /\ Cardinality(Decrements(t)') \in Nat
      /\ Cardinality(Decrements(t)') = Cardinality(Decrements(t))
            - Num(k \in Decrements(t)) + Num(k \in Decrements(t)')
    BY <1>3, TasksFinite, OffByOne
<1> QED
    BY <1>3, <1>4, <1>5 DEF Num

\* The row of blog b turns into r.
LEMMA RowMoves ==
    ASSUME TypeOK, NEW b \in Blogs, NEW r, row' = [row EXCEPT ![b] = r], NEW t \in Tags
    PROVE  /\ Cardinality(Carriers(row, t)) \in Nat
           /\ Cardinality(Carriers(row', t)) \in Nat
           /\ Cardinality(Carriers(row', t)) = Cardinality(Carriers(row, t))
                 - Num(Shows(row[b], t)) + Num(Shows(r, t))
<1> DEFINE A == Carriers(row, t)  B == Carriers(row', t)
<1>1. row'[b] = r /\ \A a \in Blogs \ {b} : row'[a] = row[a]
    BY DEF TypeOK
<1>2. /\ b \in A <=> Shows(row[b], t)
      /\ b \in B <=> Shows(r, t)
      /\ \A a \in Blogs \ {b} : a \in A <=> a \in B
      /\ A \in SUBSET Blogs /\ B \in SUBSET Blogs
    BY <1>1 DEF Carriers
<1>3. IsFiniteSet(Blogs)
    BY RowAssumption
<1> HIDE DEF A, B
<1>4. /\ Cardinality(A) \in Nat /\ Cardinality(B) \in Nat
      /\ Cardinality(B) = Cardinality(A) - Num(b \in A) + Num(b \in B)
    BY <1>2, <1>3, OffByOne
<1> QED
    BY <1>2, <1>4 DEF Num, A, B

Exact(t) == Settled(t) = Cardinality(Carriers(row, t))

\* The counter of t moves from m to n, a task from y to x and a row from q to r, and
\* the three changes cancel out.
Cancels(m, n, y, x, q, r, t) ==
    n - m - Num(Adds(y, t)) + Num(Adds(x, t)) + Num(Takes(y, t)) - Num(Takes(x, t))
        = Num(Shows(r, t)) - Num(Shows(q, t))

\* If such changes cancel out for t, its counter stays exact.
LEMMA Balance ==
    ASSUME TypeOK, NEW k \in Tasks, NEW x, NEW b \in Blogs, NEW r, NEW t \in Tags,
           task' = [task EXCEPT ![k] = x],
           row' = [row EXCEPT ![b] = r],
           blogCount'[t] \in Int,
           Cancels(blogCount[t], blogCount'[t], task[k], x, row[b], r, t), Exact(t)
    PROVE  Exact(t)'
<1>1. /\ Num(Adds(x, t)) \in Int /\ Num(Adds(task[k], t)) \in Int
      /\ Num(Takes(x, t)) \in Int /\ Num(Takes(task[k], t)) \in Int
      /\ Num(Shows(r, t)) \in Int /\ Num(Shows(row[b], t)) \in Int
    BY DEF Num
<1>2. blogCount[t] \in Int
    BY DEF TypeOK
<1>3. Settled(t)' = blogCount'[t] + Cardinality(Increments(t)')
                       - Cardinality(Decrements(t)')
    BY DEF Settled
<1>4. /\ Cardinality(Increments(t)) \in Nat /\ Cardinality(Increments(t)') \in Nat
      /\ Cardinality(Decrements(t)) \in Nat /\ Cardinality(Decrements(t)') \in Nat
      /\ Cardinality(Increments(t)') = Cardinality(Increments(t))
            - Num(Adds(task[k], t)) + Num(Adds(x, t))
      /\ Cardinality(Decrements(t)') = Cardinality(Decrements(t))
            - Num(Takes(task[k], t)) + Num(Takes(x, t))
    BY TaskMoves
<1>5. /\ Cardinality(Carriers(row, t)) \in Nat /\ Cardinality(Carriers(row', t)) \in Nat
      /\ Cardinality(Carriers(row', t)) = Cardinality(Carriers(row, t))
            - Num(Shows(row[b], t)) + Num(Shows(r, t))
    BY RowMoves
<1>6. blogCount[t] + Cardinality(Increments(t)) - Cardinality(Decrements(t))
         = Cardinality(Carriers(row, t))
    BY DEF Exact, Settled
<1>7. Settled(t)' = Cardinality(Carriers(row', t))
    <2> DEFINE i0 == Cardinality(Increments(t))  i1 == Cardinality(Increments(t)')
               d0 == Cardinality(Decrements(t))  d1 == Cardinality(Decrements(t)')
               c0 == Cardinality(Carriers(row, t))  c1 == Cardinality(Carriers(row', t))
               ax == Num(Adds(x, t))  ak == Num(Adds(task[k], t))
               tx == Num(Takes(x, t)) tk == Num(Takes(task[k], t))
               sr == Num(Shows(r, t)) sb == Num(Shows(row[b], t))
    <2>1. blogCount'[t] - blogCount[t] - ak + ax + tk - tx = sr - sb
        BY DEF Cancels
    <2> HIDE DEF i0, i1, d0, d1, c0, c1, ax, ak, tx, tk, sr, sb
    <2> QED
        BY <1>1, <1>2, <1>3, <1>4, <1>5, <1>6, <2>1
           DEF i0, i1, d0, d1, c0, c1, ax, ak, tx, tk, sr, sb
<1> QED
    BY <1>7 DEF Exact, Carriers

\* A step that moves neither tasks nor counters, and shows no other rows.
LEMMA BalanceStill ==
    ASSUME UNCHANGED <<task, blogCount>>, NEW t \in Tags, Exact(t),
           \A b \in Blogs : Shows(row'[b], t) = Shows(row[b], t)
    PROVE  Exact(t)'
<1>1. Carriers(row', t) = Carriers(row, t)
    BY DEF Carriers
<1>2. Increments(t)' = Increments(t) /\ Decrements(t)' = Decrements(t)
    BY DEF Increments, Decrements, Adds, Takes, Owes
<1>3. Exact(t)' = (Settled(t)' = Cardinality(Carriers(row', t)))
    BY DEF Exact, Carriers
<1> QED
    BY <1>1, <1>2, <1>3 DEF Exact, Settled

\* A step of task k between statements, or to its end, that owes nothing.
LEMMA BalanceTask ==
    ASSUME TypeOK, NEW k \in Tasks, NEW x, task' = [task EXCEPT ![k] = x],
           ~Owes(x), ~Owes(task[k]), UNCHANGED <<row, blogCount>>,
           NEW t \in Tags, Exact(t)
    PROVE  Exact(t)'
<1>1. /\ Increments(t)' = Increments(t)
      /\ Decrements(t)' = Decrements(t)
    <2>1. task'[k] = x /\ \A j \in Tasks \ {k} : task'[j] = task[j]
        BY DEF TypeOK
    <2> QED
        BY <2>1 DEF Increments, Decrements, Adds, Takes, Owes
<1> QED
    BY <1>1 DEF Exact, Settled, Carriers

\* What each handler lets pass, by name.
LEMMA AdmittedStatuses ==
    /\ "published" \notin Admits["publish"]
    /\ "published" \notin Admits["schedule"]
    /\ "published" \notin Admits["unarchive"]
    /\ "published" \notin Admits["delete"]
BY DEF Admits, BlogStatus

\* A write that leaves no anomaly behind found the row as it was read.
LEMMA CleanWrite ==
    ASSUME TypeOK, NEW k \in Tasks, NEW b \in Blogs, NEW seen, NEW new, NEW next,
           WriteRow(k, b, seen, new, next), anomalies' = {}
    PROVE  /\ row[b] = seen
           /\ row' = [row EXCEPT ![b] = new] /\ task' = [task EXCEPT ![k] = next]
           /\ \A t \in Tags : blogCount'[t] = blogCount[t] /\ blogCount[t] \in Int
<1>1. row[b] = seen /\ row' = [row EXCEPT ![b] = new] /\ task' = [task EXCEPT ![k] = next]
    BY DEF WriteRow, Blame
<1>2. blogCount' = blogCount
    BY DEF WriteRow
<1> QED
    BY <1>1, <1>2 DEF TypeOK

\* A task before its write owes nothing, nor does one that has ended.
LEMMA NothingOwed ==
    ASSUME NEW x, x.step = "write" \/ x.step = "idle", NEW t
    PROVE  ~Owes(x) /\ ~Adds(x, t) /\ ~Takes(x, t)
BY DEF Owes, Adds, Takes

\* The one field of an idle task.
LEMMA IdleStep == Idle.step = "idle"
BY DEF Idle

\* A write whose task publishes: the row shows its tags, the task owes them.
LEMMA ExactAfterPublishing ==
    ASSUME TypeOK, NEW k \in Tasks, NEW b \in Blogs, NEW seen, NEW r, NEW x, NEW t \in Tags,
           WriteRow(k, b, seen, r, x), anomalies' = {}, Exact(t),
           task[k].step = "write" \/ task[k].step = "idle",
           seen.status # "published", r.status = "published",
           x.step = "count", x.op # "archive", x.tags = r.tags
    PROVE  Exact(t)'
<1>1. /\ row[b] = seen
      /\ row' = [row EXCEPT ![b] = r] /\ task' = [task EXCEPT ![k] = x]
      /\ blogCount'[t] = blogCount[t] /\ blogCount[t] \in Int
    BY CleanWrite
<1>2. ~Adds(task[k], t) /\ ~Takes(task[k], t)
    BY NothingOwed
<1>3. ~Shows(row[b], t) /\ ~Takes(x, t) /\ (Adds(x, t) <=> Shows(r, t))
    BY <1>1 DEF Shows, Adds, Takes, Owes
<1>4. Cancels(blogCount[t], blogCount'[t], task[k], x, row[b], r, t)
    BY <1>1, <1>2, <1>3 DEF Cancels, Num
<1> QED
    BY <1>1, <1>4, Balance

\* A write that shows a blog neither before nor after, by a task that then
\* owes nothing.
LEMMA ExactAfterHiddenWrite ==
    ASSUME TypeOK, NEW k \in Tasks, NEW b \in Blogs, NEW seen, NEW r, NEW t \in Tags,
           WriteRow(k, b, seen, r, Idle), anomalies' = {}, Exact(t), ~Owes(task[k]),
           seen.status # "published", r.status # "published"
    PROVE  Exact(t)'
<1>1. /\ row[b] = seen
      /\ row' = [row EXCEPT ![b] = r] /\ task' = [task EXCEPT ![k] = Idle]
      /\ blogCount'[t] = blogCount[t] /\ blogCount[t] \in Int
    BY CleanWrite
<1>2. /\ ~Adds(task[k], t) /\ ~Takes(task[k], t) /\ ~Adds(Idle, t) /\ ~Takes(Idle, t)
      /\ ~Shows(row[b], t) /\ ~Shows(r, t)
    BY <1>1, NothingOwed, IdleStep DEF Shows, Adds, Takes
<1>3. Cancels(blogCount[t], blogCount'[t], task[k], Idle, row[b], r, t)
    BY <1>1, <1>2 DEF Cancels, Num
<1> QED
    BY <1>1, <1>3, Balance

\* Writing the counters pays what task k owes.
LEMMA ExactAfterCount ==
    ASSUME TypeOK, NEW k \in Tasks, NEW t \in Tags, Exact(t), task[k].step = "count",
           \/ task[k].op # "archive" /\ MoveCounts(task[k].tags, 1)
           \/ task[k].op = "archive" /\ MoveCounts(task[k].tags, -1),
           task' = [task EXCEPT ![k] = Idle], UNCHANGED row
    PROVE  Exact(t)'
<1> DEFINE b == task[k].blog
           m == IF t \in task[k].tags THEN IF task[k].op = "archive" THEN -1 ELSE 1 ELSE 0
<1>1. b \in Blogs /\ row' = [row EXCEPT ![b] = row[b]]
    BY Busy DEF TypeOK
<1>2. blogCount'[t] = blogCount[t] + m /\ m \in Int /\ blogCount[t] \in Int
    BY DEF MoveCounts, TypeOK
<1>3. /\ ~Adds(Idle, t) /\ ~Takes(Idle, t)
      /\ Adds(task[k], t) <=> (task[k].op # "archive" /\ t \in task[k].tags)
      /\ Takes(task[k], t) <=> (task[k].op = "archive" /\ t \in task[k].tags)
    BY NothingOwed, IdleStep DEF Adds, Takes, Owes
<1>4. Cancels(blogCount[t], blogCount'[t], task[k], Idle, row[b], row[b], t)
    BY <1>2, <1>3 DEF Cancels, Num
<1>5. blogCount'[t] \in Int
    BY <1>2
<1> HIDE DEF m, b
<1> QED
    BY <1>1, <1>4, <1>5, Balance

\* A write that hides a published blog: the task owes the counters a decrement
\* (archive), or no longer owes them an increment (the cron job's catch block).
LEMMA ExactAfterHiding ==
    ASSUME TypeOK, NEW k \in Tasks, NEW b \in Blogs, NEW seen, NEW r, NEW x, NEW t \in Tags,
           WriteRow(k, b, seen, r, x), anomalies' = {}, Exact(t),
           seen.status = "published", r.status # "published",
           ~Adds(x, t), ~Takes(task[k], t),
           \/ ~Adds(task[k], t) /\ (Takes(x, t) <=> t \in seen.tags)
           \/ ~Takes(x, t) /\ (Adds(task[k], t) <=> t \in seen.tags)
    PROVE  Exact(t)'
<1>1. /\ row[b] = seen
      /\ row' = [row EXCEPT ![b] = r] /\ task' = [task EXCEPT ![k] = x]
      /\ blogCount'[t] = blogCount[t] /\ blogCount[t] \in Int
    BY CleanWrite
<1>2. ~Shows(r, t) /\ (Shows(row[b], t) <=> t \in seen.tags)
    BY <1>1 DEF Shows
<1>3. Cancels(blogCount[t], blogCount'[t], task[k], x, row[b], r, t)
    BY <1>1, <1>2 DEF Cancels, Num
<1> QED
    BY <1>1, <1>3, Balance

\* A step of a client keeps the counters exact.
LEMMA ExactRequest ==
    ASSUME TypeOK, TaskShape, NEW c \in Clients, Request(c), anomalies' = {},
           NEW t \in Tags, Exact(t)
    PROVE  Exact(t)'
<1>1. c \in Tasks /\ now \in Dates
    BY DEF Tasks, TypeOK, Dates
<1> DEFINE b == task[c].blog
<1>2. ASSUME task[c].step = "write"
      PROVE  /\ task[c] \in Task /\ b \in Blogs /\ row[b] \in Row
             /\ row[b].tags \in SUBSET Tags /\ task[c].seen \in Row
             /\ task[c].seen.status \in Admits[task[c].op]
             /\ ~Owes(task[c])
    BY <1>1, <1>2, Busy, NothingOwed DEF TaskShape
<1>3. CASE PublishWrite(c)
    <2> DEFINE r == Published(row[b], now)  x == Counting(c, r, r.tags)
    <2>1. task[c].step = "write" /\ task[c].op = "publish"
          /\ WriteRow(c, b, task[c].seen, r, x)
        BY <1>3 DEF PublishWrite, At
    <2>2. r \in Row /\ r.tags \in SUBSET Tags /\ r.status = "published"
        <3>1. row[b] \in Row /\ row[b].tags \in SUBSET Tags
            BY <1>2, <2>1
        <3>2. r \in Row /\ r.status = "published" /\ r.tags = row[b].tags
            BY <1>1, <3>1, RowWrites
        <3> QED
            BY <3>1, <3>2
    <2>3. x.step = "count" /\ x.op # "archive" /\ x.tags = r.tags
        BY <1>2, <2>1, <2>2, CountingFields
    <2>4. b \in Blogs /\ task[c].seen.status # "published"
        BY <1>2, <2>1, AdmittedStatuses
    <2> HIDE DEF r, x
    <2> QED
        BY <1>1, <2>1, <2>2, <2>3, <2>4, ExactAfterPublishing
<1>4. CASE UnarchiveWrite(c)
    <2> DEFINE first == task[c].seen.publishedAt
               at == IF first = NoDate THEN now ELSE first
               r == Restored(row[b], at)  x == Counting(c, r, r.tags)
    <2>1. task[c].step = "write" /\ task[c].op = "unarchive"
          /\ WriteRow(c, b, task[c].seen, r, x)
        BY <1>4 DEF UnarchiveWrite, At
    <2>2. at \in Dates
        BY <1>1, <1>2, <2>1 DEF Row
    <2>3. r \in Row /\ r.tags \in SUBSET Tags /\ r.status = "published"
        <3>1. row[b] \in Row /\ row[b].tags \in SUBSET Tags
            BY <1>2, <2>1
        <3>2. r \in Row /\ r.status = "published" /\ r.tags = row[b].tags
            BY <2>2, <3>1, RowWrites
        <3> QED
            BY <3>1, <3>2
    <2>4. x.step = "count" /\ x.op # "archive" /\ x.tags = r.tags
        BY <1>2, <2>1, <2>3, CountingFields, SMTT(30)
    <2>5. b \in Blogs /\ task[c].seen.status # "published"
        BY <1>2, <2>1, AdmittedStatuses
    <2> HIDE DEF r, x
    <2> QED
        BY <1>1, <2>1, <2>3, <2>4, <2>5, ExactAfterPublishing
<1>5. CASE ArchiveWrite(c)
    <2> DEFINE r == Archived(row[b])  x == Counting(c, r, r.tags)
    <2>1. /\ task[c].step = "write" /\ task[c].op = "archive"
          /\ \/ task[c].seen.status = "published" /\ WriteRow(c, b, task[c].seen, r, x)
             \/ task[c].seen.status # "published" /\ WriteRow(c, b, task[c].seen, r, Idle)
        BY <1>5 DEF ArchiveWrite, At
    <2>2. r \in Row /\ r.tags = row[b].tags /\ r.tags \in SUBSET Tags /\ r.status # "published"
        BY <1>1, <1>2, <2>1, RowWrites DEF Row
    <2>3. x.step = "count" /\ x.op = "archive" /\ x.tags = row[b].tags
        BY <1>2, <2>1, <2>2, CountingFields
    <2>4. b \in Blogs /\ ~Owes(task[c])
        BY <1>2, <2>1
    <2> HIDE DEF r, x
    <2>5. CASE task[c].seen.status # "published"
        BY <1>1, <2>1, <2>2, <2>4, <2>5, ExactAfterHiddenWrite
    <2>6. CASE task[c].seen.status = "published"
        <3>1. WriteRow(c, b, task[c].seen, r, x)
            BY <2>1, <2>6
        <3>2. row[b] = task[c].seen
            BY <1>1, <2>4, <3>1, CleanWrite
        <3>3. /\ ~Adds(x, t) /\ (Takes(x, t) <=> t \in task[c].seen.tags)
              /\ ~Adds(task[c], t) /\ ~Takes(task[c], t)
            BY <2>3, <2>4, <3>2 DEF Adds, Takes, Owes
        <3> QED
            BY <1>1, <2>2, <2>4, <2>6, <3>1, <3>3, ExactAfterHiding
    <2> QED
        BY <2>5, <2>6
<1>6. CASE ScheduleWrite(c)
    <2> DEFINE r == Scheduled(row[b], task[c].at)
    <2>1. task[c].step = "write" /\ task[c].op = "schedule"
          /\ WriteRow(c, b, task[c].seen, r, Idle)
        BY <1>6 DEF ScheduleWrite, At
    <2>2. task[c].at \in Dates
        BY <1>1, <2>1, Busy
    <2>3. r.status # "published"
        BY <1>2, <2>1, <2>2, RowWrites
    <2>4. b \in Blogs /\ ~Owes(task[c]) /\ task[c].seen.status # "published"
        BY <1>2, <2>1, AdmittedStatuses
    <2> HIDE DEF r
    <2> QED
        BY <1>1, <2>1, <2>3, <2>4, ExactAfterHiddenWrite
<1>7. CASE DeleteWrite(c)
    <2>1. task[c].step = "write" /\ task[c].op = "delete"
          /\ WriteRow(c, b, task[c].seen, NoRow("deleted"), Idle)
        BY <1>7 DEF DeleteWrite, At
    <2>2. NoRow("deleted").status # "published"
        BY NoRowFields
    <2>3. b \in Blogs /\ ~Owes(task[c]) /\ task[c].seen.status # "published"
        BY <1>2, <2>1, AdmittedStatuses
    <2> QED
        BY <1>1, <2>1, <2>2, <2>3, ExactAfterHiddenWrite
<1>8. CASE UpdateWrite(c)
    <2> DEFINE r == Retagged(row[b], task[c].tags)
    <2>1. /\ task[c].step = "write" /\ row' = [row EXCEPT ![b] = r]
          /\ task' = [task EXCEPT ![c] = Idle] /\ blogCount' = blogCount
          /\ row[b].status = "published" => row[b].tags = task[c].tags
        BY <1>8 DEF UpdateWrite, At, Blame
    <2>2. task[c].tags \in SUBSET Tags
        BY <1>1, <2>1, Busy
    <2>3. r.status = row[b].status /\ r.tags = task[c].tags
        BY <1>2, <2>1, <2>2, TagWrites
    <2>4. /\ ~Adds(task[c], t) /\ ~Takes(task[c], t) /\ ~Adds(Idle, t) /\ ~Takes(Idle, t)
          /\ Shows(row[b], t) <=> Shows(r, t)
        BY <2>1, <2>3, NothingOwed, IdleStep DEF Shows
    <2>5. blogCount[t] \in Int /\ blogCount'[t] = blogCount[t] /\ b \in Blogs
        BY <1>2, <2>1 DEF TypeOK
    <2>6. Cancels(blogCount[t], blogCount'[t], task[c], Idle, row[b], r, t)
        BY <2>4, <2>5 DEF Cancels, Num
    <2> HIDE DEF r
    <2> QED
        BY <1>1, <2>1, <2>5, <2>6, Balance
<1>9. CASE WriteFails(c)
    BY <1>1, <1>9, NothingOwed, IdleStep, BalanceTask DEF WriteFails, dbVars
<1>10. CASE CountUp(c)
    <2>1. /\ task[c].step = "count" /\ task[c].op # "archive"
          /\ MoveCounts(task[c].tags, 1) /\ task' = [task EXCEPT ![c] = Idle]
          /\ UNCHANGED row
        BY <1>10 DEF CountUp, At
    <2> QED
        BY <1>1, <2>1, ExactAfterCount
<1>11. CASE CountDown(c)
    <2>1. /\ task[c].step = "count" /\ task[c].op = "archive"
          /\ MoveCounts(task[c].tags, -1) /\ task' = [task EXCEPT ![c] = Idle]
          /\ UNCHANGED row
        BY <1>11 DEF CountDown, At
    <2> QED
        BY <1>1, <2>1, ExactAfterCount
<1>12. CASE CountFails(c)
    BY <1>12 DEF CountFails, Blame
<1> QED
    BY <1>3, <1>4, <1>5, <1>6, <1>7, <1>8, <1>9, <1>10, <1>11, <1>12 DEF Request
\* A step of a run of the cron job keeps the counters exact.
LEMMA ExactCron ==
    ASSUME TypeOK, TaskShape, CronTags, NEW w \in Workers, Cron(w), anomalies' = {},
           NEW t \in Tags, Exact(t)
    PROVE  Exact(t)'
<1>1. w \in Tasks /\ now \in Dates
    BY DEF Tasks, TypeOK, Dates
<1>2. CASE CronRead(w)
    BY <1>2, BalanceStill DEF CronRead, dbVars
<1>3. CASE CronCount(w)
    <2>1. /\ task[w].step = "count" /\ task[w].op # "archive"
          /\ MoveCounts(task[w].tags, 1) /\ task' = [task EXCEPT ![w] = Idle]
          /\ UNCHANGED row
        BY <1>3 DEF CronCount, At
    <2> QED
        BY <1>1, <2>1, ExactAfterCount
<1>4. CASE CronCountFails(w)
    <2> DEFINE x == [task[w] EXCEPT !.step = "catch"]  b == task[w].blog
    <2>1. /\ task[w].step = "count" /\ task' = [task EXCEPT ![w] = x]
          /\ blogCount' = blogCount /\ row' = row
        BY <1>4 DEF CronCountFails, At, dbVars
    <2>2. task[w] \in Task /\ b \in Blogs /\ task[w].seen.status = "published"
        BY <1>1, <2>1, Busy DEF TaskShape
    <2>3. x.step = "catch" /\ x.op = task[w].op /\ x.tags = task[w].tags /\ x.seen = task[w].seen
        BY <2>2 DEF Task
    <2>4. Adds(x, t) = Adds(task[w], t) /\ Takes(x, t) = Takes(task[w], t)
        BY <2>1, <2>2, <2>3 DEF Adds, Takes, Owes
    <2>5. row' = [row EXCEPT ![b] = row[b]] /\ blogCount'[t] = blogCount[t] /\ blogCount[t] \in Int
        BY <2>1 DEF TypeOK
    <2> HIDE DEF x, b
    <2>6. Cancels(blogCount[t], blogCount'[t], task[w], x, row[b], row[b], t)
        BY <2>4, <2>5 DEF Cancels, Num
    <2>7. blogCount'[t] \in Int
        BY <2>5
    <2> QED
        BY <1>1, <2>1, <2>2, <2>5, <2>6, <2>7, Balance
<1>5. CASE CronMarkFailed(w)
    <2> DEFINE b == task[w].blog  seen == task[w].seen  r == PublishFailed(row[b])
    <2>1. task[w].step = "catch" /\ task[w].op = "cron" /\ WriteRow(w, b, seen, r, Idle)
        BY <1>5 DEF CronMarkFailed, At
    <2>2. row[b] \in Row /\ b \in Blogs
        BY <1>1, <2>1, Busy
    <2>3. r.status # "published"
        BY <1>1, <2>2, RowWrites
    <2>4. anomalies = {}
        BY <1>5, BlameGrows DEF CronMarkFailed, WriteRow, Blame
    <2>5. task[w].tags = seen.tags
        BY <2>1, <2>4 DEF CronTags
    <2>6. seen.status \in {"scheduled", "published"}
        BY <2>1 DEF TaskShape
    <2>7. ~Adds(Idle, t) /\ ~Takes(Idle, t) /\ ~Takes(task[w], t)
        BY <2>1, NothingOwed, IdleStep DEF Takes
    <2>8. CASE seen.status = "scheduled"
        <3>1. ~Owes(task[w])
            BY <2>1, <2>8 DEF Owes
        <3> HIDE DEF r
        <3> QED
            BY <1>1, <2>1, <2>2, <2>3, <2>8, <3>1, ExactAfterHiddenWrite
    <2>9. CASE seen.status = "published"
        <3>1. Adds(task[w], t) <=> t \in seen.tags
            BY <2>1, <2>5, <2>9 DEF Adds, Owes
        <3> HIDE DEF r
        <3> QED
            BY <1>1, <2>1, <2>2, <2>3, <2>7, <2>9, <3>1, ExactAfterHiding
    <2> QED
        BY <2>6, <2>8, <2>9
<1>6. CASE CronMarkFailedFails(w)
    <2>1. /\ task[w].step = "catch" /\ task[w].seen.status # "published"
          /\ task' = [task EXCEPT ![w] = Idle] /\ UNCHANGED <<row, blogCount>>
        BY <1>6 DEF CronMarkFailedFails, At, Blame, dbVars
    <2>2. ~Owes(task[w]) /\ ~Owes(Idle)
        BY <2>1, NothingOwed, IdleStep DEF Owes
    <2> QED
        BY <1>1, <2>1, <2>2, BalanceTask
<1>7. ASSUME NEW d \in batch[w], CronPublish(w, d)
      PROVE  Exact(t)'
    <2> DEFINE r == Published(row[d.blog], now)  x == CronTask(d, "count", r)
    <2>1. task[w].step = "idle" /\ WriteRow(w, d.blog, d.seen, r, x)
        BY <1>7, IdleStep DEF CronPublish, Take
    <2>2. d \in Due /\ d.blog \in Blogs /\ row[d.blog] \in Row /\ d.seen.status = "scheduled"
        BY DEF TypeOK, Due, TaskShape
    <2>3. r \in Row /\ r.status = "published" /\ r.tags = row[d.blog].tags
        BY <1>1, <2>2, RowWrites
    <2>4. row[d.blog] = d.seen
        BY <1>1, <2>1, <2>2, CleanWrite
    <2>5. x.step = "count" /\ x.op # "archive" /\ x.tags = r.tags
        BY <2>2, <2>3, <2>4, CronTaskFields
    <2> HIDE DEF r, x
    <2> QED
        BY <1>1, <2>1, <2>2, <2>3, <2>5, ExactAfterPublishing
<1>8. ASSUME NEW d \in batch[w], CronPublishFails(w, d)
      PROVE  Exact(t)'
    <2> DEFINE x == CronTask(d, "catch", d.seen)
    <2>1. /\ task[w].step = "idle" /\ task' = [task EXCEPT ![w] = x]
          /\ UNCHANGED <<row, blogCount>>
        BY <1>8, IdleStep DEF CronPublishFails, Take, dbVars
    <2>2. d \in Due /\ d.seen \in Row /\ d.seen.status = "scheduled"
        BY DEF TypeOK, Due, TaskShape
    <2>3. x.step = "catch" /\ x.seen = d.seen
        BY <2>2, CronTaskFields
    <2>4. ~Owes(task[w]) /\ ~Owes(x)
        BY <2>1, <2>2, <2>3 DEF Owes
    <2> HIDE DEF x
    <2> QED
        BY <1>1, <2>1, <2>4, BalanceTask
<1> QED
    BY <1>2, <1>3, <1>4, <1>5, <1>6, <1>7, <1>8 DEF Cron

\* A request that passes its checks owes nothing yet.
LEMMA ExactStart ==
    ASSUME TypeOK, NEW c \in Clients, NEW t \in Tags, Exact(t),
           StartUpdate(c) \/ StartSchedule(c) \/ StartOther(c)
    PROVE  Exact(t)'
<1>1. PICK op, b, T, at : Start(c, op, b, T, at)
    BY DEF StartUpdate, StartSchedule, StartOther
<1> DEFINE x == [op |-> op, step |-> "write", blog |-> b, seen |-> row[b], tags |-> T, at |-> at]
<1>2. /\ task[c].step = "idle" /\ x.step = "write" /\ task' = [task EXCEPT ![c] = x]
      /\ UNCHANGED <<row, blogCount>> /\ c \in Tasks
    BY <1>1, IdleStep DEF Start, dbVars, Tasks
<1>3. ~Owes(task[c]) /\ ~Owes(x)
    BY <1>2, NothingOwed
<1> HIDE DEF x
<1> QED
    BY <1>2, <1>3, BalanceTask

\* A crash that loses no count finds no task owing one.
LEMMA ExactCrash ==
    ASSUME NEW t \in Tags, Exact(t), Crash, anomalies' = {}
    PROVE  Exact(t)'
<1>1. \A k \in Tasks : /\ Owes(task[k]) => task[k].tags = {}
                       /\ task'[k] = Idle
    BY DEF Crash, Blame
<1>2. /\ Increments(t) = {} /\ Decrements(t) = {}
      /\ Increments(t)' = {} /\ Decrements(t)' = {}
    BY <1>1, NothingOwed, IdleStep DEF Increments, Decrements, Adds, Takes
<1>3. UNCHANGED <<row, blogCount>>
    BY DEF Crash, dbVars
<1> QED
    BY <1>2, <1>3 DEF Exact, Settled, Carriers

\* No step clears an anomaly: what is clean after it was clean before.
LEMMA AnomaliesStay ==
    ASSUME TypeOK, [Next]_vars, anomalies' = {}
    PROVE  anomalies = {}
<1>1. ASSUME NEW c \in Clients, Request(c) PROVE anomalies = {}
    BY <1>1, RequestStep
<1>2. ASSUME NEW w \in Workers, Cron(w) PROVE anomalies = {}
    BY <1>2 DEF Cron, CronRead, CronCount, CronCountFails, CronMarkFailed, CronMarkFailedFails,
                CronPublish, CronPublishFails, WriteRow, Blame
<1>3. CASE UNCHANGED vars
    BY <1>3 DEF vars
<1>4. CASE Crash
    BY <1>4 DEF Crash, Blame
<1> QED
    BY <1>1, <1>2, <1>3, <1>4
       DEF Next, Create, StartUpdate, StartSchedule, StartOther, Start, Emit, Tick

\* Every step that leaves no anomaly behind keeps the counters exact.
LEMMA CountStep ==
    TypeOK /\ TaskShape /\ CronTags /\ TagCountExact /\ [Next]_vars => TagCountExact'
<1> SUFFICES ASSUME TypeOK, TaskShape, CronTags, TagCountExact, [Next]_vars,
                    anomalies' = {}, NEW t \in Tags
             PROVE  Exact(t)'
    BY DEF TagCountExact, Exact, Settled, Carriers
<1>1. Exact(t)
    BY AnomaliesStay DEF TagCountExact, Exact
<1>2. ASSUME NEW b \in Blogs, NEW T \in SUBSET Tags, Create(b, T) PROVE Exact(t)'
    <2>1. /\ row[b].status = "absent" /\ row' = [row EXCEPT ![b] = Draft(T)]
          /\ UNCHANGED <<task, blogCount>>
        BY <1>2 DEF Create
    <2>2. row \in [Blogs -> Row] /\ Draft(T).status = "draft"
        BY TagWrites, RowAssumption DEF TypeOK, Draft, NoRow
    <2>3. \A a \in Blogs : Shows(row'[a], t) = Shows(row[a], t)
        BY <2>1, <2>2 DEF Shows
    <2> QED
        BY <1>1, <2>1, <2>3, BalanceStill
<1>3. CASE (\E b \in Blogs : Emit(b)) \/ Tick \/ UNCHANGED vars
    BY <1>1, <1>3, BalanceStill DEF Emit, Tick, vars, dbVars
<1> QED
    BY <1>1, <1>2, <1>3, ExactStart, ExactRequest, ExactCron, ExactCrash DEF Next

\* No blog and no count: they agree.
LEMMA CountInit == Init => TagCountExact
<1> SUFFICES ASSUME Init, NEW t \in Tags
             PROVE  Settled(t) = Cardinality(Carriers(row, t))
    BY DEF TagCountExact
<1>1. Carriers(row, t) = {}
    BY NoRowFields DEF Init, Carriers, Shows
<1>2. Increments(t) = {} /\ Decrements(t) = {}
    BY NothingOwed, IdleStep DEF Init, Increments, Decrements
<1>3. blogCount[t] = 0
    BY DEF Init
<1> QED
    BY <1>1, <1>2, <1>3, FS_EmptySet DEF Settled

\* The counters of the tags (publish, archive, unarchive, the scheduler and
\* its catch block between them) are exact until the first anomaly, for any
\* number of blogs, tags, requests and cron runs and any interleaving.
THEOREM CountsExact == Spec => []TagCountExact
<1> DEFINE IInv == TypeOK /\ TaskShape /\ CronTags /\ TagCountExact
<1>1. Init => IInv
    BY TypeInit, ShapeInit, CountInit
<1>2. IInv /\ [Next]_vars => IInv'
    BY TypeStep, ShapeStep, CountStep
<1>3. IInv => TagCountExact
    OBVIOUS
<1> QED
    BY <1>1, <1>2, <1>3, PTL DEF Spec

-----------------------------------------------------------------------------
(* The dates of a blog *)

\* What may become of a row r that a handler overwrites by s.
Sound(r, s) == \/ s.status = "deleted"
               \/ /\ s.status \in BlogStatus
                  /\ r.publishedAt # NoDate \/ s.status = "published" => s.publishedAt # NoDate
                  /\ s.status = "scheduled" => s.scheduledAt # NoDate

\* What a step may make of blog b.
RowChange(b) ==
    \/ /\ row'[b].status = row[b].status
       /\ row'[b].publishedAt = row[b].publishedAt
       /\ row'[b].scheduledAt = row[b].scheduledAt
    \/ row[b].status = "absent" /\ row'[b].status = "draft"
    \/ Exists(row[b]) /\ Sound(row[b], row'[b])

\* A schedule request knows the date it was asked for.
ScheduledAhead == \A c \in Clients : At(c, "schedule", "write") => task[c].at # NoDate

\* The write of a task k is sound.
LEMMA WriteRowChange ==
    ASSUME TypeOK, NEW k, NEW b \in Blogs, NEW seen, NEW new, NEW next,
           WriteRow(k, b, seen, new, next), Sound(row[b], new)
    PROVE  \A a \in Blogs : RowChange(a)
BY DEF TypeOK, WriteRow, RowChange

\* The writes of the handlers are sound.
LEMMA SoundWrites ==
    ASSUME NEW r \in Row, NEW at \in Dates \ {NoDate}
    PROVE  /\ Sound(r, Published(r, at)) /\ Sound(r, Scheduled(r, at))
           /\ Sound(r, Archived(r)) /\ Sound(r, Restored(r, at))
           /\ Sound(r, PublishFailed(r)) /\ Sound(r, NoRow("deleted"))
BY RowWrites, NoRowFields DEF Sound, BlogStatus

\* Every step writes rows that are sound.
LEMMA RowStep ==
    ASSUME TypeOK, ScheduledAhead, [Next]_vars, NEW a \in Blogs
    PROVE  RowChange(a)
<1>1. /\ now \in Dates \ {NoDate} /\ NoDate \in Dates
      /\ Clients \subseteq Tasks /\ Workers \subseteq Tasks
    BY RowAssumption DEF TypeOK, Dates, Tasks
<1>2. ASSUME UNCHANGED row
      PROVE  RowChange(a)
    BY <1>2 DEF RowChange
<1>3. ASSUME NEW b \in Blogs, NEW T \in SUBSET Tags, Create(b, T) PROVE RowChange(a)
    BY <1>3, TagWrites DEF Create, TypeOK, RowChange
<1>4. ASSUME NEW c \in Clients, PublishWrite(c) PROVE RowChange(a)
    <2>1. task[c].blog \in Blogs /\ row[task[c].blog] \in Row
        BY <1>1, <1>4, Busy DEF PublishWrite, At
    <2> QED
        BY <1>1, <1>4, <2>1, SoundWrites, WriteRowChange DEF PublishWrite
<1>5. ASSUME NEW c \in Clients, ScheduleWrite(c) PROVE RowChange(a)
    <2>1. task[c].blog \in Blogs /\ row[task[c].blog] \in Row /\ task[c].at \in Dates \ {NoDate}
        BY <1>1, <1>5, Busy DEF ScheduleWrite, At, ScheduledAhead
    <2> QED
        BY <1>5, <2>1, SoundWrites, WriteRowChange DEF ScheduleWrite
<1>6. ASSUME NEW c \in Clients, ArchiveWrite(c) PROVE RowChange(a)
    <2>1. task[c].blog \in Blogs /\ row[task[c].blog] \in Row
        BY <1>1, <1>6, Busy DEF ArchiveWrite, At
    <2>2. Sound(row[task[c].blog], Archived(row[task[c].blog]))
        BY <1>1, <2>1, SoundWrites
    <2> QED
        BY <1>6, <2>1, <2>2, WriteRowChange DEF ArchiveWrite
<1>7. ASSUME NEW c \in Clients, UnarchiveWrite(c) PROVE RowChange(a)
    <2> DEFINE first == task[c].seen.publishedAt
               at == IF first = NoDate THEN now ELSE first
    <2>1. task[c].blog \in Blogs /\ row[task[c].blog] \in Row /\ task[c].seen \in Row
        BY <1>1, <1>7, Busy DEF UnarchiveWrite, At
    <2>2. at \in Dates \ {NoDate}
        BY <1>1, <2>1 DEF Row
    <2>3. Sound(row[task[c].blog], Restored(row[task[c].blog], at))
        BY <2>1, <2>2, SoundWrites
    <2> QED
        BY <1>7, <2>1, <2>3, WriteRowChange DEF UnarchiveWrite
<1>8. ASSUME NEW c \in Clients, DeleteWrite(c) PROVE RowChange(a)
    <2>1. task[c].blog \in Blogs /\ row[task[c].blog] \in Row
        BY <1>1, <1>8, Busy DEF DeleteWrite, At
    <2>2. Sound(row[task[c].blog], NoRow("deleted"))
        BY <1>1, <2>1, SoundWrites
    <2> QED
        BY <1>8, <2>1, <2>2, WriteRowChange DEF DeleteWrite
<1>9. ASSUME NEW c \in Clients, UpdateWrite(c) PROVE RowChange(a)
    <2>1. task[c].blog \in Blogs /\ row[task[c].blog] \in Row /\ task[c].tags \in SUBSET Tags
        BY <1>1, <1>9, Busy DEF UpdateWrite, At
    <2> QED
        BY <1>9, <2>1, TagWrites DEF UpdateWrite, TypeOK, RowChange
<1>10. ASSUME NEW w \in Workers, NEW d \in batch[w], CronPublish(w, d) PROVE RowChange(a)
    <2>1. d.blog \in Blogs /\ row[d.blog] \in Row
        BY DEF TypeOK, Due
    <2>2. Sound(row[d.blog], Published(row[d.blog], now))
        BY <1>1, <2>1, SoundWrites
    <2> QED
        BY <1>10, <2>1, <2>2, WriteRowChange DEF CronPublish
<1>11. ASSUME NEW w \in Workers, CronMarkFailed(w) PROVE RowChange(a)
    <2>1. task[w].blog \in Blogs /\ row[task[w].blog] \in Row
        BY <1>1, <1>11, Busy DEF CronMarkFailed, At
    <2>2. Sound(row[task[w].blog], PublishFailed(row[task[w].blog]))
        BY <1>1, <2>1, SoundWrites
    <2> QED
        BY <1>11, <2>1, <2>2, WriteRowChange DEF CronMarkFailed
<1>12. ASSUME NEW c \in Clients, \/ StartUpdate(c) \/ StartSchedule(c) \/ StartOther(c)
                                 \/ WriteFails(c) \/ CountUp(c) \/ CountDown(c) \/ CountFails(c)
       PROVE  RowChange(a)
    BY <1>2, <1>12 DEF StartUpdate, StartSchedule, StartOther, Start, WriteFails, CountUp,
                       CountDown, CountFails, dbVars
<1>13. ASSUME NEW w \in Workers, \/ CronRead(w) \/ CronCount(w) \/ CronCountFails(w)
                                 \/ CronMarkFailedFails(w)
                                 \/ \E d \in batch[w] : CronPublishFails(w, d)
       PROVE  RowChange(a)
    BY <1>2, <1>13 DEF CronRead, CronCount, CronCountFails, CronMarkFailedFails,
                       CronPublishFails, dbVars
<1>14. CASE (\E b \in Blogs : Emit(b)) \/ Crash \/ Tick \/ UNCHANGED vars
    BY <1>2, <1>14 DEF Emit, Crash, Tick, vars, dbVars
<1> QED
    BY <1>3, <1>4, <1>5, <1>6, <1>7, <1>8, <1>9, <1>10, <1>11, <1>12, <1>13, <1>14
       DEF Next, Request, Cron

\* A schedule request keeps its date until it writes it.
LEMMA AheadStep ==
    TypeOK /\ TaskShape /\ ScheduledAhead /\ [Next]_vars => ScheduledAhead'
<1> SUFFICES ASSUME TypeOK, TaskShape, ScheduledAhead, [Next]_vars
             PROVE  ScheduledAhead'
    OBVIOUS
<1> USE DEF At
<1>1. Clients \subseteq Tasks /\ Workers \subseteq Tasks /\ Clients \cap Workers = {}
    BY LifecycleAssumption DEF Tasks
<1>2. ASSUME NEW k \in Tasks, NEW x, task' = [task EXCEPT ![k] = x],
             k \in Workers \/ x.step # "write" \/ x.op # "schedule" \/ x.at # NoDate
      PROVE  ScheduledAhead'
    BY <1>1, <1>2 DEF TypeOK, ScheduledAhead
<1>3. ASSUME NEW c \in Clients, NEW op, NEW b, NEW T, NEW at, Start(c, op, b, T, at),
             op # "schedule" \/ at # NoDate
      PROVE  ScheduledAhead'
    BY <1>1, <1>2, <1>3 DEF Start
<1>4. ASSUME NEW c \in Clients, StartUpdate(c) \/ StartSchedule(c) \/ StartOther(c)
      PROVE  ScheduledAhead'
    <2>1. \A at \in (now + 1)..(MaxTime + 1) : at # NoDate
        BY LifecycleAssumption, RowAssumption DEF TypeOK
    <2> QED
        BY <1>3, <1>4, <2>1 DEF StartUpdate, StartSchedule, StartOther
<1>5. ASSUME NEW c \in Clients, Request(c) PROVE ScheduledAhead'
    <2>1. PICK x : task' = [task EXCEPT ![c] = x] /\ (x = Idle \/ x.step = "count")
        BY <1>5, RequestStep
    <2> QED
        BY <1>1, <1>2, <2>1 DEF Idle
<1>6. ASSUME NEW w \in Workers, Cron(w) PROVE ScheduledAhead'
    <2>1. UNCHANGED task \/ \E x : task' = [task EXCEPT ![w] = x]
        BY <1>6 DEF Cron, CronRead, CronCount, CronCountFails, CronMarkFailed,
                    CronMarkFailedFails, CronPublish, CronPublishFails, WriteRow
    <2> QED
        BY <1>1, <1>2, <2>1 DEF ScheduledAhead
<1>7. CASE Crash
    BY <1>1, <1>7 DEF Crash, ScheduledAhead, Idle
<1>8. ASSUME UNCHANGED task PROVE ScheduledAhead'
    BY <1>8 DEF ScheduledAhead
<1> QED
    BY <1>4, <1>5, <1>6, <1>7, <1>8 DEF Next, Create, Emit, Tick, vars

\* What every row and every request knows of dates.
DatesInv == TypeOK /\ TaskShape /\ CronTags /\ ScheduledAhead /\ DatesMatchStatus

\* A draft carries no date.
LEMMA DatesInit == Init => DatesInv
<1> SUFFICES ASSUME Init
             PROVE  ScheduledAhead /\ DatesMatchStatus
    BY TypeInit, ShapeInit DEF DatesInv
<1>1. ScheduledAhead
    BY DEF Init, ScheduledAhead, At, Idle, Tasks
<1>2. DatesMatchStatus
    BY NoRowFields DEF Init, DatesMatchStatus
<1> QED
    BY <1>1, <1>2

\* Every step preserves the dates.
LEMMA DatesStep == DatesInv /\ [Next]_vars => DatesInv'
<1> SUFFICES ASSUME DatesInv, [Next]_vars
             PROVE  DatesMatchStatus'
    BY TypeStep, ShapeStep, AheadStep DEF DatesInv
<1>1. \A b \in Blogs : RowChange(b)
    BY RowStep DEF DatesInv
<1> QED
    BY <1>1 DEF DatesInv, DatesMatchStatus, RowChange, Sound

\* Whatever is written from whatever copy of a row, a published blog has the
\* date readers order it by, and a scheduled one that the cron job needs.
THEOREM DatesAreThere == Spec => []DatesMatchStatus
<1>1. DatesInv => DatesMatchStatus
    BY DEF DatesInv
<1> QED
    BY <1>1, DatesInit, DatesStep, PTL DEF Spec

-----------------------------------------------------------------------------
(* The announcements of a blog *)

\* A blog that was published at some time, unless it never existed.
Dated(b) == row[b].status = "deleted" \/ row[b].publishedAt # NoDate

\* A task between the publication it wrote and its announcement.
Publishing(x, b) == x.step = "count" /\ x.op \in {"publish", "cron"} /\ x.blog = b

Announcing(b) == \/ announced[b] + toEmit[b] > 0
                 \/ \E k \in Tasks : Publishing(task[k], b)

AnnounceInv ==
    /\ DatesInv
    /\ \A b \in Blogs : row[b].status = "absent" => row[b].publishedAt = NoDate
    /\ \A b \in Blogs : Announcing(b) => Dated(b)

\* A publication stays, and nothing becomes absent.
LEMMA DatedStays ==
    ASSUME AnnounceInv, [Next]_vars, NEW b \in Blogs
    PROVE  /\ Dated(b) => Dated(b)'
           /\ row'[b].status = "absent" => row'[b].publishedAt = NoDate
<1>1. RowChange(b)
    BY RowStep DEF AnnounceInv, DatesInv
<1> QED
    BY <1>1 DEF AnnounceInv, RowChange, Sound, Exists, BlogStatus, Dated

\* A step of task k that announces nothing yet.
LEMMA QuietTask ==
    ASSUME TypeOK, NEW k \in Tasks, NEW x, task' = [task EXCEPT ![k] = x],
           UNCHANGED <<announced, toEmit>>, NEW b \in Blogs, ~Publishing(x, b), Announcing(b)'
    PROVE  Announcing(b)
BY DEF TypeOK, Announcing, Publishing

\* Whoever comes to announce a blog has published it.
LEMMA AnnouncingStep ==
    ASSUME AnnounceInv, [Next]_vars, NEW b \in Blogs, Announcing(b)'
    PROVE  Announcing(b) \/ Dated(b)'
<1>0. /\ Clients \subseteq Tasks /\ Workers \subseteq Tasks /\ TypeOK /\ TaskShape
      /\ now \in Dates \ {NoDate}
    BY RowAssumption DEF Tasks, AnnounceInv, DatesInv, TypeOK, Dates
<1>1. ASSUME UNCHANGED <<task, announced, toEmit>> PROVE Announcing(b)
    BY <1>1 DEF Announcing
<1>2. ASSUME NEW k \in Tasks, NEW x, task' = [task EXCEPT ![k] = x],
             UNCHANGED <<announced, toEmit>>,
             x = Idle \/ x.step # "count" \/ x.op \notin {"publish", "cron"}
      PROVE  Announcing(b)
    <2>1. ~Publishing(x, b)
        BY <1>2 DEF Publishing, Idle
    <2> QED
        BY <1>0, <1>2, <2>1, QuietTask
<1>3. ASSUME NEW c \in Clients, StartUpdate(c) \/ StartSchedule(c) \/ StartOther(c)
      PROVE  Announcing(b)
    <2>1. PICK op, a, T, at : Start(c, op, a, T, at)
        BY <1>3 DEF StartUpdate, StartSchedule, StartOther
    <2> QED
        BY <1>0, <1>2, <2>1 DEF Start
<1>4. ASSUME NEW c \in Clients, PublishWrite(c) PROVE Announcing(b) \/ Dated(b)'
    <2> DEFINE a == task[c].blog
               r == Published(row[a], now)
               x == Counting(c, r, r.tags)
    <2>1. task[c] \in Task /\ a \in Blogs /\ row[a] \in Row
        BY <1>0, <1>4, Busy DEF PublishWrite, At
    <2>2. x.blog = a /\ r.publishedAt # NoDate
        BY <1>0, <2>1, RowWrites DEF Counting, Task
    <2>3. task' = [task EXCEPT ![c] = x] /\ row'[a] = r /\ UNCHANGED <<announced, toEmit>>
        BY <1>4, <2>1 DEF PublishWrite, WriteRow, TypeOK, AnnounceInv, DatesInv
    <2> HIDE DEF x, r
    <2> QED
        BY <1>0, <2>2, <2>3, QuietTask DEF Publishing, Dated
<1>5. ASSUME NEW c \in Clients, ScheduleWrite(c) \/ DeleteWrite(c) \/ UpdateWrite(c)
                                \/ WriteFails(c) \/ CountDown(c) \/ CountFails(c)
      PROVE  Announcing(b)
    <2>1. task' = [task EXCEPT ![c] = Idle] /\ UNCHANGED <<announced, toEmit>>
        BY <1>5 DEF ScheduleWrite, DeleteWrite, UpdateWrite, WriteFails, CountDown, CountFails,
                    WriteRow
    <2> QED
        BY <1>0, <1>2, <2>1
<1>6. ASSUME NEW c \in Clients, ArchiveWrite(c) \/ UnarchiveWrite(c)
      PROVE  Announcing(b)
    <2>1. task[c] \in Task /\ task[c].op \in {"archive", "unarchive"}
        BY <1>0, <1>6, Busy DEF ArchiveWrite, UnarchiveWrite, At
    <2>2. \A r, T : Counting(c, r, T).op = task[c].op
        BY <2>1 DEF Counting, Task
    <2>3. /\ UNCHANGED <<announced, toEmit>>
          /\ \E x : task' = [task EXCEPT ![c] = x] /\ (x = Idle \/ x.op = task[c].op)
        BY <1>6, <2>2 DEF ArchiveWrite, UnarchiveWrite, WriteRow
    <2> QED
        BY <1>0, <1>2, <2>1, <2>3
<1>7. ASSUME NEW k \in Tasks, task' = [task EXCEPT ![k] = Idle], UNCHANGED announced,
             task[k].step = "count",
             \/ UNCHANGED toEmit
             \/ task[k].op \in {"publish", "cron"} /\ Defer(task[k].blog)
      PROVE  Announcing(b)
    <2>1. CASE UNCHANGED toEmit
        BY <1>2, <1>7, <2>1
    <2>2. CASE b = task[k].blog /\ task[k].op \in {"publish", "cron"}
        BY <1>7, <2>2 DEF Announcing, Publishing
    <2>3. CASE b # task[k].blog /\ Defer(task[k].blog)
        <3>1. toEmit'[b] = toEmit[b]
            BY <1>0, <2>3 DEF Defer, TypeOK
        <3> QED
            BY <1>0, <1>7, <3>1 DEF TypeOK, Announcing, Publishing, Idle
    <2> QED
        BY <1>7, <2>1, <2>2, <2>3
<1>8. ASSUME NEW c \in Clients, CountUp(c) PROVE Announcing(b)
    BY <1>0, <1>7, <1>8 DEF CountUp, At
<1>9. ASSUME NEW w \in Workers, CronRead(w) PROVE Announcing(b)
    BY <1>1, <1>9 DEF CronRead
<1>10. ASSUME NEW w \in Workers, CronCount(w) PROVE Announcing(b)
    BY <1>0, <1>7, <1>10 DEF CronCount, At
<1>11. ASSUME NEW w \in Workers, CronCountFails(w) PROVE Announcing(b)
    <2>1. task[w] \in Task
        BY <1>0, <1>11, Busy DEF CronCountFails, At
    <2>2. [task[w] EXCEPT !.step = "catch"].step = "catch"
        BY <2>1 DEF Task
    <2> QED
        BY <1>0, <1>2, <1>11, <2>2 DEF CronCountFails
<1>12. ASSUME NEW w \in Workers, CronMarkFailed(w) \/ CronMarkFailedFails(w)
       PROVE  Announcing(b)
    <2>1. task' = [task EXCEPT ![w] = Idle] /\ UNCHANGED <<announced, toEmit>>
        BY <1>12 DEF CronMarkFailed, CronMarkFailedFails, WriteRow
    <2> QED
        BY <1>0, <1>2, <2>1
<1>13. ASSUME NEW w \in Workers, NEW d \in batch[w], CronPublishFails(w, d)
       PROVE  Announcing(b)
    BY <1>0, <1>2, <1>13 DEF CronPublishFails, CronTask
<1>14. ASSUME NEW w \in Workers, NEW d \in batch[w], CronPublish(w, d)
       PROVE  Announcing(b) \/ Dated(b)'
    <2> DEFINE r == Published(row[d.blog], now)
               x == CronTask(d, "count", r)
    <2>1. d.blog \in Blogs /\ row[d.blog] \in Row
        BY DEF TypeOK, Due, AnnounceInv, DatesInv
    <2>2. x.blog = d.blog /\ r.publishedAt # NoDate
        BY <1>0, <2>1, RowWrites DEF CronTask
    <2>3. task' = [task EXCEPT ![w] = x] /\ row'[d.blog] = r /\ UNCHANGED <<announced, toEmit>>
        BY <1>14, <2>1 DEF CronPublish, WriteRow, TypeOK, AnnounceInv, DatesInv
    <2> HIDE DEF x, r
    <2> QED
        BY <1>0, <2>2, <2>3, QuietTask DEF Publishing, Dated
<1>15. ASSUME NEW a \in Blogs, Emit(a) PROVE Announcing(b)
    <2>1. announced'[b] + toEmit'[b] > 0 => announced[b] + toEmit[b] > 0
        BY <1>0, <1>15 DEF Emit, TypeOK
    <2> QED
        BY <1>15, <2>1 DEF Emit, Announcing
<1>16. CASE Crash
    <2>1. announced'[b] + toEmit'[b] > 0 => announced[b] + toEmit[b] > 0
        BY <1>0, <1>16 DEF Crash, TypeOK
    <2>2. ~\E k \in Tasks : Publishing(task'[k], b)
        BY <1>16 DEF Crash, Publishing, Idle
    <2> QED
        BY <2>1, <2>2 DEF Announcing
<1>17. CASE (\E a \in Blogs, T \in SUBSET Tags : Create(a, T)) \/ Tick \/ UNCHANGED vars
    BY <1>1, <1>17 DEF Create, Tick, vars
<1> QED
    BY <1>3, <1>4, <1>5, <1>6, <1>8, <1>9, <1>10, <1>11, <1>12, <1>13, <1>14, <1>15,
       <1>16, <1>17 DEF Next, Request, Cron

\* Every step preserves that what is announced was published.
LEMMA AnnounceStep == AnnounceInv /\ [Next]_vars => AnnounceInv'
<1> SUFFICES ASSUME AnnounceInv, [Next]_vars
             PROVE  /\ \A b \in Blogs : row'[b].status = "absent" => row'[b].publishedAt = NoDate
                    /\ \A b \in Blogs : Announcing(b)' => Dated(b)'
    BY DatesStep DEF AnnounceInv
<1> QED
    BY AnnouncingStep, DatedStays DEF AnnounceInv

\* Nothing is announced at the start.
LEMMA AnnounceInit == Init => AnnounceInv
<1> SUFFICES ASSUME Init, NEW b \in Blogs
             PROVE  (row[b].status = "absent" => row[b].publishedAt = NoDate) /\ ~Announcing(b)
    BY DatesInit DEF AnnounceInv
<1> QED
    BY DEF Init, NoRow, Announcing, Publishing, Idle

\* No event runs ahead of its row: whoever is told of a publication by a
\* request or by the cron job is told of one that was committed.
THEOREM AnnouncedAfterCommit == Spec => []AnnouncedWasPublished
<1>1. AnnounceInv => AnnouncedWasPublished
    BY DEF AnnounceInv, Announcing, Dated, AnnouncedWasPublished
<1> QED
    BY <1>1, AnnounceInit, AnnounceStep, PTL DEF Spec
=============================================================================
