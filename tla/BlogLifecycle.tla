---------------------------- MODULE BlogLifecycle ----------------------------
(***************************************************************************)
(* The life of blogs: BlogsService's handlers, the scheduler's cron job    *)
(* and the tag counters both maintain.                                     *)
(*                                                                         *)
(* A handler reads the row, checks it, and then awaits one or two more     *)
(* database statements.  Each statement is atomic; nothing is locked       *)
(* between them, so every task (an HTTP request or a run of the cron job)  *)
(* decides on a copy of the row, kept here in its field "seen", that may   *)
(* be stale when it writes.                                                *)
(***************************************************************************)
EXTENDS BlogRows

CONSTANTS Clients,      \* slots for HTTP requests in progress
          Workers,      \* runs of the cron job in progress: one per instance
                        \* of the server, more if a run outlasts its minute
          Profiled,     \* blogs whose author has an author profile
          MaxTime,      \* bound on the clock
          MaxRequests,  \* bound on the requests that pass their checks
          MaxFaults     \* bound on failing statements and crashes

ASSUME LifecycleAssumption ==
    /\ IsFiniteSet(Clients) /\ IsFiniteSet(Workers)
    /\ Clients \cap Workers = {}
    /\ Profiled \subseteq Blogs
    /\ {MaxTime, MaxRequests, MaxFaults} \subseteq Nat

VARIABLES
    \* the database
    row,        \* [Blogs -> Row]
    blogCount,  \* tags.blogCount
    \* the server processes
    task,       \* what each client's request or worker's run is doing
    batch,      \* the due blogs a cron run has still to publish, as read
    toEmit,     \* setImmediate callbacks waiting, per blog
    announced,  \* BLOG_PUBLISHED events emitted, per blog
    \* the environment
    now, requests, faults,
    \* history: what has gone wrong so far
    anomalies

dbVars  == <<row, blogCount>>
envVars == <<now, requests, faults>>
vars == <<row, blogCount, task, batch, toEmit, announced,
          now, requests, faults, anomalies>>

Tasks == Clients \cup Workers

\* Mutant: every handler accepts every status.
LaxAdmits == [op \in {"update", "delete", "publish", "schedule", "archive",
                      "unarchive"} |-> BlogStatus]

(***************************************************************************)
(* The statuses, as read, from which each handler lets a request pass.     *)
(***************************************************************************)
Admits == [update    |-> BlogStatus,
           delete    |-> {"draft"},
           publish   |-> BlogStatus \ {"published"},
           schedule  |-> BlogStatus \ {"published"},
           archive   |-> BlogStatus \ {"archived", "draft"},
           unarchive |-> {"archived"}]

Operations == DOMAIN Admits

\* A task between two of its statements.  tags: those to count or, in an
\* update, to write; at: the date of a schedule request.
Task == [op : Operations \cup {"cron"}, step : {"write", "count", "catch"},
         blog : Blogs, seen : Row, tags : SUBSET Tags, at : Dates]
Idle == [step |-> "idle"]
Due  == [blog : Blogs, seen : Row]

\* The three ways in which the counters can part from the rows.
Anomaly == {"stale_write",    \* a row had changed since the writer read it
            "live_tag_edit",  \* the tags of a published blog were replaced
            "lost_count"}     \* a status was written, its count never was

TypeOK ==
    /\ row \in [Blogs -> Row]
    /\ blogCount \in [Tags -> Int]
    /\ task \in [Tasks -> Task \cup {Idle}]
    /\ batch \in [Workers -> SUBSET Due]
    /\ toEmit \in [Blogs -> Nat]
    /\ announced \in [Blogs -> Nat]
    /\ now \in Nat /\ requests \in Nat /\ faults \in Nat
    /\ anomalies \in SUBSET Anomaly

Init ==
    /\ row = [b \in Blogs |-> NoRow("absent")]
    /\ blogCount = [t \in Tags |-> 0]
    /\ task = [k \in Tasks |-> Idle]
    /\ batch = [w \in Workers |-> {}]
    /\ toEmit = [b \in Blogs |-> 0]
    /\ announced = [b \in Blogs |-> 0]
    /\ now = 0 /\ requests = 0 /\ faults = 0
    /\ anomalies = {}

-----------------------------------------------------------------------------
(* Steps shared by the handlers *)

At(k, op, step) == task[k].step = step /\ task[k].op = op

Fault == faults < MaxFaults /\ faults' = faults + 1

Blame(why, cond) == anomalies' = IF cond THEN anomalies \cup {why} ELSE anomalies

\* repo.update or repo.delete: overwrite the row whatever it holds by now.
\* Task k goes on as next.
WriteRow(k, b, seen, new, next) ==
    /\ Exists(row[b])
    /\ row' = [row EXCEPT ![b] = new]
    /\ task' = [task EXCEPT ![k] = next]
    /\ Blame("stale_write", row[b] # seen)
    /\ UNCHANGED <<blogCount, toEmit, announced, envVars>>

\* (in|de)crementBlogCountForMany: one updateMany, none for an empty list.
MoveCounts(T, n) ==
    blogCount' = [t \in Tags |-> IF t \in T THEN blogCount[t] + n ELSE blogCount[t]]

\* Handlers that publish hand the event to setImmediate after the count.
Defer(b) == toEmit' = [toEmit EXCEPT ![b] = @ + 1]

-----------------------------------------------------------------------------
(* Requests *)

\* create: the row, its tags and the slug go in with one INSERT.
Create(b, T) ==
    /\ row[b].status = "absent"
    /\ row' = [row EXCEPT ![b] = Draft(T)]
    /\ UNCHANGED <<blogCount, task, batch, toEmit, announced, envVars, anomalies>>

\* findBySlug or getAndAuthorize, then the handler's own status checks.
\* A request that fails them changes nothing and is not modelled.
Start(c, op, b, T, at) ==
    /\ task[c] = Idle
    /\ requests < MaxRequests
    /\ row[b].status \in Admits[op]
    /\ task' = [task EXCEPT ![c] = [op |-> op, step |-> "write", blog |-> b,
                                    seen |-> row[b], tags |-> T, at |-> at]]
    /\ requests' = requests + 1
    /\ UNCHANGED <<dbVars, batch, toEmit, announced, now, faults, anomalies>>

StartUpdate(c)   == \E b \in Blogs, T \in SUBSET Tags : Start(c, "update", b, T, NoDate)
\* ScheduleBlogDto only accepts a date in the future; MaxTime + 1 stands for
\* one that the clock does not reach.
StartSchedule(c) == \E b \in Blogs, at \in (now + 1)..(MaxTime + 1) :
                        Start(c, "schedule", b, {}, at)
StartOther(c)    == \E b \in Blogs, op \in Operations \ {"update", "schedule"} :
                        Start(c, op, b, {}, NoDate)

\* Where a request is once it has written r and has T to count.
Counting(c, r, T) == [task[c] EXCEPT !.step = "count", !.seen = r, !.tags = T]

PublishWrite(c) ==
    LET b == task[c].blog  r == Published(row[b], now)
    IN  /\ At(c, "publish", "write")
        /\ WriteRow(c, b, task[c].seen, r, Counting(c, r, r.tags))
        /\ UNCHANGED batch

ScheduleWrite(c) ==
    LET b == task[c].blog
    IN  /\ At(c, "schedule", "write")
        /\ WriteRow(c, b, task[c].seen, Scheduled(row[b], task[c].at), Idle)
        /\ UNCHANGED batch

\* Mutant: wasPublished is forgotten.
ArchiveAlwaysCounts(c) ==
    LET b == task[c].blog  r == Archived(row[b])
    IN  /\ At(c, "archive", "write")
        /\ WriteRow(c, b, task[c].seen, r, Counting(c, r, r.tags))
        /\ UNCHANGED batch

\* Whether to decrement is decided on the status as read (wasPublished).
ArchiveWrite(c) ==
    LET b == task[c].blog  r == Archived(row[b])
    IN  /\ At(c, "archive", "write")
        /\ WriteRow(c, b, task[c].seen, r,
                    IF task[c].seen.status = "published"
                    THEN Counting(c, r, r.tags) ELSE Idle)
        /\ UNCHANGED batch

\* publishedAt: blog.publishedAt ?? new Date(), of the row as read.
UnarchiveWrite(c) ==
    LET b == task[c].blog
        first == task[c].seen.publishedAt
        r == Restored(row[b], IF first = NoDate THEN now ELSE first)
    IN  /\ At(c, "unarchive", "write")
        /\ WriteRow(c, b, task[c].seen, r, Counting(c, r, r.tags))
        /\ UNCHANGED batch

DeleteWrite(c) ==
    /\ At(c, "delete", "write")
    /\ WriteRow(c, task[c].blog, task[c].seen, NoRow("deleted"), Idle)
    /\ UNCHANGED batch

\* replaceTags, then the update of columns that are not modelled.
UpdateWrite(c) ==
    LET b == task[c].blog
    IN  /\ At(c, "update", "write")
        /\ Exists(row[b])
        /\ row' = [row EXCEPT ![b] = Retagged(@, task[c].tags)]
        /\ task' = [task EXCEPT ![c] = Idle]
        /\ Blame("live_tag_edit", row[b].status = "published" /\ row[b].tags # task[c].tags)
        /\ UNCHANGED <<blogCount, batch, toEmit, announced, envVars>>

\* The row is gone (P2025), or the statement fails: an error response.
WriteFails(c) ==
    /\ task[c].step = "write"
    /\ \/ ~Exists(row[task[c].blog]) /\ UNCHANGED faults
       \/ Fault
    /\ task' = [task EXCEPT ![c] = Idle]
    /\ UNCHANGED <<dbVars, batch, toEmit, announced, now, requests, anomalies>>

CountUp(c) ==
    /\ At(c, "publish", "count") \/ At(c, "unarchive", "count")
    /\ MoveCounts(task[c].tags, 1)
    /\ IF task[c].op = "publish" THEN Defer(task[c].blog) ELSE UNCHANGED toEmit
    /\ task' = [task EXCEPT ![c] = Idle]
    /\ UNCHANGED <<row, batch, announced, envVars, anomalies>>

\* Mutant: archiving leaves the counters alone.
CountDownForgotten(c) ==
    /\ At(c, "archive", "count")
    /\ task' = [task EXCEPT ![c] = Idle]
    /\ UNCHANGED <<dbVars, batch, toEmit, announced, envVars, anomalies>>

CountDown(c) ==
    /\ At(c, "archive", "count")
    /\ MoveCounts(task[c].tags, -1)
    /\ task' = [task EXCEPT ![c] = Idle]
    /\ UNCHANGED <<row, batch, toEmit, announced, envVars, anomalies>>

\* The count fails after the status is committed: an error response, no event.
CountFails(c) ==
    /\ task[c].step = "count" /\ task[c].tags # {}
    /\ Fault
    /\ task' = [task EXCEPT ![c] = Idle]
    /\ Blame("lost_count", TRUE)
    /\ UNCHANGED <<dbVars, batch, toEmit, announced, now, requests>>

Request(c) ==
    \/ PublishWrite(c) \/ ScheduleWrite(c) \/ ArchiveWrite(c)
    \/ UnarchiveWrite(c) \/ DeleteWrite(c) \/ UpdateWrite(c)
    \/ WriteFails(c) \/ CountUp(c) \/ CountDown(c) \/ CountFails(c)

-----------------------------------------------------------------------------
(* The cron job publishDueBlogs *)

\* Mutant: the query asks for scheduledAt < now.
CronReadLate(w) ==
    LET due == {b \in Blogs : IsDue(row[b], now) /\ row[b].scheduledAt < now}
    IN  /\ task[w] = Idle /\ batch[w] = {}
        /\ due # {}
        /\ batch' = [batch EXCEPT ![w] = {[blog |-> b, seen |-> row[b]] : b \in due}]
        /\ UNCHANGED <<dbVars, task, toEmit, announced, envVars, anomalies>>

CronRead(w) ==
    LET due == {b \in Blogs : IsDue(row[b], now)}
    IN  /\ task[w] = Idle /\ batch[w] = {}
        /\ due # {}
        /\ batch' = [batch EXCEPT ![w] = {[blog |-> b, seen |-> row[b]] : b \in due}]
        /\ UNCHANGED <<dbVars, task, toEmit, announced, envVars, anomalies>>

\* The loop takes the rows it read in any order (the query has no ORDER BY).
Take(w, d) == /\ task[w] = Idle /\ d \in batch[w]
              /\ batch' = [batch EXCEPT ![w] = @ \ {d}]

\* The tags to count are those of the row as read, whatever it holds by now.
CronTask(d, step, r) == [op |-> "cron", step |-> step, blog |-> d.blog,
                         seen |-> r, tags |-> d.seen.tags, at |-> NoDate]

\* The status is not checked again.
CronPublish(w, d) ==
    LET r == Published(row[d.blog], now)
    IN  /\ Take(w, d)
        /\ WriteRow(w, d.blog, d.seen, r, CronTask(d, "count", r))

CronPublishFails(w, d) ==
    /\ Take(w, d)
    /\ \/ ~Exists(row[d.blog]) /\ UNCHANGED faults
       \/ Fault
    /\ task' = [task EXCEPT ![w] = CronTask(d, "catch", d.seen)]
    /\ UNCHANGED <<dbVars, toEmit, announced, now, requests, anomalies>>

CronCount(w) ==
    /\ At(w, "cron", "count")
    /\ MoveCounts(task[w].tags, 1)
    /\ Defer(task[w].blog)
    /\ task' = [task EXCEPT ![w] = Idle]
    /\ UNCHANGED <<row, batch, announced, envVars, anomalies>>

CronCountFails(w) ==
    /\ At(w, "cron", "count") /\ task[w].tags # {}
    /\ Fault
    /\ task' = [task EXCEPT ![w].step = "catch"]
    /\ UNCHANGED <<dbVars, batch, toEmit, announced, now, requests, anomalies>>

\* The catch block marks the blog, whichever statement failed.
CronMarkFailed(w) ==
    LET b == task[w].blog
    IN  /\ At(w, "cron", "catch")
        /\ WriteRow(w, b, task[w].seen, PublishFailed(row[b]), Idle)
        /\ UNCHANGED batch

\* An error of the catch block is swallowed.
CronMarkFailedFails(w) ==
    /\ At(w, "cron", "catch")
    /\ \/ ~Exists(row[task[w].blog]) /\ UNCHANGED faults
       \/ Fault
    /\ task' = [task EXCEPT ![w] = Idle]
    /\ Blame("lost_count", task[w].seen.status = "published")
    /\ UNCHANGED <<dbVars, batch, toEmit, announced, now, requests>>

Cron(w) ==
    \/ CronRead(w) \/ CronCount(w) \/ CronCountFails(w)
    \/ CronMarkFailed(w) \/ CronMarkFailedFails(w)
    \/ \E d \in batch[w] : CronPublish(w, d) \/ CronPublishFails(w, d)

-----------------------------------------------------------------------------
(* Events, crashes, time *)

\* Mutant: an event that nothing queued.
EmitUnasked(b) ==
    /\ toEmit' = [toEmit EXCEPT ![b] = @ - 1]
    /\ announced' = [announced EXCEPT ![b] = IF b \in Profiled THEN @ + 1 ELSE @]
    /\ UNCHANGED <<dbVars, task, batch, envVars, anomalies>>

\* The setImmediate callback; emitBlogPublished returns early without a profile.
Emit(b) ==
    /\ toEmit[b] > 0
    /\ toEmit' = [toEmit EXCEPT ![b] = @ - 1]
    /\ announced' = [announced EXCEPT ![b] = IF b \in Profiled THEN @ + 1 ELSE @]
    /\ UNCHANGED <<dbVars, task, batch, envVars, anomalies>>

\* A task that has written a status whose count is still to be written.
Owes(x) == \/ x.step = "count"
           \/ x.step = "catch" /\ x.seen.status = "published"

\* The process dies: whatever was in memory is gone, the rows stay.
Crash ==
    /\ Fault
    /\ task' = [k \in Tasks |-> Idle]
    /\ batch' = [w \in Workers |-> {}]
    /\ toEmit' = [b \in Blogs |-> 0]
    /\ Blame("lost_count", \E k \in Tasks : Owes(task[k]) /\ task[k].tags # {})
    /\ UNCHANGED <<dbVars, announced, now, requests>>

Tick == /\ now < MaxTime
        /\ now' = now + 1
        /\ UNCHANGED <<dbVars, task, batch, toEmit, announced, requests, faults, anomalies>>

Next ==
    \/ \E b \in Blogs, T \in SUBSET Tags : Create(b, T)
    \/ \E c \in Clients : \/ StartUpdate(c) \/ StartSchedule(c) \/ StartOther(c)
                          \/ Request(c)
    \/ \E w \in Workers : Cron(w)
    \/ \E b \in Blogs : Emit(b)
    \/ Crash
    \/ Tick

Spec == Init /\ [][Next]_vars

(***************************************************************************)
(* A server that is up runs the handlers it has started, its immediates    *)
(* and, every minute, the cron job; whether anybody sends a request is     *)
(* left open.                                                              *)
(***************************************************************************)
Fairness == /\ \A c \in Clients : WF_vars(Request(c))
            /\ \A w \in Workers : WF_vars(Cron(w))
            /\ \A b \in Blogs : WF_vars(Emit(b))

FairSpec == Spec /\ Fairness

-----------------------------------------------------------------------------
(* Properties *)

\* The counter updates on their way for tag t.
Adds(x, t)  == Owes(x) /\ x.op # "archive" /\ t \in x.tags
Takes(x, t) == Owes(x) /\ x.op = "archive" /\ t \in x.tags
Increments(t) == {k \in Tasks : Adds(task[k], t)}
Decrements(t) == {k \in Tasks : Takes(task[k], t)}

\* The counter of t once they have landed.
Settled(t) == blogCount[t] + Cardinality(Increments(t)) - Cardinality(Decrements(t))

\* However requests, cron runs, failures and crashes interleave: as long as
\* no row was overwritten from a stale copy, no published blog changed its
\* tags and no count was lost, every tag counts exactly the published blogs
\* that carry it, up to the updates in flight.  (publish, archive, unarchive,
\* the scheduler and its catch block between them.)
TagCountExact ==
    anomalies = {} => \A t \in Tags : Settled(t) = Cardinality(Carriers(row, t))

\* Readers order published blogs by publishedAt and the scheduler finds
\* scheduled ones by scheduledAt: whatever stale write put a blog in one of
\* these statuses, the date is there.
DatesMatchStatus ==
    \A b \in Blogs : /\ row[b].status = "published" => row[b].publishedAt # NoDate
                     /\ row[b].status = "scheduled" => row[b].scheduledAt # NoDate

\* BLOG_PUBLISHED is only ever sent, or about to be sent, for a blog whose
\* publication was committed; the event never runs ahead of the row.
AnnouncedWasPublished ==
    \A b \in Blogs : announced[b] + toEmit[b] > 0 =>
        row[b].status = "deleted" \/ row[b].publishedAt # NoDate

Catalog == INSTANCE BlogCatalog WITH count <- [t \in Tags |-> Settled(t)]

\* Until the first anomaly the handlers are atomic: each write of a row is
\* one operation of the catalog, admissible in the state it finds, with the
\* counters moving along; every other step is invisible.
AtomicUntilAnomaly ==
    Catalog!CatalogInit /\ [][anomalies' # {} \/ Catalog!CatalogNext]_(Catalog!catalogVars)

\* A blog whose time has come does not stay behind: published, given up on,
\* archived or put off, whatever fails and whoever crashes in between.
DueIsHandled ==
    \A b \in Blogs : IsDue(row[b], now) ~> ~IsDue(row[b], now)

\* Once the requests stop, the counters come to rest on the right value,
\* unless an anomaly happened.
CountsConverge ==
    <>[](anomalies = {} =>
            \A t \in Tags : blogCount[t] = Cardinality(Carriers(row, t)))
=============================================================================
