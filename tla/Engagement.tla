----------------------------- MODULE Engagement -----------------------------
(***************************************************************************)
(* EngagementService, AnalyticsService.recordBlogView and the job of       *)
(* EngagementAggregationService, statement by statement.                   *)
(*                                                                         *)
(* A request reads the blog, looks for the row it is about to write or to  *)
(* delete, writes, and announces a like or save to the notifications.  The *)
(* job reads six tables one after the other and writes all counters in one *)
(* transaction.  Nothing is locked between statements.                     *)
(***************************************************************************)
EXTENDS EngagementRows

CONSTANTS Clients,    \* slots for HTTP requests in progress
          Workers,    \* runs of the cron job in progress
          Asked,      \* the operations that clients ask for
          Profiled,   \* the people with an author profile
          Depths,     \* the depths that reading reports name
          MaxTime, MaxRequests, MaxFaults  \* bounds

Operations == {"like", "save", "unlike", "unsave", "share", "view", "read", "moderate"}

ASSUME EngagementAssumption ==
    /\ IsFiniteSet(Clients)
    /\ Asked \subseteq Operations
    /\ Profiled \subseteq People
    /\ Depths \subseteq 0..100
    /\ {MaxTime, MaxRequests, MaxFaults} \subseteq Nat

VARIABLES
    task,      \* what each client's request is doing
    job,       \* what each run of the cron job is doing
    now, requests, faults,
    \* history
    announced, \* how often each reaction was announced
    created,   \* how often its row was created by somebody with a profile
    scrolled,  \* the depth that each session's last report was sent with
    wrote,     \* the depth that its last report to be written was sent with
    ownViews,  \* the blogs whose author's own view was counted
    anomalies  \* what has gone wrong so far

envVars     == <<now, requests, faults>>
historyVars == <<announced, created, scrolled, wrote, ownViews>>
vars == <<rowVars, task, job, envVars, historyVars, anomalies>>

\* Each says that a statement met something other than what its request or
\* its run of the job had read.
Anomaly == {"late",           \* a row was written on a blog that is no longer
                              \* what it was when its request read it
            "parallel_view",  \* a view was written although its reader was
                              \* counted since the request had looked
            "overtaken",      \* a report was written after a deeper, later one
            "lost_report",    \* a report was never written
            "lost_event",     \* a reaction was never announced
            "straddled",      \* a view came between the job's two counts of views
            "stale_counts",   \* the rows that counters were made of had changed
            "overlapping"}    \* the job wrote although another run had meanwhile

Idle == [step |-> "idle"]
Steps == {"look", "write", "announce"}

\* A request notes the status of its blog as it read it, a view also how many
\* views there were when it looked.
Task == [op : {"like", "save", "unlike", "unsave"}, step : Steps, sawStatus : Statuses,
         row : Reactions]
   \cup [op : {"share"}, step : Steps, sawStatus : Statuses, blog : Blogs]
   \cup [op : {"view"}, step : Steps, sawStatus : Statuses, blog : Blogs,
         address : Addresses, session : Sessions \cup {None}, own : BOOLEAN, looked : Nat]
   \cup [op : {"read"}, step : Steps, sawStatus : Statuses, blog : Blogs,
         session : Sessions, report : Report]

\* A run of the job notes the blogs it is about, the figures it has so far, the
\* rows they were made of, and whether another run has written since it began.
TypeOK ==
    /\ RowsTypeOK
    /\ task \in [Clients -> Task \cup {Idle}]
    /\ \A w \in Workers :
          \/ job[w] = Idle
          \/ /\ job[w].batch \subseteq Blogs
             /\ job[w].overlapped \in BOOLEAN
             /\ \E F \in SUBSET Figures : /\ job[w].figures \in [F -> [Blogs -> Nat]]
                                         /\ DOMAIN job[w].rows = F
    /\ {now, requests, faults} \subseteq Nat
    /\ announced \in [Reactions -> Nat] /\ created \in [Reactions -> Nat]
    /\ {scrolled, wrote} \subseteq [Blogs -> [Sessions -> 0..100]]
    /\ ownViews \subseteq Blogs
    /\ anomalies \subseteq Anomaly

Init ==
    /\ RowsInit
    /\ task = [c \in Clients |-> Idle]
    /\ job = [w \in Workers |-> Idle]
    /\ now = 0 /\ requests = 0 /\ faults = 0
    /\ announced = [r \in Reactions |-> 0]
    /\ created = [r \in Reactions |-> 0]
    /\ scrolled = [b \in Blogs |-> [s \in Sessions |-> 0]]
    /\ wrote = [b \in Blogs |-> [s \in Sessions |-> 0]]
    /\ ownViews = {}
    /\ anomalies = {}

-----------------------------------------------------------------------------
At(c, ops, step) == task[c].step = step /\ task[c].op \in ops

Blame(why, cond) == anomalies' = IF cond THEN anomalies \cup {why} ELSE anomalies

Fault == faults < MaxFaults /\ faults' = faults + 1

Counted(op) == op \in Asked /\ requests < MaxRequests /\ requests' = requests + 1

\* Mutant: the status is not looked at.
BeginHidden(c, b, request) ==
    /\ task[c] = Idle
    /\ Counted(request.op)
    /\ status[b] # "gone"
    /\ task' = [task EXCEPT ![c] = request]
    /\ UNCHANGED <<rowVars, job, now, faults, anomalies>>

\* findPublishedBlog lets a request about blog b pass.
Begin(c, b, request) ==
    /\ task[c] = Idle
    /\ Counted(request.op)
    /\ status[b] = "published"
    /\ task' = [task EXCEPT ![c] = request]
    /\ UNCHANGED <<rowVars, job, now, faults, anomalies>>

Goto(c, step) == task' = [task EXCEPT ![c].step = step]
Done(c)       == task' = [task EXCEPT ![c] = Idle]

(* Likes and saves *)

\* Only likes and saves are refused to the author.
MayReact(op, r) == op \in {"like", "save"} => r.person # Author[r.blog]

Kind(op) == IF op \in {"like", "unlike"} THEN "like" ELSE "save"

StartReaction(c) ==
    \E op \in {"like", "save", "unlike", "unsave"}, r \in Reactions :
        /\ r.kind = Kind(op) /\ MayReact(op, r)
        /\ Begin(c, r.blog, [op |-> op, step |-> "look", sawStatus |-> status[r.blog],
                             row |-> r])
        /\ UNCHANGED historyVars

Adds(c) == task[c].op \in {"like", "save"}

LookReaction(c) ==
    /\ At(c, {"like", "save", "unlike", "unsave"}, "look")
    /\ IF Adds(c) <=> task[c].row \notin reactions THEN Goto(c, "write") ELSE Done(c)
    /\ UNCHANGED <<rowVars, job, envVars, historyVars, anomalies>>

\* The unique key, a foreign key or a missing row refuses the statement: the
\* request fails, and nothing has happened.
Refused(c) ==
    /\ task[c].step = "write"
    /\ \/ task[c].op \in {"like", "save"}
          /\ (task[c].row \in reactions \/ status[task[c].row.blog] = "gone")
       \/ task[c].op \in {"unlike", "unsave"} /\ task[c].row \notin reactions
       \/ task[c].op \in {"share", "view", "read"} /\ status[task[c].blog] = "gone"
    /\ Done(c)
    /\ Blame("lost_report", task[c].op = "read")
    /\ UNCHANGED <<rowVars, job, envVars, historyVars>>

\* Mutant: an upsert, which finds the row again and announces it again.
WriteTwice(c) ==
    LET r == task[c].row
    IN  /\ At(c, {"like", "save"}, "write")
        /\ reactions' = reactions \cup {r}
        /\ created' = [created EXCEPT ![r] = @ + (IF r.person \in Profiled /\ r \notin reactions THEN 1 ELSE 0)]
        /\ IF r.person \in Profiled THEN Goto(c, "announce") ELSE Done(c)
        /\ Blame("late", status[r.blog] # task[c].sawStatus)
        /\ UNCHANGED <<status, shares, views, progress, counters, job, envVars,
                       announced, scrolled, wrote, ownViews>>

WriteReaction(c) ==
    LET r == task[c].row
    IN  /\ At(c, {"like", "save"}, "write")
        /\ r \notin reactions /\ status[r.blog] # "gone"
        /\ reactions' = reactions \cup {r}
        /\ created' = [created EXCEPT ![r] = @ + (IF r.person \in Profiled THEN 1 ELSE 0)]
        /\ IF r.person \in Profiled THEN Goto(c, "announce") ELSE Done(c)
        /\ Blame("late", status[r.blog] # task[c].sawStatus)
        /\ UNCHANGED <<status, shares, views, progress, counters, job, envVars,
                       announced, scrolled, wrote, ownViews>>

\* setImmediate, once the count and the profile have been read.
Announce(c) ==
    /\ task[c].step = "announce"
    /\ announced' = [announced EXCEPT ![task[c].row] = @ + 1]
    /\ Done(c)
    /\ UNCHANGED <<rowVars, job, envVars, created, scrolled, wrote, ownViews, anomalies>>

DeleteReaction(c) ==
    LET r == task[c].row
    IN  /\ At(c, {"unlike", "unsave"}, "write")
        /\ r \in reactions
        /\ reactions' = reactions \ {r}
        /\ Done(c)
        /\ Blame("late", status[r.blog] # task[c].sawStatus)
        /\ UNCHANGED <<status, shares, views, progress, counters, job, envVars, historyVars>>

(* Public routes: shares, views, reading reports *)

\* What JwtAuthGuard leaves in the request of a public route, whoever sent it.
\* So nobody is credited with a share, and no share is announced.
Caller(p) == None

StartShare(c) == \E b \in Blogs :
    /\ Begin(c, b, [op |-> "share", step |-> "write", sawStatus |-> status[b], blog |-> b])
    /\ UNCHANGED historyVars

WriteShare(c) ==
    LET b == task[c].blog
    IN  /\ At(c, {"share"}, "write")
        /\ status[b] # "gone"
        /\ shares' = [shares EXCEPT ![b] = @ + 1]
        /\ Done(c)
        /\ Blame("late", status[b] # task[c].sawStatus)
        /\ UNCHANGED <<status, reactions, views, progress, counters, job, envVars, historyVars>>

StartView(c) ==
    \E b \in Blogs, a \in Addresses, s \in Sessions \cup {None}, p \in People \cup {None} :
        /\ Caller(p) # Author[b]
        /\ Begin(c, b, [op |-> "view", step |-> "look", sawStatus |-> status[b], blog |-> b,
                        address |-> a, session |-> s, own |-> p = Author[b], looked |-> 0])
        /\ UNCHANGED historyVars

\* Mutant: nothing is looked for.
LookViewBlind(c) ==
    /\ At(c, {"view"}, "look")
    /\ task' = [task EXCEPT ![c].step = "write", ![c].looked = Len(views[task[c].blog])]
    /\ UNCHANGED <<rowVars, job, envVars, historyVars, anomalies>>

LookView(c) ==
    /\ At(c, {"view"}, "look")
    /\ IF Seen(task[c].blog, task[c].address, task[c].session, now) THEN Done(c)
       ELSE task' = [task EXCEPT ![c].step = "write", ![c].looked = Len(views[task[c].blog])]
    /\ UNCHANGED <<rowVars, job, envVars, historyVars, anomalies>>

\* Between its count of views and its count of addresses.
Counting(w) == job[w] # Idle /\ "views" \in DOMAIN job[w].figures
                             /\ "unique" \notin DOMAIN job[w].figures

WriteView(c) ==
    LET x == task[c]
        b == x.blog
    IN  /\ At(c, {"view"}, "write")
        /\ status[b] # "gone"
        /\ views' = [views EXCEPT ![b] =
              Append(@, [address |-> x.address, session |-> x.session, at |-> now])]
        /\ ownViews' = IF x.own THEN ownViews \cup {b} ELSE ownViews
        /\ Done(c)
        /\ anomalies' = anomalies
             \cup (IF status[b] # x.sawStatus THEN {"late"} ELSE {})
             \cup (IF \E i \in (x.looked + 1)..Len(views[b]) :
                         Covers(views[b][i], x.address, x.session, now)
                   THEN {"parallel_view"} ELSE {})
             \cup (IF \E w \in Workers : Counting(w) THEN {"straddled"} ELSE {})
        /\ UNCHANGED <<status, reactions, shares, progress, counters, job, envVars,
                       announced, created, scrolled, wrote>>

Completed(depth, said) == IF said = None THEN depth >= 80 ELSE said = "yes"

\* A reader reports ever greater depths; not always whether that was the end.
StartRead(c) == \E b \in Blogs, s \in Sessions, d \in Depths, said \in {"yes", "no", None} :
    /\ d >= scrolled[b][s]
    /\ Begin(c, b, [op |-> "read", step |-> "write", sawStatus |-> status[b], blog |-> b,
                    session |-> s,
                    report |-> [depth |-> d, completed |-> Completed(d, said)]])
    /\ scrolled' = [scrolled EXCEPT ![b][s] = d]
    /\ UNCHANGED <<announced, created, wrote, ownViews>>

\* Mutants: the first report stays; completed is not written.
KeepFirst(old, new) == IF old = None THEN new ELSE old
DepthOnly(old, new) == [depth |-> new.depth]

\* What an upsert makes of the row of a session.
Upserted(old, new) == new

WriteReport(c) ==
    LET x   == task[c]
        old == progress[x.blog][x.session]
    IN  /\ At(c, {"read"}, "write")
        /\ status[x.blog] # "gone"
        /\ progress' = [progress EXCEPT ![x.blog][x.session] = Upserted(old, x.report)]
        /\ Done(c)
        /\ anomalies' = anomalies
             \cup (IF status[x.blog] # x.sawStatus THEN {"late"} ELSE {})
             \cup (IF wrote[x.blog][x.session] > x.report.depth THEN {"overtaken"} ELSE {})
        /\ wrote' = [wrote EXCEPT ![x.blog][x.session] = x.report.depth]
        /\ UNCHANGED <<status, reactions, shares, views, counters, job, envVars,
                       announced, created, scrolled, ownViews>>

-----------------------------------------------------------------------------
(* aggregateEngagementCounters *)

StartJob(w) ==
    LET published == {b \in Blogs : status[b] = "published"}
    IN  /\ job[w] = Idle
        /\ published # {}
        /\ job' = [job EXCEPT ![w] = [step |-> "read", batch |-> published,
                                      figures |-> <<>>, rows |-> <<>>, overlapped |-> FALSE]]
        /\ UNCHANGED <<rowVars, task, envVars, historyVars, anomalies>>

\* Five tables in parallel, then the views once more.
MayRead(done, f) == f = "unique" => done = Figures \ {"unique"}

ReadFigure(w) == \E f \in Figures :
    LET done == DOMAIN job[w].figures
    IN  /\ job[w] # Idle /\ f \notin done
        /\ MayRead(done, f)
        /\ job' = [job EXCEPT
              ![w].figures = [g \in done \cup {f} |-> IF g = f THEN [b \in Blogs |-> Figure(f, b)]
                                                       ELSE job[w].figures[g]],
              ![w].rows    = [g \in done \cup {f} |-> IF g = f THEN [b \in Blogs |-> Rows(f, b)]
                                                       ELSE job[w].rows[g]]]
        /\ UNCHANGED <<rowVars, task, envVars, historyVars, anomalies>>

\* Mutant: the two counts of views change places.
Swapped(w) ==
    LET other(f) == CASE f = "views" -> "unique" [] f = "unique" -> "views" [] OTHER -> f
    IN  [b \in job[w].batch |-> [f \in Figures |-> job[w].figures[other(f)][b]]]

Result(w) == [b \in job[w].batch |-> [f \in Figures |-> job[w].figures[f][b]]]
Ready(w)  == job[w] # Idle /\ DOMAIN job[w].figures = Figures

\* Mutant: a row that is there stays.
InsertedOnly(w) == [b \in Blogs |-> IF b \in job[w].batch /\ counters[b] = None
                                    THEN Result(w)[b] ELSE counters[b]]

\* What the upserts leave in the table.
Upserts(w) == [b \in Blogs |-> IF b \in job[w].batch THEN Result(w)[b] ELSE counters[b]]

\* One transaction of upserts: a blog deleted meanwhile makes all of it fail.
WriteCounters(w) ==
    /\ Ready(w)
    /\ \A b \in job[w].batch : status[b] # "gone"
    /\ counters' = Upserts(w)
    /\ job' = [v \in Workers |-> IF v = w \/ job[v] = Idle THEN Idle
                                 ELSE [job[v] EXCEPT !.overlapped = TRUE]]
    /\ anomalies' = anomalies
         \cup (IF job[w].overlapped THEN {"overlapping"} ELSE {})
         \cup (IF \E f \in Figures, b \in job[w].batch : job[w].rows[f][b] # Rows(f, b)
               THEN {"stale_counts"} ELSE {})
    /\ UNCHANGED <<status, reactions, shares, views, progress, task, envVars, historyVars>>

RefusedJob(w) ==
    /\ Ready(w)
    /\ \E b \in job[w].batch : status[b] = "gone"
    /\ job' = [job EXCEPT ![w] = Idle]
    /\ UNCHANGED <<rowVars, task, envVars, historyVars, anomalies>>

-----------------------------------------------------------------------------
(* The rest of the program and the world *)

\* Mutant: archiving a blog drops its counters.
ModerateAndReset(b) ==
    /\ Counted("moderate") /\ status[b] # "gone"
    /\ status' = [status EXCEPT ![b] = IF @ = "hidden" THEN "published" ELSE "hidden"]
    /\ counters' = [counters EXCEPT ![b] = None]
    /\ UNCHANGED <<reactions, shares, views, progress, task, job, now, faults,
                   historyVars, anomalies>>

\* Authors and editors publish, archive and delete (BlogLifecycle).
Moderate(b) ==
    /\ Counted("moderate") /\ status[b] # "gone"
    /\ \/ /\ status' = [status EXCEPT ![b] = IF @ = "hidden" THEN "published" ELSE "hidden"]
          /\ UNCHANGED <<reactions, shares, views, progress, counters>>
       \/ status[b] = "hidden" /\ Erased(b)
    /\ UNCHANGED <<task, job, now, faults, historyVars, anomalies>>

\* What is lost with a request that does not finish.
Lost(x) == CASE x.step = "announce" -> {"lost_event"}
             [] x.step = "write" /\ x.op = "read" -> {"lost_report"}
             [] OTHER -> {}

\* A statement is rejected: an error response, or an unhandled rejection of
\* the job; what was written stays.
Fails(c) ==
    /\ task[c] # Idle
    /\ Fault /\ Done(c)
    /\ anomalies' = anomalies \cup Lost(task[c])
    /\ UNCHANGED <<rowVars, job, now, requests, historyVars>>

JobFails(w) ==
    /\ job[w] # Idle
    /\ Fault
    /\ job' = [job EXCEPT ![w] = Idle]
    /\ UNCHANGED <<rowVars, task, now, requests, historyVars, anomalies>>

Crash ==
    /\ Fault
    /\ task' = [c \in Clients |-> Idle]
    /\ job' = [w \in Workers |-> Idle]
    /\ anomalies' = anomalies \cup UNION {Lost(task[c]) : c \in Clients}
    /\ UNCHANGED <<rowVars, now, requests, historyVars>>

Tick ==
    /\ now < MaxTime
    /\ now' = now + 1
    /\ UNCHANGED <<rowVars, task, job, requests, faults, historyVars, anomalies>>

Handle(c) ==
    \/ LookReaction(c) \/ WriteReaction(c) \/ Announce(c) \/ DeleteReaction(c)
    \/ WriteShare(c) \/ LookView(c) \/ WriteView(c) \/ WriteReport(c) \/ Refused(c)

Aggregate(w) == StartJob(w) \/ ReadFigure(w) \/ WriteCounters(w) \/ RefusedJob(w)

Next ==
    \/ \E c \in Clients :
          StartReaction(c) \/ StartShare(c) \/ StartView(c) \/ StartRead(c)
             \/ Handle(c) \/ Fails(c)
    \/ \E w \in Workers : Aggregate(w) \/ JobFails(w)
    \/ \E b \in Blogs : Moderate(b)
    \/ Crash
    \/ Tick

Spec == Init /\ [][Next]_vars

\* A statement that was sent is answered; the cron job is started again and
\* again.
FairSpec == /\ Spec
            /\ \A c \in Clients : WF_vars(Handle(c))
            /\ \A w \in Workers : WF_vars(Aggregate(w))

-----------------------------------------------------------------------------
(* Properties *)

Without(why) == anomalies \cap why = {}

Ledger == INSTANCE EngagementLedger

\* The handlers and the job amount to the atomic ledger until a statement meets
\* something other than what its request or its run had read.
AtomicUntilAnomaly ==
    Ledger!LedgerInit /\ [][anomalies' # {} \/ Ledger!LedgerNext]_(Ledger!ledgerVars)

\* recordBlogView: a session is counted once, and a view without one is not
\* counted when its address was within the window, unless it was counted
\* after the request had looked.
OneViewPerReader ==
    Without({"parallel_view"}) =>
        \A b \in Blogs : \A j \in DOMAIN views[b] : \A i \in 1..(j - 1) :
            LET old == views[b][i]
                new == views[b][j]
            IN  IF new.session # None THEN old.session # new.session
                ELSE old.address = new.address => new.at - old.at > Window

\* Every like and save of somebody with a profile is announced exactly once,
\* or about to be, however often it is taken back and given again, unless the
\* request failed after it wrote.
AnnouncedOnce ==
    Without({"lost_event"}) =>
        \A r \in Reactions :
            created[r] = announced[r]
                + Cardinality({c \in Clients : task[c].step = "announce" /\ task[c].row = r})

\* upsertReadSession: once no report is under way, the depth on record is the
\* one a session reached, unless a report was overtaken by a deeper one or lost.
ProgressIsDepthReached ==
    Without({"overtaken", "lost_report"}) =>
        \A b \in Blogs, s \in Sessions :
            \/ status[b] = "gone" \/ progress[b][s] = None
            \/ progress[b][s].depth = scrolled[b][s]
            \/ \E c \in Clients : At(c, {"read"}, "write") /\ task[c].blog = b
                                                            /\ task[c].session = s

\* A summary never shows more unique than total views, whatever runs of the job
\* overlap, unless a view came between a run's two counts.
UniqueWithinTotal ==
    Without({"straddled"}) => \A b \in Blogs : Shown(b)["unique"] <= Shown(b)["views"]

\* A blog that stays never loses views in its summary but to a run of the job
\* that another run overtook.
CountsOnlyGrow ==
    [][\A b \in Blogs : status'[b] # "gone" /\ Shown(b)'["views"] < Shown(b)["views"]
                           => "overlapping" \in anomalies']_vars

\* After the last request the summary of every published blog becomes right
\* and stays so, whatever failed before: the job starts over from the tables.
CountersConverge ==
    <>[](\A b \in Blogs : status[b] = "published" => Shown(b) = Right(b))

-----------------------------------------------------------------------------
(* What a comment says and the code does not do; see the findings. *)

\* analytics.service.ts: "Authors do not inflate their own view counts."
AuthorsNotCounted == ownViews = {}
=============================================================================
