-------------------------- MODULE EngagementProofs --------------------------
(***************************************************************************)
(* Theorems about Engagement, for any blogs, people, sessions, addresses,  *)
(* figures, requests and runs of the job.                                  *)
(***************************************************************************)
EXTENDS Engagement, FiniteSetTheorems, TLAPS

-----------------------------------------------------------------------------
(* Requests *)

RowsOK == RowsTypeOK /\ IsFiniteSet(reactions)

Reaction == [op : {"like", "save", "unlike", "unsave"}, step : Steps, sawStatus : Statuses,
             row : Reactions]
Sharing  == [op : {"share"}, step : Steps, sawStatus : Statuses, blog : Blogs]
Viewing  == [op : {"view"}, step : Steps, sawStatus : Statuses, blog : Blogs,
             address : Addresses, session : Sessions \cup {None}, own : BOOLEAN, looked : Nat]
Reading  == [op : {"read"}, step : Steps, sawStatus : Statuses, blog : Blogs,
             session : Sessions, report : Report]

\* The operation of a request says what it is.
LEMMA TaskKinds ==
    ASSUME NEW x \in Task
    PROVE  /\ x.step \in Steps /\ x # Idle
           /\ x.op \in {"like", "save", "unlike", "unsave", "share", "view", "read"}
           /\ x.op \in {"like", "save", "unlike", "unsave"} => x \in Reaction
           /\ x.op = "share" => x \in Sharing
           /\ x.op = "view" => x \in Viewing
           /\ x.op = "read" => x \in Reading
<1>1. x \in Reaction \cup Sharing \cup Viewing \cup Reading
    BY DEF Task, Reaction, Sharing, Viewing, Reading
<1>2. x.step \in Steps
    BY <1>1 DEF Reaction, Sharing, Viewing, Reading
<1>3. x # Idle
    BY <1>2 DEF Idle, Steps
<1> QED
    BY <1>1, <1>2, <1>3 DEF Reaction, Sharing, Viewing, Reading

\* Every request has read its blog as published; only who has written a like or
\* save announces it, and only a share or report is not looked up first.
Sensible(x) ==
    /\ x.sawStatus = "published"
    /\ x.step = "announce" => x.op \in {"like", "save"}
    /\ x.op \in {"like", "save"} => x.row.person # Author[x.row.blog]
    /\ x.op \in {"share", "read"} => x.step = "write"

TasksOK == /\ task \in [Clients -> Task \cup {Idle}]
           /\ \A c \in Clients : task[c] # Idle => Sensible(task[c])

\* A request that is under way, by its step.
LEMMA Busy ==
    ASSUME TasksOK, NEW c \in Clients, task[c] # Idle \/ task[c].step \in Steps
    PROVE  task[c] \in Task /\ task[c] # Idle /\ Sensible(task[c])
BY DEF TasksOK, Idle, Steps

\* One request becomes x.
Becomes(c, x) == task' = [task EXCEPT ![c] = x]

\* Requests are well-formed if what one becomes is.
LEMMA TaskBecomes ==
    ASSUME TasksOK, NEW c \in Clients, NEW x \in Task \cup {Idle}, x # Idle => Sensible(x),
           Becomes(c, x)
    PROVE  TasksOK'
BY DEF TasksOK, Becomes, Sensible

\* A request that is done leaves its slot idle.
LEMMA DoneBecomes ==
    ASSUME TasksOK, NEW c \in Clients, Done(c)
    PROVE  Becomes(c, Idle) /\ TasksOK'
BY TaskBecomes DEF Done, Becomes

\* A request that goes on to another step keeps all else.
LEMMA GotoBecomes ==
    ASSUME TasksOK, NEW c \in Clients, task[c] # Idle, NEW step \in Steps, Goto(c, step),
           step = "announce" => task[c].op \in {"like", "save"},
           step # "write" => task[c].op \notin {"share", "read"}
    PROVE  \E x \in Task : /\ Becomes(c, x) /\ x.step = step /\ x.op = task[c].op
                           /\ x.sawStatus = task[c].sawStatus
                           /\ x.op \in {"like", "save", "unlike", "unsave"} => x.row = task[c].row
                           /\ x.op = "read" => /\ x.blog = task[c].blog
                                               /\ x.session = task[c].session
                                               /\ x.report = task[c].report
                           /\ TasksOK'
<1> DEFINE x == [task[c] EXCEPT !.step = step]
<1>1. task[c] \in Task /\ Sensible(task[c])
    BY Busy
<1>2. /\ x \in Task /\ x.step = step /\ x.op = task[c].op
      /\ x.sawStatus = task[c].sawStatus
      /\ x.op \in {"like", "save", "unlike", "unsave"} => x.row = task[c].row
      /\ x.op = "read" => /\ x.blog = task[c].blog
                          /\ x.session = task[c].session
                          /\ x.report = task[c].report
    <2>1. CASE task[c] \in Reaction
        BY <2>1 DEF Reaction, Task
    <2>2. CASE task[c] \in Sharing
        BY <2>2 DEF Sharing, Task
    <2>3. CASE task[c] \in Viewing
        BY <2>3 DEF Viewing, Task
    <2>4. CASE task[c] \in Reading
        BY <2>4 DEF Reading, Task
    <2> QED
        BY <1>1, <2>1, <2>2, <2>3, <2>4, TaskKinds
<1>3. Becomes(c, x)
    BY DEF Goto, Becomes
<1> HIDE DEF x
<1>4. Sensible(x)
    BY <1>1, <1>2 DEF Sensible
<1> QED
    BY <1>2, <1>3, <1>4, TaskBecomes

\* A view that finds no view of its reader notes how many there are.
LEMMA LookBecomes ==
    ASSUME TasksOK, NEW c \in Clients, LookView(c), ~Done(c), NEW n \in Nat,
           n = Len(views[task[c].blog])
    PROVE  /\ TasksOK' /\ task[c] \in Viewing
           /\ \E x \in Viewing : /\ Becomes(c, x) /\ x.step = "write" /\ x.looked = n
                               /\ x.blog = task[c].blog /\ x.address = task[c].address
                               /\ x.session = task[c].session
                               /\ ~Seen(x.blog, x.address, x.session, now)
<1> DEFINE x == [task[c] EXCEPT !.step = "write", !.looked = n]
<1>1. /\ task' = [task EXCEPT ![c].step = "write", ![c].looked = n]
      /\ task[c].step = "look" /\ task[c].op = "view"
      /\ ~Seen(task[c].blog, task[c].address, task[c].session, now)
    BY DEF LookView, At
<1>2. task[c] \in Viewing /\ Sensible(task[c]) /\ "look" \in Steps
    BY <1>1, Busy, TaskKinds DEF Steps
<1>3. /\ x \in Viewing /\ x.step = "write" /\ x.looked = n /\ x.op = "view"
      /\ x.blog = task[c].blog /\ x.address = task[c].address
      /\ x.session = task[c].session /\ x.sawStatus = task[c].sawStatus
    BY <1>2 DEF Viewing, Steps
<1>4. Becomes(c, x)
    BY <1>1 DEF Becomes, TasksOK
<1> HIDE DEF x
<1>5. x \in Task /\ Sensible(x)
    BY <1>2, <1>3 DEF Task, Viewing, Sensible
<1>6. TasksOK'
    BY <1>4, <1>5, TaskBecomes
<1> QED
    BY <1>1, <1>2, <1>3, <1>4, <1>6

\* A new request is well-formed, and announces nothing.
LEMMA BeginBecomes ==
    ASSUME TasksOK, NEW c \in Clients, NEW b, NEW x \in Task, Begin(c, b, x),
           status[b] = "published" => Sensible(x)
    PROVE  TasksOK' /\ Becomes(c, x) /\ task[c] = Idle
<1>1. Becomes(c, x) /\ task[c] = Idle /\ status[b] = "published"
    BY DEF Begin, Becomes
<1> QED
    BY <1>1, TaskBecomes

\* What StartReaction begins.
LEMMA StartReactionBecomes ==
    ASSUME TasksOK, NEW c \in Clients, StartReaction(c)
    PROVE  /\ TasksOK' /\ task[c] = Idle
           /\ \E x \in Task : /\ Becomes(c, x) /\ x.step # "announce"
                             /\ x.op \notin {"read", "view"}
<1>1. PICK op \in {"like", "save", "unlike", "unsave"}, r \in Reactions :
         /\ r.kind = Kind(op) /\ MayReact(op, r)
         /\ Begin(c, r.blog, [op |-> op, step |-> "look", sawStatus |-> status[r.blog],
                              row |-> r])
    BY DEF StartReaction
<1> DEFINE x == [op |-> op, step |-> "look", sawStatus |-> status[r.blog], row |-> r]
<1>2. /\ x \in Task /\ x.step = "look" /\ x.op = op /\ x.row = r
      /\ x.sawStatus = "published"
    BY <1>1 DEF Begin, Task, Steps, Statuses
<1>3. Begin(c, r.blog, x)
    BY <1>1
<1> HIDE DEF x
<1>4. Sensible(x)
    BY <1>1, <1>2 DEF Sensible, MayReact
<1> QED
    BY <1>2, <1>3, <1>4, BeginBecomes

\* What StartShare begins.
LEMMA StartShareBecomes ==
    ASSUME TasksOK, NEW c \in Clients, StartShare(c)
    PROVE  /\ TasksOK' /\ task[c] = Idle
           /\ \E x \in Task : /\ Becomes(c, x) /\ x.step # "announce"
                             /\ x.op \notin {"read", "view"}
<1>1. PICK b \in Blogs : Begin(c, b, [op |-> "share", step |-> "write",
                                      sawStatus |-> status[b], blog |-> b])
    BY DEF StartShare
<1> DEFINE x == [op |-> "share", step |-> "write", sawStatus |-> status[b], blog |-> b]
<1>2. x \in Task /\ x.step = "write" /\ x.op = "share" /\ x.sawStatus = "published"
    BY <1>1 DEF Begin, Task, Steps, Statuses
<1>3. Begin(c, b, x)
    BY <1>1
<1> HIDE DEF x
<1>4. Sensible(x)
    BY <1>2 DEF Sensible
<1> QED
    BY <1>2, <1>3, <1>4, BeginBecomes

\* What StartView begins.
LEMMA StartViewBecomes ==
    ASSUME TasksOK, NEW c \in Clients, StartView(c)
    PROVE  /\ TasksOK' /\ task[c] = Idle
           /\ \E x \in Task : Becomes(c, x) /\ x.step = "look" /\ x.op = "view"
<1>1. PICK b \in Blogs, a \in Addresses, s \in Sessions \cup {None}, p \in People \cup {None} :
         Begin(c, b, [op |-> "view", step |-> "look", sawStatus |-> status[b], blog |-> b,
                      address |-> a, session |-> s, own |-> p = Author[b], looked |-> 0])
    BY DEF StartView
<1> DEFINE x == [op |-> "view", step |-> "look", sawStatus |-> status[b], blog |-> b,
                 address |-> a, session |-> s, own |-> p = Author[b], looked |-> 0]
<1>2. x \in Task /\ x.step = "look" /\ x.op = "view" /\ x.sawStatus = "published"
    BY <1>1 DEF Begin, Task, Steps, Statuses
<1>3. Begin(c, b, x)
    BY <1>1
<1> HIDE DEF x
<1>4. Sensible(x)
    BY <1>2 DEF Sensible
<1> QED
    BY <1>2, <1>3, <1>4, BeginBecomes

\* What StartRead begins: the report that scrolled remembers.
LEMMA StartReadBecomes ==
    ASSUME TasksOK, NEW c \in Clients, StartRead(c)
    PROVE  /\ TasksOK' /\ task[c] = Idle
           /\ \E x \in Task :
                 /\ Becomes(c, x) /\ x.step = "write" /\ x.op = "read"
                 /\ x.report.depth >= scrolled[x.blog][x.session]
                 /\ scrolled' = [scrolled EXCEPT ![x.blog][x.session] = x.report.depth]
<1>1. PICK b \in Blogs, s \in Sessions, d \in Depths, said \in {"yes", "no", None} :
         /\ d >= scrolled[b][s]
         /\ Begin(c, b, [op |-> "read", step |-> "write", sawStatus |-> status[b], blog |-> b,
                         session |-> s,
                         report |-> [depth |-> d, completed |-> Completed(d, said)]])
         /\ scrolled' = [scrolled EXCEPT ![b][s] = d]
    BY DEF StartRead
<1> DEFINE y == [depth |-> d, completed |-> Completed(d, said)]
           x == [op |-> "read", step |-> "write", sawStatus |-> status[b], blog |-> b,
                 session |-> s, report |-> y]
<1>2. Completed(d, said) \in BOOLEAN
    <2>1. d \in Int
        BY EngagementAssumption
    <2>2. (d >= 80) \in BOOLEAN /\ (said = "yes") \in BOOLEAN
        BY <2>1
    <2> QED
        BY <2>2 DEF Completed
<1>3. y \in Report /\ y.depth = d
    BY <1>2, EngagementAssumption DEF Report
<1>4. Begin(c, b, x)
    BY <1>1
<1> HIDE DEF y
<1>5. /\ x \in Task /\ x.step = "write" /\ x.op = "read" /\ x.blog = b /\ x.session = s
      /\ x.report = y /\ x.sawStatus = "published"
    BY <1>1, <1>3 DEF Begin, Task, Steps, Statuses
<1> HIDE DEF x
<1>6. Sensible(x)
    BY <1>5 DEF Sensible
<1>7. TasksOK' /\ Becomes(c, x) /\ task[c] = Idle
    BY <1>4, <1>5, <1>6, BeginBecomes
<1> QED
    BY <1>1, <1>3, <1>5, <1>7

\* Every step keeps requests well-formed.
LEMMA TasksStep == TasksOK /\ RowsOK /\ [Next]_vars => TasksOK'
<1> SUFFICES ASSUME TasksOK, RowsOK, [Next]_vars PROVE TasksOK'
    OBVIOUS
<1>1. ASSUME NEW c \in Clients,
             StartReaction(c) \/ StartShare(c) \/ StartView(c) \/ StartRead(c)
      PROVE  TasksOK'
    BY <1>1, StartReactionBecomes, StartShareBecomes, StartViewBecomes, StartReadBecomes
<1>2. ASSUME NEW c \in Clients, Handle(c) PROVE TasksOK'
    <2>1. CASE LookReaction(c)
        <3>1. task[c] # Idle /\ task[c].op \in {"like", "save", "unlike", "unsave"}
            BY <2>1 DEF LookReaction, At, Idle
        <3>2. Goto(c, "write") \/ Done(c)
            BY <2>1 DEF LookReaction
        <3> QED
            BY <3>1, <3>2, DoneBecomes, GotoBecomes DEF Steps
    <2>2. CASE WriteReaction(c)
        <3>1. task[c] # Idle /\ task[c].op \in {"like", "save"}
            BY <2>2 DEF WriteReaction, At, Idle
        <3>2. Goto(c, "announce") \/ Done(c)
            BY <2>2 DEF WriteReaction
        <3> QED
            BY <3>1, <3>2, DoneBecomes, GotoBecomes DEF Steps
    <2>3. CASE LookView(c)
        <3>1. \/ Done(c)
              \/ ~Done(c) /\ task[c].step \in Steps
            BY <2>3 DEF LookView, At, Steps
        <3>2. \A b \in Blogs : Len(views[b]) \in Nat
            BY DEF RowsOK, RowsTypeOK
        <3>3. CASE ~Done(c)
            <4>1. task[c] \in Viewing
                BY <2>3, <3>1, <3>3, Busy, TaskKinds DEF LookView, At
            <4>2. Len(views[task[c].blog]) \in Nat
                BY <3>2, <4>1 DEF Viewing
            <4> QED
                BY <2>3, <3>3, <4>2, LookBecomes
        <3> QED
            BY <3>3, DoneBecomes
    <2>4. CASE Announce(c) \/ DeleteReaction(c) \/ WriteShare(c) \/ WriteView(c)
                 \/ WriteReport(c) \/ Refused(c)
        BY <2>4, DoneBecomes
           DEF Announce, DeleteReaction, WriteShare, WriteView, WriteReport, Refused
    <2> QED
        BY <1>2, <2>1, <2>2, <2>3, <2>4 DEF Handle
<1>3. ASSUME NEW c \in Clients, Fails(c) PROVE TasksOK'
    BY <1>3, DoneBecomes DEF Fails
<1>4. CASE Crash
    BY <1>4 DEF Crash, TasksOK
<1>5. ASSUME UNCHANGED task PROVE TasksOK'
    BY <1>5 DEF TasksOK, Sensible
<1>6. ASSUME NEW w \in Workers, Aggregate(w) \/ JobFails(w) PROVE UNCHANGED task
    BY <1>6 DEF Aggregate, StartJob, ReadFigure, WriteCounters, RefusedJob, JobFails
<1>7. ASSUME NEW b \in Blogs, Moderate(b) PROVE UNCHANGED task
    BY <1>7 DEF Moderate
<1>8. CASE Tick \/ UNCHANGED vars
    BY <1>5, <1>8 DEF Tick, vars
<1> QED
    BY <1>1, <1>2, <1>3, <1>4, <1>5, <1>6, <1>7, <1>8 DEF Next

\* Who has looked goes on to write, or is done.
LEMMA LooksOn ==
    ASSUME TasksOK, RowsOK, NEW c \in Clients, LookReaction(c) \/ LookView(c)
    PROVE  \/ Becomes(c, Idle)
           \/ \E x \in Task : Becomes(c, x) /\ x.step = "write" /\ x.op = task[c].op
<1>1. task[c].step = "look" /\ "look" \in Steps /\ task[c] # Idle
    BY DEF LookReaction, LookView, At, Steps, Idle
<1>2. task[c] \in Task
    BY <1>1, Busy
<1>3. CASE Done(c)
    BY <1>3, DoneBecomes
<1>4. CASE LookReaction(c) /\ ~Done(c)
    <2>1. task[c].op \in {"like", "save", "unlike", "unsave"} /\ Goto(c, "write")
        BY <1>4 DEF LookReaction, At
    <2> QED
        BY <1>1, <2>1, GotoBecomes DEF Steps
<1>5. CASE LookView(c) /\ ~Done(c)
    <2>1. task[c].op = "view" /\ task[c] \in Viewing
        BY <1>2, <1>5, TaskKinds DEF LookView, At
    <2>2. Len(views[task[c].blog]) \in Nat
        BY <2>1 DEF Viewing, RowsOK, RowsTypeOK
    <2>3. \E x \in Viewing : Becomes(c, x) /\ x.step = "write"
        BY <1>5, <2>2, LookBecomes
    <2> QED
        BY <2>1, <2>3 DEF Viewing, Task
<1> QED
    BY <1>3, <1>4, <1>5

\* At first no request is under way.
LEMMA TasksInit == Init => TasksOK
BY DEF Init, TasksOK

-----------------------------------------------------------------------------
(* Types *)

\* Who writes what.
LEMMA WhoWrites ==
    ASSUME [Next]_vars
    PROVE  /\ \/ UNCHANGED reactions
              \/ \E c \in Clients : WriteReaction(c) \/ DeleteReaction(c)
              \/ \E b \in Blogs : Moderate(b)
           /\ \/ UNCHANGED shares
              \/ \E c \in Clients : WriteShare(c)
              \/ \E b \in Blogs : Moderate(b)
           /\ \/ UNCHANGED <<views, ownViews>>
              \/ \E c \in Clients : WriteView(c)
              \/ \E b \in Blogs : Moderate(b)
           /\ \/ UNCHANGED progress
              \/ \E c \in Clients : WriteReport(c)
              \/ \E b \in Blogs : Moderate(b)
           /\ UNCHANGED wrote \/ \E c \in Clients : WriteReport(c)
           /\ \/ UNCHANGED counters
              \/ \E w \in Workers : WriteCounters(w)
              \/ \E b \in Blogs : Moderate(b)
           /\ \/ UNCHANGED job
              \/ \E w \in Workers : Aggregate(w) \/ JobFails(w)
              \/ Crash
           /\ UNCHANGED status \/ \E b \in Blogs : Moderate(b)
           /\ UNCHANGED scrolled \/ \E c \in Clients : StartRead(c)
           /\ UNCHANGED now \/ Tick
<1>1. ASSUME NEW c \in Clients, StartReaction(c) \/ StartShare(c) \/ StartView(c) \/ Fails(c)
      PROVE  UNCHANGED <<rowVars, job, now, historyVars>>
    BY <1>1 DEF StartReaction, StartShare, StartView, Begin, Fails
<1>2. ASSUME NEW c \in Clients, StartRead(c) PROVE UNCHANGED <<rowVars, job, now, wrote, ownViews>>
    BY <1>2 DEF StartRead, Begin
<1>3. ASSUME NEW c \in Clients, LookReaction(c) \/ LookView(c) \/ Refused(c)
      PROVE  UNCHANGED <<rowVars, job, now, historyVars>>
    BY <1>3 DEF LookReaction, LookView, Refused, envVars
<1>4. ASSUME NEW c \in Clients, Announce(c)
      PROVE  UNCHANGED <<rowVars, job, now, scrolled, wrote, ownViews>>
    BY <1>4 DEF Announce, envVars
<1>5. ASSUME NEW c \in Clients, WriteReaction(c) \/ DeleteReaction(c)
      PROVE  UNCHANGED <<status, shares, views, progress, counters, job, now, scrolled, wrote,
                       ownViews>>
    BY <1>5 DEF WriteReaction, DeleteReaction, envVars, historyVars
<1>6. ASSUME NEW c \in Clients, WriteShare(c)
      PROVE  UNCHANGED <<status, reactions, views, progress, counters, job, now, scrolled, wrote,
                       ownViews>>
    BY <1>6 DEF WriteShare, envVars, historyVars
<1>7. ASSUME NEW c \in Clients, WriteView(c)
      PROVE  UNCHANGED <<status, reactions, shares, progress, counters, job, now, scrolled, wrote>>
    BY <1>7 DEF WriteView, envVars
<1>8. ASSUME NEW c \in Clients, WriteReport(c)
      PROVE  UNCHANGED <<status, reactions, shares, views, counters, job, now, scrolled, ownViews>>
    BY <1>8 DEF WriteReport, envVars, historyVars
<1>9. ASSUME NEW w \in Workers, StartJob(w) \/ ReadFigure(w) \/ RefusedJob(w) \/ JobFails(w)
      PROVE  UNCHANGED <<rowVars, now, historyVars>>
    BY <1>9 DEF StartJob, ReadFigure, RefusedJob, JobFails, envVars
<1>10. ASSUME NEW w \in Workers, WriteCounters(w)
       PROVE  UNCHANGED <<status, reactions, shares, views, progress, now, scrolled, wrote, ownViews>>
    BY <1>10 DEF WriteCounters, envVars, historyVars
<1>11. ASSUME NEW b \in Blogs, Moderate(b) PROVE UNCHANGED <<job, now, historyVars>>
    BY <1>11 DEF Moderate
<1>12. CASE Crash
    BY <1>12 DEF Crash, rowVars, historyVars
<1>13. CASE Tick
    BY <1>13 DEF Tick, rowVars, historyVars
<1>14. CASE UNCHANGED vars
    BY <1>14 DEF vars, rowVars, envVars, historyVars
<1>15. ASSUME NEW c \in Clients, Handle(c)
       PROVE  \/ LookReaction(c) \/ WriteReaction(c) \/ Announce(c) \/ DeleteReaction(c)
              \/ WriteShare(c) \/ LookView(c) \/ WriteView(c) \/ WriteReport(c) \/ Refused(c)
    BY <1>15 DEF Handle
<1>16. ASSUME NEW c \in Clients, Handle(c)
       PROVE  /\ UNCHANGED <<status, counters, job, scrolled, now>>
              /\ UNCHANGED reactions \/ WriteReaction(c) \/ DeleteReaction(c)
              /\ UNCHANGED shares \/ WriteShare(c)
              /\ UNCHANGED <<views, ownViews>> \/ WriteView(c)
              /\ UNCHANGED <<progress, wrote>> \/ WriteReport(c)
    BY <1>3, <1>4, <1>5, <1>6, <1>7, <1>8, <1>15, <1>16 DEF rowVars, historyVars
<1> QED
    BY <1>1, <1>2, <1>9, <1>10, <1>11, <1>12, <1>13, <1>14, <1>16
       DEF Next, Aggregate, rowVars, historyVars

\* A run of the job has read some of the figures, and noted the rows of each.
Read == UNION {[F -> [Blogs -> Nat]] : F \in SUBSET Figures}
Rowed == Seq(View) \cup (SUBSET Reactions) \cup Nat \cup [Sessions -> Report \cup {None}]
Seens == UNION {[F -> [Blogs -> Rowed]] : F \in SUBSET Figures}
Run  == [step : {"read"}, batch : SUBSET Blogs, figures : Read, rows : Seens,
         overlapped : BOOLEAN]

\* What each figure was made of.
Faithful(j) == /\ DOMAIN j.rows = DOMAIN j.figures
               /\ \A f \in DOMAIN j.figures, b \in Blogs : j.figures[f][b] = Made(f, j.rows[f][b])

JobsOK == /\ job \in [Workers -> Run \cup {Idle}]
          /\ \A w \in Workers : job[w] # Idle => Faithful(job[w])

\* What is written on a blog's own row by Moderate.
LEMMA ModerateTypes ==
    ASSUME RowsOK, NEW b \in Blogs, Moderate(b)
    PROVE  RowsOK'
<1>1. CASE status' = [status EXCEPT ![b] = IF @ = "hidden" THEN "published" ELSE "hidden"]
            /\ UNCHANGED <<reactions, shares, views, progress, counters>>
    BY <1>1 DEF RowsOK, RowsTypeOK, Statuses
<1>2. CASE Erased(b)
    <2>1. status' \in [Blogs -> Statuses]
        BY <1>2 DEF Erased, RowsOK, RowsTypeOK, Statuses
    <2>2. reactions' \subseteq reactions /\ IsFiniteSet(reactions')
        BY <1>2, FS_Subset DEF Erased, RowsOK
    <2>3. shares' \in [Blogs -> Nat] /\ views' \in [Blogs -> Seq(View)]
        BY <1>2 DEF Erased, RowsOK, RowsTypeOK
    <2>4. progress' \in [Blogs -> [Sessions -> Report \cup {None}]]
        BY <1>2 DEF Erased, RowsOK, RowsTypeOK
    <2>5. counters' \in [Blogs -> [Figures -> Nat] \cup {None}]
        BY <1>2 DEF Erased, RowsOK, RowsTypeOK
    <2> QED
        BY <2>1, <2>2, <2>3, <2>4, <2>5 DEF RowsOK, RowsTypeOK
<1> QED
    BY <1>1, <1>2 DEF Moderate

\* What the counters are made of are numbers.
LEMMA FigureTypes ==
    ASSUME RowsOK, NEW b \in Blogs, NEW f \in Figures
    PROVE  Figure(f, b) \in Nat /\ Rows(f, b) \in Rowed
<1>1. ASSUME f \in {"likes", "saves"} PROVE Figure(f, b) \in Nat
    <2>1. Rows(f, b) \in SUBSET reactions /\ Figure(f, b) = Cardinality(Rows(f, b))
        BY <1>1 DEF Rows, Figure, Made
    <2> QED
        BY <2>1, FS_Subset, FS_CardinalityType DEF RowsOK
<1>2. Cardinality({views[b][i].address : i \in DOMAIN views[b]}) \in Nat
    <2>1. views[b] \in Seq(View)
        BY DEF RowsOK, RowsTypeOK
    <2>2. \A i \in DOMAIN views[b] : views[b][i] \in View
        BY <2>1
    <2>3. {views[b][i].address : i \in DOMAIN views[b]} \in SUBSET Addresses
        BY <2>2 DEF View
    <2> QED
        BY <2>3, EngagementRowsAssumption, FS_Subset, FS_CardinalityType
<1>3. Completion(progress[b]) \in Nat
    <2> DEFINE begun == {s \in Sessions : progress[b][s] # None}
               worth(s) == IF progress[b][s].completed THEN 100 ELSE progress[b][s].depth
               percents == UNION {{s} \X (1..worth(s)) : s \in begun}
    <2>1. CASE begun = {}
        BY <2>1 DEF Completion
    <2>2. CASE begun # {}
        <3>1. \A s \in begun : worth(s) \in 0..100
            BY DEF RowsOK, RowsTypeOK, Report
        <3>2. percents \in SUBSET (begun \X (1..100))
            BY <3>1
        <3>3. IsFiniteSet(begun) /\ Cardinality(begun) \in Nat \ {0}
            BY <2>2, EngagementRowsAssumption, FS_Subset, FS_CardinalityType, FS_EmptySet
        <3>4. IsFiniteSet(begun \X (1..100))
            <4>1. IsFiniteSet(1..100)
                <5>1. 1 \in Int /\ 100 \in Int
                    OBVIOUS
                <5> QED
                    BY <5>1, FS_Interval, Zenon
            <4> QED
                BY <3>3, <4>1, FS_Product, Zenon
        <3>5. Cardinality(percents) \in Nat
            BY <3>2, <3>4, FS_Subset, FS_CardinalityType
        <3>6. Completion(progress[b]) = Cardinality(percents) \div Cardinality(begun)
            BY <2>2 DEF Completion
        <3> HIDE DEF percents, begun
        <3> QED
            BY <3>3, <3>5, <3>6
    <2> QED
        BY <2>1, <2>2
<1>4. f \in {"views", "unique", "likes", "saves", "shares", "completion"}
    BY EngagementRowsAssumption
<1>5. Len(views[b]) \in Nat /\ shares[b] \in Nat
    BY DEF RowsOK, RowsTypeOK
<1> QED
    <2>1. Figure(f, b) \in Nat
        BY <1>1, <1>2, <1>3, <1>4, <1>5 DEF Figure, Made, Rows
    <2>2. Rows(f, b) \in Rowed
        BY <1>4 DEF Rows, Rowed, RowsOK, RowsTypeOK
    <2> QED
        BY <2>1, <2>2

\* What a run that has read everything will write.
LEMMA ResultTypes ==
    ASSUME JobsOK, NEW w \in Workers, Ready(w)
    PROVE  /\ job[w] \in Run /\ job[w].figures \in [Figures -> [Blogs -> Nat]]
           /\ Result(w) \in [job[w].batch -> [Figures -> Nat]]
<1>1. job[w] \in Run /\ DOMAIN job[w].figures = Figures
    BY DEF JobsOK, Ready
<1>2. job[w].figures \in [Figures -> [Blogs -> Nat]] /\ job[w].batch \subseteq Blogs
    BY <1>1 DEF Run, Read
<1> QED
    BY <1>1, <1>2 DEF Result

\* Rows keep their types.
LEMMA RowsStep == RowsOK /\ TasksOK /\ JobsOK /\ now \in Nat /\ [Next]_vars => RowsOK'
<1> SUFFICES ASSUME RowsOK, TasksOK, JobsOK, now \in Nat, [Next]_vars PROVE RowsOK'
    OBVIOUS
<1>1. CASE \E b \in Blogs : Moderate(b)
    BY <1>1, ModerateTypes
<1>2. CASE ~\E b \in Blogs : Moderate(b)
    <2>1. status' \in [Blogs -> Statuses]
        BY <1>2, WhoWrites DEF RowsOK, RowsTypeOK
    <2>2. reactions' \subseteq Reactions /\ IsFiniteSet(reactions')
        <3>1. ASSUME NEW c \in Clients, WriteReaction(c)
              PROVE  reactions' \subseteq Reactions /\ IsFiniteSet(reactions')
            <4>1. task[c].row \in Reactions
                BY <3>1, Busy, TaskKinds DEF WriteReaction, At, Reaction, Steps
            <4>2. reactions' = reactions \cup {task[c].row}
                BY <3>1 DEF WriteReaction
            <4> QED
                BY <4>1, <4>2, FS_AddElement DEF RowsOK, RowsTypeOK
        <3>2. ASSUME NEW c \in Clients, DeleteReaction(c)
              PROVE  reactions' \subseteq Reactions /\ IsFiniteSet(reactions')
            <4>1. reactions' = reactions \ {task[c].row}
                BY <3>2 DEF DeleteReaction
            <4> QED
                BY <4>1, FS_RemoveElement DEF RowsOK, RowsTypeOK
        <3> QED
            BY <1>2, <3>1, <3>2, WhoWrites DEF RowsOK, RowsTypeOK
    <2>3. shares' \in [Blogs -> Nat]
        <3>1. ASSUME NEW c \in Clients, WriteShare(c) PROVE shares' \in [Blogs -> Nat]
            <4>1. shares' = [shares EXCEPT ![task[c].blog] = shares[task[c].blog] + 1]
                BY <3>1 DEF WriteShare
            <4>2. \A b \in Blogs : shares[b] + 1 \in Nat
                BY DEF RowsOK, RowsTypeOK
            <4> QED
                BY <4>1, <4>2 DEF RowsOK, RowsTypeOK
        <3> QED
            BY <1>2, <3>1, WhoWrites DEF RowsOK, RowsTypeOK
    <2>4. views' \in [Blogs -> Seq(View)]
        <3>1. ASSUME NEW c \in Clients, WriteView(c) PROVE views' \in [Blogs -> Seq(View)]
            <4>1. task[c] \in Viewing
                BY <3>1, Busy, TaskKinds DEF WriteView, At, Steps
            <4> DEFINE v == [address |-> task[c].address, session |-> task[c].session, at |-> now]
            <4>2. v \in View
                BY <4>1 DEF Viewing, View
            <4>3. views' = [views EXCEPT ![task[c].blog] = Append(views[task[c].blog], v)]
                BY <3>1 DEF WriteView
            <4> HIDE DEF v
            <4>4. \A b \in Blogs : Append(views[b], v) \in Seq(View)
                BY <4>2 DEF RowsOK, RowsTypeOK
            <4> QED
                BY <4>3, <4>4 DEF RowsOK, RowsTypeOK
        <3> QED
            BY <1>2, <3>1, WhoWrites DEF RowsOK, RowsTypeOK
    <2>5. progress' \in [Blogs -> [Sessions -> Report \cup {None}]]
        <3>1. ASSUME NEW c \in Clients, WriteReport(c)
              PROVE  progress' \in [Blogs -> [Sessions -> Report \cup {None}]]
            <4>1. task[c].report \in Report
                BY <3>1, Busy, TaskKinds DEF WriteReport, At, Reading, Steps
            <4>2. progress' = [progress EXCEPT ![task[c].blog][task[c].session] = task[c].report]
                BY <3>1 DEF WriteReport, Upserted
            <4> QED
                BY <4>1, <4>2 DEF RowsOK, RowsTypeOK
        <3> QED
            BY <1>2, <3>1, WhoWrites DEF RowsOK, RowsTypeOK
    <2>6. counters' \in [Blogs -> [Figures -> Nat] \cup {None}]
        <3>1. ASSUME NEW w \in Workers, WriteCounters(w)
              PROVE  counters' \in [Blogs -> [Figures -> Nat] \cup {None}]
            <4>1. Ready(w) /\ counters' = Upserts(w)
                BY <3>1 DEF WriteCounters
            <4>2. Result(w) \in [job[w].batch -> [Figures -> Nat]]
                BY <4>1, ResultTypes
            <4> QED
                BY <4>1, <4>2 DEF Upserts, RowsOK, RowsTypeOK
        <3> QED
            BY <1>2, <3>1, WhoWrites DEF RowsOK, RowsTypeOK
    <2> QED
        BY <2>1, <2>2, <2>3, <2>4, <2>5, <2>6 DEF RowsOK, RowsTypeOK
<1> QED
    BY <1>1, <1>2

\* One run of the job becomes x.
LEMMA JobBecomes ==
    ASSUME JobsOK, NEW w \in Workers, NEW x \in Run \cup {Idle}, x # Idle => Faithful(x),
           job' = [job EXCEPT ![w] = x]
    PROVE  JobsOK'
BY DEF JobsOK, Faithful

\* Runs of the job keep their types, and their figures what they were made of.
LEMMA JobsStep == RowsOK /\ JobsOK /\ [Next]_vars => JobsOK'
<1> SUFFICES ASSUME RowsOK, JobsOK, [Next]_vars PROVE JobsOK'
    OBVIOUS
<1>1. ASSUME NEW w \in Workers, StartJob(w) PROVE JobsOK'
    <2> DEFINE x == [step |-> "read", batch |-> {b \in Blogs : status[b] = "published"},
                     figures |-> <<>>, rows |-> <<>>, overlapped |-> FALSE]
    <2>1. <<>> \in Read /\ <<>> \in Seens
        <3>1. <<>> \in [{} -> [Blogs -> Nat]] /\ <<>> \in [{} -> [Blogs -> Rowed]]
            OBVIOUS
        <3> QED
            BY <3>1 DEF Read, Seens
    <2>2. x \in Run /\ x.figures = <<>> /\ x.rows = <<>> /\ DOMAIN <<>> = {}
        BY <2>1 DEF Run
    <2>3. job' = [job EXCEPT ![w] = x]
        BY <1>1 DEF StartJob
    <2> HIDE DEF x
    <2>4. Faithful(x)
        BY <2>2 DEF Faithful
    <2> QED
        BY <2>2, <2>3, <2>4, JobBecomes
<1>2. ASSUME NEW w \in Workers, ReadFigure(w) PROVE JobsOK'
    <2>1. PICK f \in Figures : ReadFigure(w)!(f)
        BY <1>2 DEF ReadFigure
    <2> DEFINE known == job[w].figures
               noted == job[w].rows
               done == DOMAIN known
               found == [b \in Blogs |-> Figure(f, b)]
               made == [b \in Blogs |-> Rows(f, b)]
               F == [g \in done \cup {f} |-> IF g = f THEN found ELSE known[g]]
               R == [g \in done \cup {f} |-> IF g = f THEN made ELSE noted[g]]
               x == [job[w] EXCEPT !.figures = F, !.rows = R]
    <2>2. job[w] \in Run /\ Faithful(job[w])
        BY <2>1 DEF JobsOK
    <2>3. /\ done \in SUBSET Figures /\ known \in [done -> [Blogs -> Nat]]
          /\ noted \in [done -> [Blogs -> Rowed]]
        BY <2>2 DEF Run, Read, Seens, Faithful
    <2>4. found \in [Blogs -> Nat] /\ made \in [Blogs -> Rowed]
        BY FigureTypes
    <2>5. F \in [done \cup {f} -> [Blogs -> Nat]] /\ R \in [done \cup {f} -> [Blogs -> Rowed]]
        <3>1. \A g \in done : known[g] \in [Blogs -> Nat] /\ noted[g] \in [Blogs -> Rowed]
            BY <2>3
        <3> HIDE DEF known, noted, done, found, made
        <3> QED
            BY <2>4, <3>1
    <2>6. F \in Read /\ R \in Seens
        <3>1. done \cup {f} \in SUBSET Figures
            BY <2>3
        <3> HIDE DEF F, R, done
        <3> QED
            BY <2>5, <3>1 DEF Read, Seens
    <2>7. job' = [job EXCEPT ![w] = x]
        <3>1. job' = [job EXCEPT ![w].figures = F, ![w].rows = R]
            BY <2>1
        <3> HIDE DEF F, R
        <3> QED
            BY <3>1 DEF JobsOK
    <2>8. \A g \in done \cup {f}, b \in Blogs : F[g][b] = Made(g, R[g][b])
        <3>1. \A g \in done, b \in Blogs : known[g][b] = Made(g, noted[g][b])
            BY <2>2 DEF Faithful
        <3>2. \A b \in Blogs : found[b] = Made(f, made[b])
            BY DEF Figure
        <3> HIDE DEF known, noted, done, found, made
        <3> QED
            BY <3>1, <3>2
    <2>9. DOMAIN F = done \cup {f} /\ DOMAIN R = done \cup {f}
        OBVIOUS
    <2> HIDE DEF F, R, done, known, noted, found, made
    <2>10. x \in Run /\ x.figures = F /\ x.rows = R
        BY <2>2, <2>6 DEF Run
    <2> HIDE DEF x
    <2>11. Faithful(x)
        BY <2>8, <2>9, <2>10 DEF Faithful
    <2> QED
        BY <2>7, <2>10, <2>11, JobBecomes
<1>3. ASSUME NEW w \in Workers, WriteCounters(w) PROVE JobsOK'
    <2>1. job' = [v \in Workers |-> IF v = w \/ job[v] = Idle THEN Idle
                                    ELSE [job[v] EXCEPT !.overlapped = TRUE]]
        BY <1>3 DEF WriteCounters
    <2>2. ASSUME NEW v \in Workers, job[v] # Idle
          PROVE  LET x == [job[v] EXCEPT !.overlapped = TRUE] IN x \in Run /\ Faithful(x)
        <3> DEFINE x == [job[v] EXCEPT !.overlapped = TRUE]
        <3>1. job[v] \in Run /\ Faithful(job[v])
            BY <2>2 DEF JobsOK
        <3>2. x \in Run /\ x.figures = job[v].figures /\ x.rows = job[v].rows
            BY <3>1 DEF Run
        <3> HIDE DEF x
        <3>3. Faithful(x)
            BY <3>1, <3>2 DEF Faithful
        <3> QED
            BY <3>2, <3>3 DEF x
    <2> QED
        BY <2>1, <2>2 DEF JobsOK
<1>4. ASSUME NEW w \in Workers, RefusedJob(w) \/ JobFails(w) PROVE JobsOK'
    BY <1>4, JobBecomes DEF RefusedJob, JobFails
<1>5. CASE Crash
    BY <1>5 DEF Crash, JobsOK
<1>6. CASE UNCHANGED job
    BY <1>6 DEF JobsOK, Faithful
<1> QED
    BY <1>1, <1>2, <1>3, <1>4, <1>5, <1>6, WhoWrites DEF Aggregate

\* The rest of the state.
RestOK == /\ {now, requests, faults} \subseteq Nat
          /\ scrolled \in [Blogs -> [Sessions -> 0..100]]
          /\ wrote \in [Blogs -> [Sessions -> 0..100]]
          /\ ownViews \subseteq Blogs
          /\ anomalies \subseteq Anomaly

\* Clock and counts of requests and faults are numbers.
LEMMA EnvStep ==
    ASSUME {now, requests, faults} \subseteq Nat, [Next]_vars
    PROVE  {now, requests, faults}' \subseteq Nat
<1>1. ASSUME NEW c \in Clients,
             StartReaction(c) \/ StartShare(c) \/ StartView(c) \/ StartRead(c)
      PROVE  UNCHANGED <<now, faults>> /\ requests' = requests + 1
    BY <1>1 DEF StartReaction, StartShare, StartView, StartRead, Begin, Counted
<1>2. ASSUME NEW c \in Clients, Handle(c) PROVE UNCHANGED envVars
    BY <1>2 DEF Handle, LookReaction, WriteReaction, Announce, DeleteReaction, WriteShare,
                LookView, WriteView, WriteReport, Refused
<1>3. ASSUME NEW c \in Clients, Fails(c)
      PROVE  UNCHANGED <<now, requests>> /\ faults' = faults + 1
    BY <1>3 DEF Fails, Fault
<1>4. ASSUME NEW w \in Workers, Aggregate(w) PROVE UNCHANGED envVars
    BY <1>4 DEF Aggregate, StartJob, ReadFigure, WriteCounters, RefusedJob
<1>5. ASSUME NEW w \in Workers, JobFails(w)
      PROVE  UNCHANGED <<now, requests>> /\ faults' = faults + 1
    BY <1>5 DEF JobFails, Fault
<1>6. ASSUME NEW b \in Blogs, Moderate(b)
      PROVE  UNCHANGED <<now, faults>> /\ requests' = requests + 1
    BY <1>6 DEF Moderate, Counted
<1>7. CASE Crash \/ Tick \/ UNCHANGED vars
    BY <1>7 DEF Crash, Fault, Tick, vars, envVars
<1> QED
    BY <1>1, <1>2, <1>3, <1>4, <1>5, <1>6, <1>7 DEF Next, envVars

\* Only named anomalies happen.
LEMMA AnomaliesNamed ==
    ASSUME anomalies \subseteq Anomaly, TasksOK, [Next]_vars
    PROVE  anomalies' \subseteq Anomaly
<1>0. \A c \in Clients : Lost(task[c]) \subseteq Anomaly
    BY DEF Lost, Anomaly
<1>1. ASSUME NEW c \in Clients,
             StartReaction(c) \/ StartShare(c) \/ StartView(c) \/ StartRead(c)
      PROVE  anomalies' = anomalies
    BY <1>1 DEF StartReaction, StartShare, StartView, StartRead, Begin
<1>2. ASSUME NEW c \in Clients, Handle(c) PROVE anomalies' \subseteq Anomaly
    BY <1>2 DEF Handle, LookReaction, WriteReaction, Announce, DeleteReaction, WriteShare,
                LookView, WriteView, WriteReport, Refused, Blame, Anomaly
<1>3. ASSUME NEW w \in Workers, Aggregate(w) \/ JobFails(w) PROVE anomalies' \subseteq Anomaly
    BY <1>3 DEF Aggregate, StartJob, ReadFigure, WriteCounters, RefusedJob, JobFails, Anomaly
<1>4. ASSUME NEW c \in Clients, Fails(c) PROVE anomalies' \subseteq Anomaly
    BY <1>0, <1>4 DEF Fails
<1>5. ASSUME NEW b \in Blogs, Moderate(b) PROVE anomalies' = anomalies
    BY <1>5 DEF Moderate
<1>6. CASE Crash
    BY <1>0, <1>6 DEF Crash
<1>7. CASE Tick \/ UNCHANGED vars
    BY <1>7 DEF Tick, vars
<1> QED
    BY <1>1, <1>2, <1>3, <1>4, <1>5, <1>6, <1>7 DEF Next

\* The rest keeps its types.
LEMMA RestStep == RestOK /\ TasksOK /\ [Next]_vars => RestOK'
<1> SUFFICES ASSUME RestOK, TasksOK, [Next]_vars PROVE RestOK'
    OBVIOUS
<1>1. ASSUME NEW c \in Clients, StartRead(c)
      PROVE  scrolled' \in [Blogs -> [Sessions -> 0..100]]
    <2>1. PICK x \in Task :
             /\ x.op = "read"
             /\ scrolled' = [scrolled EXCEPT ![x.blog][x.session] = x.report.depth]
        BY <1>1, StartReadBecomes
    <2>2. x.report.depth \in 0..100
        BY <2>1, TaskKinds DEF Reading, Report
    <2> QED
        BY <2>1, <2>2 DEF RestOK
<1>2. ASSUME NEW c \in Clients, WriteView(c) PROVE ownViews' \subseteq Blogs
    <2>1. task[c].blog \in Blogs
        BY <1>2, Busy, TaskKinds DEF WriteView, At, Viewing, Steps
    <2> QED
        BY <1>2, <2>1 DEF WriteView, RestOK
<1>3. scrolled' \in [Blogs -> [Sessions -> 0..100]]
    BY <1>1, WhoWrites DEF RestOK
<1>4. ownViews' \subseteq Blogs
    BY <1>2, WhoWrites DEF RestOK, Moderate, historyVars
<1>5. wrote' \in [Blogs -> [Sessions -> 0..100]]
    <2>1. ASSUME NEW c \in Clients, WriteReport(c)
          PROVE  wrote' \in [Blogs -> [Sessions -> 0..100]]
        <3>1. task[c] \in Reading
            BY <2>1, Busy, TaskKinds DEF WriteReport, At, Steps
        <3>2. task[c].report.depth \in 0..100
            BY <3>1 DEF Reading, Report
        <3>3. wrote' = [wrote EXCEPT ![task[c].blog][task[c].session] = task[c].report.depth]
            BY <2>1 DEF WriteReport
        <3> QED
            BY <3>2, <3>3 DEF RestOK
    <2> QED
        BY <2>1, WhoWrites DEF RestOK
<1> QED
    BY <1>3, <1>4, <1>5, EnvStep, AnomaliesNamed DEF RestOK

\* Everything the types need.
TypeInv == TasksOK /\ RowsOK /\ JobsOK /\ RestOK

\* The tables are empty, nothing runs.
LEMMA TypeInvInit == Init => TypeInv
<1> SUFFICES ASSUME Init PROVE TypeInv
    OBVIOUS
<1>1. RowsOK
    BY FS_EmptySet DEF Init, RowsInit, RowsOK, RowsTypeOK, Statuses
<1>2. JobsOK
    BY DEF Init, JobsOK
<1>3. RestOK
    BY DEF Init, RestOK
<1> QED
    BY <1>1, <1>2, <1>3, TasksInit DEF TypeInv

\* Every step keeps the types.
LEMMA TypeInvStep == TypeInv /\ [Next]_vars => TypeInv'
<1>1. TypeInv => now \in Nat
    BY DEF TypeInv, RestOK
<1> QED
    BY <1>1, TasksStep, RowsStep, JobsStep, RestStep DEF TypeInv

-----------------------------------------------------------------------------
(* Announcements *)

\* Request x is about to announce r.
Announcing(x, r) == x.step = "announce" /\ x.row = r
Announcers(r)    == {c \in Clients : Announcing(task[c], r)}

Exact(r) == created[r] = announced[r] + Cardinality(Announcers(r))

One(p) == IF p THEN 1 ELSE 0

\* Requests are finitely many, so are those about to announce.
LEMMA AnnouncersFinite ==
    ASSUME NEW r
    PROVE  /\ IsFiniteSet(Announcers(r)) /\ Cardinality(Announcers(r)) \in Nat
           /\ IsFiniteSet(Announcers(r)') /\ Cardinality(Announcers(r)') \in Nat
<1>1. Announcers(r) \in SUBSET Clients /\ Announcers(r)' \in SUBSET Clients
    BY DEF Announcers
<1> QED
    BY <1>1, EngagementAssumption, FS_Subset, FS_CardinalityType

\* One request becomes x: those about to announce r lose or gain at most it.
LEMMA AnnouncersMove ==
    ASSUME TasksOK, NEW c \in Clients, NEW x, Becomes(c, x), NEW r
    PROVE  Cardinality(Announcers(r)') = Cardinality(Announcers(r))
              - One(Announcing(task[c], r)) + One(Announcing(x, r))
<1> DEFINE A == Announcers(r)
           B == Announcers(r)'
<1>1. task'[c] = x /\ \A d \in Clients \ {c} : task'[d] = task[d]
    BY DEF Becomes, TasksOK
<1>2. /\ A = {d \in Clients : Announcing(task[d], r)}
      /\ B = {d \in Clients : Announcing(task'[d], r)}
    BY DEF Announcers, Announcing
<1>3. /\ c \in A <=> Announcing(task[c], r)
      /\ c \in B <=> Announcing(x, r)
      /\ A \ {c} = B \ {c}
    BY <1>1, <1>2
<1>4. IsFiniteSet(A) /\ IsFiniteSet(B) /\ Cardinality(A) \in Nat /\ Cardinality(B) \in Nat
    BY AnnouncersFinite
<1> HIDE DEF A, B
<1>5. Cardinality(A \ {c}) = Cardinality(A) - One(c \in A)
    <2>1. Cardinality(A \ {c}) = IF c \in A THEN Cardinality(A) - 1 ELSE Cardinality(A)
        BY <1>4, FS_RemoveElement, Zenon
    <2> QED
        BY <1>4, <2>1 DEF One
<1>6. Cardinality(B \ {c}) = Cardinality(B) - One(c \in B)
    <2>1. Cardinality(B \ {c}) = IF c \in B THEN Cardinality(B) - 1 ELSE Cardinality(B)
        BY <1>4, FS_RemoveElement, Zenon
    <2> QED
        BY <1>4, <2>1 DEF One
<1>7. Cardinality(B) = Cardinality(A) - One(c \in A) + One(c \in B)
    BY <1>3, <1>4, <1>5, <1>6 DEF One
<1> QED
    BY <1>3, <1>7 DEF A, B, One

\* Reactions are counted, and every count is exact unless an event was lost.
AnnounceInv ==
    /\ TypeInv
    /\ announced \in [Reactions -> Nat] /\ created \in [Reactions -> Nat]
    /\ Without({"lost_event"}) => \A r \in Reactions : Exact(r)

\* A request that neither was to announce nor becomes so changes no count.
LEMMA ExactQuiet ==
    ASSUME TasksOK, UNCHANGED <<announced, created>>, NEW c \in Clients, NEW x, Becomes(c, x),
           task[c].step # "announce", x.step # "announce",
           NEW r \in Reactions, Exact(r)
    PROVE  Exact(r)'
<1>1. One(Announcing(task[c], r)) = 0 /\ One(Announcing(x, r)) = 0
    BY DEF One, Announcing
<1>2. Cardinality(Announcers(r)') = Cardinality(Announcers(r))
    BY <1>1, AnnouncersMove, AnnouncersFinite
<1> QED
    BY <1>2 DEF Exact

\* No step clears an anomaly.
LEMMA AnomaliesStay == [Next]_vars => anomalies \subseteq anomalies'
<1> SUFFICES ASSUME [Next]_vars PROVE anomalies \subseteq anomalies'
    OBVIOUS
<1>1. ASSUME NEW c \in Clients,
             StartReaction(c) \/ StartShare(c) \/ StartView(c) \/ StartRead(c)
      PROVE  anomalies' = anomalies
    BY <1>1 DEF StartReaction, StartShare, StartView, StartRead, Begin
<1>2. ASSUME NEW c \in Clients, Handle(c) PROVE anomalies \subseteq anomalies'
    BY <1>2 DEF Handle, LookReaction, WriteReaction, Announce, DeleteReaction, WriteShare,
                LookView, WriteView, WriteReport, Refused, Blame
<1>3. ASSUME NEW w \in Workers, Aggregate(w) \/ JobFails(w) PROVE anomalies \subseteq anomalies'
    BY <1>3 DEF Aggregate, StartJob, ReadFigure, WriteCounters, RefusedJob, JobFails
<1>4. ASSUME NEW c \in Clients, Fails(c) PROVE anomalies \subseteq anomalies'
    BY <1>4 DEF Fails
<1>5. ASSUME NEW b \in Blogs, Moderate(b) PROVE anomalies' = anomalies
    BY <1>5 DEF Moderate
<1>6. CASE Crash \/ Tick \/ UNCHANGED vars
    BY <1>6 DEF Crash, Tick, vars
<1> QED
    BY <1>1, <1>2, <1>3, <1>4, <1>5, <1>6 DEF Next

\* Only who writes a reaction and who announces it counts.
LEMMA WhoCounts ==
    ASSUME [Next]_vars
    PROVE  \/ UNCHANGED <<announced, created>>
           \/ \E c \in Clients : WriteReaction(c) /\ UNCHANGED announced
           \/ \E c \in Clients : Announce(c) /\ UNCHANGED created
<1>1. ASSUME NEW c \in Clients,
             StartReaction(c) \/ StartShare(c) \/ StartView(c) \/ StartRead(c) \/ Fails(c)
      PROVE  UNCHANGED <<announced, created>>
    BY <1>1 DEF StartReaction, StartShare, StartView, StartRead, Fails, historyVars
<1>2. ASSUME NEW c \in Clients,
             \/ LookReaction(c) \/ DeleteReaction(c) \/ WriteShare(c) \/ LookView(c)
             \/ WriteView(c) \/ WriteReport(c) \/ Refused(c)
      PROVE  UNCHANGED <<announced, created>>
    BY <1>2 DEF LookReaction, DeleteReaction, WriteShare, LookView, WriteView, WriteReport,
                Refused, historyVars
<1>3. ASSUME NEW w \in Workers, Aggregate(w) \/ JobFails(w)
      PROVE  UNCHANGED <<announced, created>>
    BY <1>3 DEF Aggregate, StartJob, ReadFigure, WriteCounters, RefusedJob, JobFails, historyVars
<1>4. CASE (\E b \in Blogs : Moderate(b)) \/ Crash \/ Tick \/ UNCHANGED vars
    BY <1>4 DEF Moderate, Crash, Tick, vars, historyVars
<1>5. ASSUME NEW c \in Clients, WriteReaction(c) PROVE UNCHANGED announced
    BY <1>5 DEF WriteReaction
<1>6. ASSUME NEW c \in Clients, Announce(c) PROVE UNCHANGED created
    BY <1>6 DEF Announce
<1> QED
    BY <1>1, <1>2, <1>3, <1>4, <1>5, <1>6 DEF Next, Handle

\* A reaction written by somebody with a profile is one more created, and one
\* more to announce.
LEMMA ExactWritten ==
    ASSUME AnnounceInv, NEW c \in Clients, WriteReaction(c), NEW r \in Reactions, Exact(r)
    PROVE  Exact(r)'
<1> DEFINE q == task[c].row
<1>1. /\ task[c] # Idle /\ task[c].step = "write" /\ task[c].op \in {"like", "save"}
      /\ TasksOK /\ created \in [Reactions -> Nat] /\ announced \in [Reactions -> Nat]
    BY DEF WriteReaction, At, Idle, AnnounceInv, TypeInv
<1>2. q \in Reactions
    BY <1>1, Busy, TaskKinds DEF Reaction
<1>3. announced' = announced
    BY DEF WriteReaction
<1>4. CASE q.person \in Profiled
    <2>1. created' = [created EXCEPT ![q] = @ + 1] /\ Goto(c, "announce")
        BY <1>4 DEF WriteReaction
    <2>2. PICK x \in Task : Becomes(c, x) /\ x.step = "announce" /\ x.row = q
        BY <1>1, <2>1, GotoBecomes DEF Steps
    <2>3. One(Announcing(task[c], r)) = 0 /\ One(Announcing(x, r)) = IF r = q THEN 1 ELSE 0
        BY <1>1, <2>2 DEF One, Announcing
    <2>4. Cardinality(Announcers(r)') = Cardinality(Announcers(r)) + IF r = q THEN 1 ELSE 0
        BY <1>1, <2>2, <2>3, AnnouncersMove, AnnouncersFinite
    <2>5. created'[r] = created[r] + IF r = q THEN 1 ELSE 0
        BY <1>1, <1>2, <2>1
    <2>6. created[r] \in Nat /\ announced[r] \in Nat /\ Cardinality(Announcers(r)) \in Nat
        BY <1>1, AnnouncersFinite
    <2> QED
        BY <1>3, <2>4, <2>5, <2>6 DEF Exact
<1>5. CASE q.person \notin Profiled
    <2>1. created' = [created EXCEPT ![q] = @ + 0] /\ Done(c)
        BY <1>5 DEF WriteReaction
    <2>2. created' = created
        BY <1>1, <1>2, <2>1
    <2> QED
        BY <1>1, <1>3, <2>1, <2>2, DoneBecomes, ExactQuiet DEF Idle
<1> QED
    BY <1>4, <1>5

\* An announcement is one more, and one less to come.
LEMMA ExactAnnounced ==
    ASSUME AnnounceInv, NEW c \in Clients, Announce(c), NEW r \in Reactions, Exact(r)
    PROVE  Exact(r)'
<1> DEFINE q == task[c].row
<1>1. /\ task[c].step = "announce"
      /\ TasksOK /\ created \in [Reactions -> Nat] /\ announced \in [Reactions -> Nat]
    BY DEF Announce, AnnounceInv, TypeInv
<1>2. q \in Reactions
    <2>1. task[c] \in Task /\ Sensible(task[c])
        BY <1>1, Busy DEF Steps
    <2> QED
        BY <1>1, <2>1, TaskKinds DEF Sensible, Reaction
<1>3. created' = created /\ announced' = [announced EXCEPT ![q] = @ + 1] /\ Done(c)
    BY DEF Announce
<1>4. One(Announcing(task[c], r)) = (IF r = q THEN 1 ELSE 0) /\ One(Announcing(Idle, r)) = 0
    BY <1>1 DEF One, Announcing, Idle
<1>5. Cardinality(Announcers(r)') = Cardinality(Announcers(r)) - IF r = q THEN 1 ELSE 0
    BY <1>1, <1>3, <1>4, DoneBecomes, AnnouncersMove, AnnouncersFinite
<1>6. announced'[r] = announced[r] + IF r = q THEN 1 ELSE 0
    BY <1>1, <1>2, <1>3
<1>7. created[r] \in Nat /\ announced[r] \in Nat /\ Cardinality(Announcers(r)) \in Nat
    BY <1>1, AnnouncersFinite
<1> QED
    BY <1>3, <1>5, <1>6, <1>7 DEF Exact

\* Every step keeps the counts exact, or loses an event.
LEMMA AnnounceStep == AnnounceInv /\ [Next]_vars => AnnounceInv'
<1> SUFFICES ASSUME AnnounceInv, [Next]_vars PROVE AnnounceInv'
    OBVIOUS
<1>1. TypeInv' /\ TasksOK /\ TasksOK' /\ RowsOK
    BY TypeInvStep DEF AnnounceInv, TypeInv
<1>2. announced' \in [Reactions -> Nat] /\ created' \in [Reactions -> Nat]
    <2>1. announced \in [Reactions -> Nat] /\ created \in [Reactions -> Nat]
        BY DEF AnnounceInv
    <2>2. ASSUME NEW c \in Clients, WriteReaction(c) PROVE created' \in [Reactions -> Nat]
        <3> DEFINE q == task[c].row
                   n == IF q.person \in Profiled THEN 1 ELSE 0
        <3>1. n \in Nat /\ created' = [created EXCEPT ![q] = created[q] + n]
            BY <2>2 DEF WriteReaction
        <3>2. \A r \in Reactions : created[r] + n \in Nat
            BY <2>1, <3>1
        <3> HIDE DEF n, q
        <3> QED
            BY <2>1, <3>1, <3>2
    <2>3. ASSUME NEW c \in Clients, Announce(c) PROVE announced' \in [Reactions -> Nat]
        <3>1. announced' = [announced EXCEPT ![task[c].row] = announced[task[c].row] + 1]
            BY <2>3 DEF Announce
        <3>2. \A r \in Reactions : announced[r] + 1 \in Nat
            BY <2>1
        <3> QED
            BY <2>1, <3>1, <3>2
    <2> QED
        BY <2>1, <2>2, <2>3, WhoCounts
<1>3. ASSUME "lost_event" \notin anomalies', NEW r \in Reactions PROVE Exact(r)'
    <2>1. "lost_event" \notin anomalies /\ Exact(r)
        BY <1>3, AnomaliesStay DEF AnnounceInv, Without
    <2>2. ASSUME UNCHANGED <<task, announced, created>> PROVE Exact(r)'
        BY <2>1, <2>2 DEF Exact, Announcers
    <2>3. ASSUME NEW c \in Clients, NEW x, Becomes(c, x), UNCHANGED <<announced, created>>,
                 task[c].step # "announce", x.step # "announce"
          PROVE  Exact(r)'
        BY <1>1, <2>1, <2>3, ExactQuiet
    <2>4. ASSUME NEW c \in Clients,
                 StartReaction(c) \/ StartShare(c) \/ StartView(c) \/ StartRead(c)
          PROVE  Exact(r)'
        <3>1. UNCHANGED <<announced, created>>
            BY <2>4 DEF StartReaction, StartShare, StartView, StartRead, historyVars
        <3>2. task[c] = Idle /\ \E x \in Task : Becomes(c, x) /\ x.step # "announce"
            BY <1>1, <2>4, StartReactionBecomes, StartShareBecomes, StartViewBecomes,
               StartReadBecomes
        <3> QED
            BY <2>3, <3>1, <3>2 DEF Idle
    <2>5. ASSUME NEW c \in Clients, LookReaction(c) \/ LookView(c) PROVE Exact(r)'
        <3>1. UNCHANGED <<announced, created>> /\ task[c].step = "look" /\ task[c] # Idle
            BY <2>5 DEF LookReaction, LookView, At, historyVars, Idle
        <3>2. \E x : Becomes(c, x) /\ x.step # "announce"
            BY <1>1, <2>5, LooksOn DEF Idle
        <3> QED
            BY <2>3, <3>1, <3>2
    <2>6. ASSUME NEW c \in Clients,
                 DeleteReaction(c) \/ WriteShare(c) \/ WriteView(c) \/ WriteReport(c) \/ Refused(c)
          PROVE  Exact(r)'
        <3>1. UNCHANGED <<announced, created>> /\ task[c].step = "write" /\ Done(c)
            BY <2>6 DEF DeleteReaction, WriteShare, WriteView, WriteReport, Refused, At, historyVars
        <3> QED
            BY <1>1, <2>3, <3>1, DoneBecomes DEF Idle
    <2>7. ASSUME NEW c \in Clients, WriteReaction(c) \/ Announce(c) PROVE Exact(r)'
        BY <2>1, <2>7, ExactWritten, ExactAnnounced
    <2>8. ASSUME NEW c \in Clients, Fails(c) PROVE Exact(r)'
        <3>1. UNCHANGED <<announced, created>> /\ Done(c) /\ Lost(task[c]) \subseteq anomalies'
            BY <2>8 DEF Fails, historyVars
        <3>2. task[c].step # "announce"
            BY <1>3, <3>1 DEF Lost
        <3> QED
            BY <1>1, <2>3, <3>1, <3>2, DoneBecomes DEF Idle
    <2>9. CASE Crash
        <3>1. /\ UNCHANGED <<announced, created>>
              /\ \A c \in Clients : Lost(task[c]) \subseteq anomalies'
              /\ \A c \in Clients : task'[c] = Idle
            BY <2>9 DEF Crash, historyVars
        <3>2. \A c \in Clients : task[c].step # "announce"
            BY <1>3, <3>1 DEF Lost
        <3>3. Announcers(r) = {} /\ Announcers(r)' = {}
            BY <3>1, <3>2 DEF Announcers, Announcing, Idle
        <3> QED
            BY <2>1, <3>1, <3>3 DEF Exact
    <2>10. CASE (\E w \in Workers : Aggregate(w) \/ JobFails(w)) \/ (\E b \in Blogs : Moderate(b))
                  \/ Tick \/ UNCHANGED vars
        BY <2>2, <2>10 DEF Aggregate, StartJob, ReadFigure, WriteCounters, RefusedJob, JobFails,
                           Moderate, Tick, historyVars, vars
    <2> QED
        BY <2>4, <2>5, <2>6, <2>7, <2>8, <2>9, <2>10 DEF Next, Handle
<1> QED
    BY <1>1, <1>2, <1>3 DEF AnnounceInv, Without

\* Nothing created, nothing announced.
LEMMA AnnounceInit == Init => AnnounceInv
<1> SUFFICES ASSUME Init PROVE AnnounceInv
    OBVIOUS
<1>1. \A r : Announcers(r) = {}
    BY DEF Init, Announcers, Announcing, Idle
<1>2. \A r \in Reactions : announced[r] = 0 /\ created[r] = 0
    BY DEF Init
<1>3. \A r \in Reactions : Exact(r)
    BY <1>1, <1>2, FS_EmptySet DEF Exact
<1>4. announced \in [Reactions -> Nat] /\ created \in [Reactions -> Nat]
    BY DEF Init
<1> QED
    BY <1>3, <1>4, TypeInvInit DEF AnnounceInv

\* toggleLike and toggleSave of somebody with a profile are announced exactly
\* once for each row created, or about to be, however often the reaction is
\* taken back and given again, unless a request failed after it wrote.
THEOREM AnnouncementsExact == Spec => []AnnouncedOnce
<1>1. AnnounceInv => AnnouncedOnce
    BY DEF AnnounceInv, AnnouncedOnce, Exact, Announcers, Announcing
<1> QED
    BY <1>1, AnnounceInit, AnnounceStep, PTL DEF Spec

\* Likes, saves, shares, views, progress, counters, requests and runs of the
\* job keep their types for any number of blogs, people, requests and runs.
THEOREM EngagementTyped == Spec => []TypeOK
<1>1. TypeInv /\ AnnounceInv => TypeOK
    <2> SUFFICES ASSUME TypeInv, AnnounceInv PROVE TypeOK
        OBVIOUS
    <2>1. ASSUME NEW w \in Workers, job[w] # Idle
          PROVE  /\ job[w].batch \subseteq Blogs
                 /\ job[w].overlapped \in BOOLEAN
                 /\ \E F \in SUBSET Figures : /\ job[w].figures \in [F -> [Blogs -> Nat]]
                                             /\ DOMAIN job[w].rows = F
        <3>1. job[w] \in Run /\ Faithful(job[w])
            BY <2>1 DEF TypeInv, JobsOK
        <3> QED
            BY <3>1 DEF Run, Read, Faithful
    <2> QED
        BY <2>1 DEF TypeInv, TasksOK, RowsOK, RestOK, AnnounceInv, TypeOK
<1> QED
    BY <1>1, TypeInvInit, TypeInvStep, AnnounceInit, AnnounceStep, PTL DEF Spec

-----------------------------------------------------------------------------
(* Summaries *)

Total(b)  == Len(views[b])
Unique(b) == Cardinality({views[b][i].address : i \in DOMAIN views[b]})

\* The two figures of views.
LEMMA ViewFigures ==
    ASSUME RowsOK, NEW b \in Blogs
    PROVE  /\ Figure("views", b) = Total(b) /\ Figure("unique", b) = Unique(b)
           /\ Total(b) \in Nat /\ Unique(b) \in Nat /\ Unique(b) <= Total(b)
<1>1. Figure("views", b) = Total(b) /\ Figure("unique", b) = Unique(b)
    BY DEF Figure, Made, Rows, Total, Unique
<1>2. views[b] \in Seq(View) /\ Total(b) \in Nat /\ DOMAIN views[b] = 1..Total(b)
    BY DEF RowsOK, RowsTypeOK, Total
<1> DEFINE A == {views[b][i].address : i \in 1..Total(b)}
           f == [i \in 1..Total(b) |-> views[b][i].address]
<1>3. f \in Surjection(1..Total(b), A)
    BY DEF Surjection
<1>4. IsFiniteSet(1..Total(b)) /\ Cardinality(1..Total(b)) = Total(b)
    <2>1. 1 \in Int /\ Total(b) \in Int
        BY <1>2
    <2>2. /\ IsFiniteSet(1..Total(b))
          /\ Cardinality(1..Total(b)) = IF 1 > Total(b) THEN 0 ELSE Total(b) - 1 + 1
        BY <2>1, FS_Interval, Zenon
    <2> QED
        BY <1>2, <2>2
<1> HIDE DEF f, A
<1>5. IsFiniteSet(A) /\ Cardinality(A) <= Cardinality(1..Total(b))
    BY <1>3, <1>4, FS_Surjection, Zenon
<1>6. Cardinality(A) \in Nat
    BY <1>5, FS_CardinalityType
<1>7. Unique(b) = Cardinality(A)
    BY <1>2 DEF Unique, A
<1> QED
    BY <1>1, <1>2, <1>4, <1>5, <1>6, <1>7

\* What a summary says of views.
ShownTotal(b)  == Shown(b)["views"]
ShownUnique(b) == Shown(b)["unique"]

\* It says numbers.
LEMMA ShownTypes ==
    ASSUME RowsOK, NEW b \in Blogs
    PROVE  /\ ShownTotal(b) \in Nat /\ ShownUnique(b) \in Nat
           /\ counters[b] = None => ShownTotal(b) = 0 /\ ShownUnique(b) = 0
<1>1. {"views", "unique"} \subseteq Figures
    BY EngagementRowsAssumption
<1> QED
    BY <1>1 DEF RowsOK, RowsTypeOK, ShownTotal, ShownUnique, Shown, Zero

\* A run knows of every blog that stays no more views than there are; if no
\* other run has written since it began, no fewer than the summary says; and,
\* unless a view came between, no more addresses than views.
RunKnows(j) ==
    /\ "views" \in DOMAIN j.figures =>
          \A b \in Blogs : status[b] # "gone" =>
             /\ j.figures["views"][b] <= Total(b)
             /\ ~j.overlapped => ShownTotal(b) <= j.figures["views"][b]
    /\ "unique" \in DOMAIN j.figures => "views" \in DOMAIN j.figures
    /\ "straddled" \notin anomalies =>
          /\ "unique" \in DOMAIN j.figures =>
                \A b \in Blogs : j.figures["unique"][b] <= j.figures["views"][b]
          /\ "views" \in DOMAIN j.figures /\ "unique" \notin DOMAIN j.figures =>
                \A b \in Blogs : Unique(b) <= j.figures["views"][b]

RunsKnow == \A w \in Workers : job[w] # Idle => RunKnows(job[w])

\* What summaries say, against the rows.
Summed ==
    \A b \in Blogs : /\ status[b] = "gone" => views[b] = <<>> /\ counters[b] = None
                     /\ ShownTotal(b) <= Total(b)
                     /\ "straddled" \notin anomalies => ShownUnique(b) <= ShownTotal(b)

SummaryInv == TypeInv /\ RunsKnow /\ Summed

\* Steps that touch neither views nor summaries nor runs.
LEMMA SummaryStill ==
    ASSUME SummaryInv, [Next]_vars, UNCHANGED <<status, views, counters, job>>
    PROVE  RunsKnow' /\ Summed'
<1>1. "straddled" \notin anomalies' => "straddled" \notin anomalies
    BY AnomaliesStay
<1>2. \A b \in Blogs : /\ Total(b)' = Total(b) /\ Unique(b)' = Unique(b)
                       /\ ShownTotal(b)' = ShownTotal(b) /\ ShownUnique(b)' = ShownUnique(b)
    BY DEF Total, Unique, ShownTotal, ShownUnique, Shown, Zero
<1>3. RunsKnow'
    BY <1>1, <1>2 DEF SummaryInv, RunsKnow, RunKnows
<1>4. Summed'
    BY <1>1, <1>2 DEF SummaryInv, Summed
<1> QED
    BY <1>3, <1>4

\* A view only adds; unless a run is between its two counts, which is an anomaly.
LEMMA SummaryViewed ==
    ASSUME SummaryInv, [Next]_vars, NEW c \in Clients, WriteView(c)
    PROVE  RunsKnow' /\ Summed'
<1> DEFINE d == task[c].blog
           v == [address |-> task[c].address, session |-> task[c].session, at |-> now]
<1>0. TypeInv /\ RowsOK /\ JobsOK /\ RowsOK'
    BY TypeInvStep DEF SummaryInv, TypeInv
<1>1. /\ UNCHANGED <<status, counters, job>> /\ status[d] # "gone"
      /\ views' = [views EXCEPT ![d] = Append(views[d], v)]
      /\ (\E w \in Workers : Counting(w)) => "straddled" \in anomalies'
    BY DEF WriteView
<1>2. "straddled" \notin anomalies' => "straddled" \notin anomalies
    BY AnomaliesStay
<1> HIDE DEF v
<1>3. \A b \in Blogs : /\ Total(b) <= Total(b)'
                       /\ ShownTotal(b)' = ShownTotal(b) /\ ShownUnique(b)' = ShownUnique(b)
                       /\ b # d => views'[b] = views[b]
                       /\ Total(b) \in Nat /\ Total(b)' \in Nat /\ ShownTotal(b) \in Nat
    <2> SUFFICES ASSUME NEW b \in Blogs
                 PROVE /\ Total(b) <= Total(b)'
                       /\ ShownTotal(b)' = ShownTotal(b) /\ ShownUnique(b)' = ShownUnique(b)
                       /\ b # d => views'[b] = views[b]
                       /\ Total(b) \in Nat /\ Total(b)' \in Nat /\ ShownTotal(b) \in Nat
        OBVIOUS
    <2>1. views \in [Blogs -> Seq(View)] /\ views'[b] \in Seq(View) /\ views[b] \in Seq(View)
        BY <1>0 DEF RowsOK, RowsTypeOK
    <2>2. b = d => Len(views'[b]) = Len(views[b]) + 1
        <3>1. CASE b = d
            <4>1. views'[b] = Append(views[b], v)
                BY <1>1, <2>1, <3>1
            <4> QED
                BY <2>1, <4>1
        <3> QED
            BY <3>1
    <2>3. b # d => views'[b] = views[b]
        BY <1>1, <2>1
    <2>4. Total(b) \in Nat /\ Total(b)' \in Nat
        BY <2>1 DEF Total
    <2>5. Total(b) <= Total(b)'
        BY <2>2, <2>3, <2>4 DEF Total
    <2> QED
        BY <1>0, <1>1, <2>3, <2>4, <2>5, ShownTypes DEF ShownTotal, ShownUnique, Shown, Zero
<1>4. ASSUME NEW w \in Workers, job'[w] # Idle PROVE RunKnows(job[w])'
    <2>1. RunKnows(job[w]) /\ job'[w] = job[w] /\ job[w] \in Run
        BY <1>0, <1>1, <1>4 DEF SummaryInv, RunsKnow, JobsOK
    <2>2. ASSUME "views" \in DOMAIN job[w].figures
          PROVE  \A b \in Blogs : job[w].figures["views"][b] \in Nat
        BY <2>1, <2>2 DEF Run, Read
    <2>3. "straddled" \notin anomalies' => ~Counting(w)
        BY <1>1
    <2> QED
        BY <1>1, <1>2, <1>3, <1>4, <2>1, <2>2, <2>3 DEF RunKnows, Counting
<1>5. Summed'
    <2>1. \A b \in Blogs : status'[b] = "gone" => b # d
        BY <1>1
    <2> QED
        BY <1>1, <1>2, <1>3, <2>1 DEF SummaryInv, Summed
<1> QED
    BY <1>1, <1>4, <1>5 DEF RunsKnow

\* A blog that is erased is gone with its rows; otherwise only readers see a change.
LEMMA SummaryModerated ==
    ASSUME SummaryInv, [Next]_vars, NEW d \in Blogs, Moderate(d)
    PROVE  RunsKnow' /\ Summed'
<1>0. TypeInv /\ RowsOK /\ JobsOK
    BY DEF SummaryInv, TypeInv
<1>1. job' = job /\ anomalies' = anomalies /\ status[d] # "gone"
    BY DEF Moderate
<1>2. \A b \in Blogs : /\ status'[b] # "gone" => /\ status[b] # "gone"
                                                 /\ views'[b] = views[b] /\ counters'[b] = counters[b]
                       /\ status'[b] = "gone" => \/ views'[b] = <<>> /\ counters'[b] = None
                                                 \/ /\ status[b] = "gone" /\ views'[b] = views[b]
                                                    /\ counters'[b] = counters[b]
    BY <1>0, <1>1 DEF Moderate, Erased, RowsOK, RowsTypeOK, Statuses
<1>3. \A b \in Blogs : views'[b] = <<>> \/ views'[b] = views[b]
    BY <1>2
<1>4. \A b \in Blogs : /\ views'[b] = <<>> => Total(b)' = 0 /\ Unique(b)' = 0
                       /\ views'[b] = views[b] => Total(b)' = Total(b) /\ Unique(b)' = Unique(b)
    <2> TAKE b \in Blogs
    <2>1. ASSUME views'[b] = <<>> PROVE Total(b)' = 0 /\ Unique(b)' = 0
        <3>1. Len(views'[b]) = 0 /\ DOMAIN views'[b] = {}
            BY <2>1
        <3>2. {views'[b][i].address : i \in DOMAIN views'[b]} = {}
            BY <3>1
        <3>3. Cardinality({views'[b][i].address : i \in DOMAIN views'[b]}) = 0
            BY <3>2, FS_EmptySet
        <3> QED
            BY <3>1, <3>3 DEF Total, Unique
    <2>2. ASSUME views'[b] = views[b] PROVE Total(b)' = Total(b) /\ Unique(b)' = Unique(b)
        BY <2>2 DEF Total, Unique
    <2> QED
        BY <2>1, <2>2
<1>5. \A b \in Blogs :
         /\ counters'[b] = None => ShownTotal(b)' = 0 /\ ShownUnique(b)' = 0
         /\ counters'[b] = counters[b] =>
               ShownTotal(b)' = ShownTotal(b) /\ ShownUnique(b)' = ShownUnique(b)
    BY EngagementRowsAssumption DEF ShownTotal, ShownUnique, Shown, Zero
<1>6. ASSUME NEW w \in Workers, job'[w] # Idle PROVE RunKnows(job[w])'
    <2>1. RunKnows(job[w]) /\ job'[w] = job[w] /\ job[w] \in Run
        BY <1>0, <1>1, <1>6 DEF SummaryInv, RunsKnow, JobsOK
    <2>2. ASSUME "views" \in DOMAIN job[w].figures
          PROVE  \A b \in Blogs : job[w].figures["views"][b] \in Nat
        BY <2>1, <2>2 DEF Run, Read
    <2> QED
        BY <1>1, <1>2, <1>3, <1>4, <1>5, <2>1, <2>2 DEF RunKnows
<1>7. Summed'
    BY <1>1, <1>2, <1>4, <1>5 DEF SummaryInv, Summed
<1> QED
    BY <1>6, <1>7 DEF RunsKnow

\* A run that begins knows nothing; one that ends, too.
LEMMA SummaryRunsEnd ==
    ASSUME SummaryInv, [Next]_vars,
           (\E w \in Workers : StartJob(w) \/ RefusedJob(w) \/ JobFails(w)) \/ Crash
    PROVE  RunsKnow' /\ Summed'
<1>1. /\ UNCHANGED <<status, views, counters>>
      /\ \A v \in Workers : \/ job'[v] = job[v] \/ job'[v] = Idle
                            \/ DOMAIN job'[v].figures = {}
    <2>1. ASSUME NEW w \in Workers, StartJob(w)
          PROVE  /\ UNCHANGED <<status, views, counters>>
                 /\ \A v \in Workers : job'[v] = job[v] \/ DOMAIN job'[v].figures = {}
        <3>1. /\ UNCHANGED <<status, views, counters>>
              /\ job' = [job EXCEPT ![w] = [step |-> "read",
                            batch |-> {b \in Blogs : status[b] = "published"},
                            figures |-> <<>>, rows |-> <<>>, overlapped |-> FALSE]]
            BY <2>1 DEF StartJob, rowVars
        <3>2. DOMAIN <<>> = {}
            OBVIOUS
        <3> QED
            BY <3>1, <3>2 DEF SummaryInv, TypeInv, JobsOK
    <2>2. ASSUME NEW w \in Workers, RefusedJob(w) \/ JobFails(w)
          PROVE  /\ UNCHANGED <<status, views, counters>>
                 /\ \A v \in Workers : job'[v] = job[v] \/ job'[v] = Idle
        BY <2>2 DEF RefusedJob, JobFails, rowVars, SummaryInv, TypeInv, JobsOK
    <2>3. CASE Crash
        BY <2>3 DEF Crash, rowVars
    <2> QED
        BY <2>1, <2>2, <2>3
<1>2. "straddled" \notin anomalies' => "straddled" \notin anomalies
    BY AnomaliesStay
<1>3. \A b \in Blogs : /\ Total(b)' = Total(b) /\ Unique(b)' = Unique(b)
                       /\ ShownTotal(b)' = ShownTotal(b) /\ ShownUnique(b)' = ShownUnique(b)
    BY <1>1 DEF Total, Unique, ShownTotal, ShownUnique, Shown, Zero
<1>4. RunsKnow'
    BY <1>1, <1>2, <1>3 DEF SummaryInv, RunsKnow, RunKnows
<1>5. Summed'
    BY <1>1, <1>2, <1>3 DEF SummaryInv, Summed
<1> QED
    BY <1>4, <1>5

\* A run reads a figure: of views, at least what the summary says; of
\* addresses, last, at most the views it has.
LEMMA SummaryRead ==
    ASSUME SummaryInv, [Next]_vars, NEW w \in Workers, ReadFigure(w)
    PROVE  RunsKnow' /\ Summed'
<1>0. RowsOK /\ JobsOK /\ {"views", "unique"} \subseteq Figures
    BY EngagementRowsAssumption DEF SummaryInv, TypeInv
<1>1. PICK f \in Figures : ReadFigure(w)!(f)
    BY DEF ReadFigure
<1> DEFINE done == DOMAIN job[w].figures
           F == [g \in done \cup {f} |-> IF g = f THEN [b \in Blogs |-> Figure(f, b)]
                                                 ELSE job[w].figures[g]]
           R == [g \in done \cup {f} |-> IF g = f THEN [b \in Blogs |-> Rows(f, b)]
                                                 ELSE job[w].rows[g]]
           x == [job[w] EXCEPT !.figures = F, !.rows = R]
<1>2. /\ job[w] \in Run /\ RunKnows(job[w]) /\ f \notin done
      /\ f = "unique" => done = Figures \ {"unique"}
      /\ UNCHANGED <<status, views, counters, anomalies>>
    BY <1>0, <1>1 DEF JobsOK, SummaryInv, RunsKnow, MayRead, rowVars
<1>2a. job' = [job EXCEPT ![w] = x]
    <2>1. job' = [job EXCEPT ![w].figures = F, ![w].rows = R]
        BY <1>1
    <2> HIDE DEF F, R
    <2> QED
        BY <1>0, <2>1 DEF JobsOK
<1>3. x.figures = F /\ x.overlapped = job[w].overlapped
    BY <1>2 DEF Run
<1>4. /\ DOMAIN F = done \cup {f}
      /\ \A g \in done : F[g] = job[w].figures[g]
      /\ \A b \in Blogs : F[f][b] = Figure(f, b)
    BY <1>2
<1>5. \A v \in Workers : job'[v] = IF v = w THEN x ELSE job[v]
    BY <1>0, <1>2, <1>2a DEF JobsOK
<1> HIDE DEF F, R, x
<1>6. \A b \in Blogs : /\ Total(b)' = Total(b) /\ Unique(b)' = Unique(b)
                       /\ ShownTotal(b)' = ShownTotal(b) /\ ShownUnique(b)' = ShownUnique(b)
    BY <1>2 DEF Total, Unique, ShownTotal, ShownUnique, Shown, Zero
<1>7. \A b \in Blogs : /\ Figure("views", b) = Total(b) /\ Figure("unique", b) = Unique(b)
                       /\ Total(b) \in Nat /\ Unique(b) \in Nat /\ Unique(b) <= Total(b)
                       /\ ShownTotal(b) <= Total(b)
    BY <1>0, ViewFigures DEF SummaryInv, Summed
<1>8. RunKnows(x)
    <2>1. CASE f = "views"
        <3>1. "unique" \notin done
            BY <1>2, <2>1 DEF RunKnows
        <3> QED
            BY <1>3, <1>4, <1>7, <2>1, <3>1 DEF RunKnows
    <2>2. CASE f = "unique"
        <3>1. "views" \in done
            BY <1>0, <1>2, <2>2
        <3> QED
            BY <1>2, <1>3, <1>4, <1>7, <2>2, <3>1 DEF RunKnows
    <2>3. CASE f \notin {"views", "unique"}
        BY <1>2, <1>3, <1>4, <2>3 DEF RunKnows
    <2> QED
        BY <2>1, <2>2, <2>3
<1>9. RunsKnow'
    BY <1>2, <1>5, <1>6, <1>8 DEF SummaryInv, RunsKnow, RunKnows
<1>10. Summed'
    BY <1>2, <1>6 DEF SummaryInv, Summed
<1> QED
    BY <1>9, <1>10

\* What the summaries of a batch say once a run has written.
LEMMA WrittenSummaries ==
    ASSUME SummaryInv, NEW w \in Workers, WriteCounters(w)
    PROVE  /\ UNCHANGED <<status, views>>
           /\ job[w] \in Run /\ RunKnows(job[w])
           /\ {"views", "unique"} \subseteq DOMAIN job[w].figures
           /\ \A b \in Blogs :
                 \/ /\ b \in job[w].batch /\ status[b] # "gone"
                    /\ ShownTotal(b)' = job[w].figures["views"][b]
                    /\ ShownUnique(b)' = job[w].figures["unique"][b]
                 \/ /\ counters'[b] = counters[b]
                    /\ ShownTotal(b)' = ShownTotal(b) /\ ShownUnique(b)' = ShownUnique(b)
<1>0. JobsOK /\ {"views", "unique"} \subseteq Figures
    BY EngagementRowsAssumption DEF SummaryInv, TypeInv
<1>1. /\ Ready(w) /\ counters' = Upserts(w) /\ UNCHANGED <<status, views>>
      /\ \A b \in job[w].batch : status[b] # "gone"
    BY DEF WriteCounters
<1>2. /\ job[w] \in Run /\ job[w].figures \in [Figures -> [Blogs -> Nat]]
      /\ Result(w) \in [job[w].batch -> [Figures -> Nat]]
    BY <1>0, <1>1, ResultTypes
<1>3. RunKnows(job[w])
    BY <1>1 DEF Ready, SummaryInv, RunsKnow
<1>4. ASSUME NEW b \in Blogs, b \in job[w].batch
      PROVE  /\ ShownTotal(b)' = job[w].figures["views"][b]
             /\ ShownUnique(b)' = job[w].figures["unique"][b]
    <2>1. counters'[b] = Result(w)[b]
        BY <1>1, <1>4 DEF Upserts
    <2>2. counters'[b] \in [Figures -> Nat] /\ counters'[b] # None
        BY <1>2, <1>4, <2>1, EngagementRowsAssumption
    <2>3. \A f \in Figures : Result(w)[b][f] = job[w].figures[f][b]
        BY <1>4 DEF Result
    <2> QED
        BY <1>0, <2>1, <2>2, <2>3 DEF ShownTotal, ShownUnique, Shown
<1>5. ASSUME NEW b \in Blogs, b \notin job[w].batch
      PROVE  /\ counters'[b] = counters[b]
             /\ ShownTotal(b)' = ShownTotal(b) /\ ShownUnique(b)' = ShownUnique(b)
    BY <1>1, <1>5 DEF Upserts, ShownTotal, ShownUnique, Shown, Zero
<1> QED
    BY <1>0, <1>1, <1>2, <1>3, <1>4, <1>5

\* A run writes: the others are overlapped now, and summaries are what it knew.
LEMMA SummaryWritten ==
    ASSUME SummaryInv, [Next]_vars, NEW w \in Workers, WriteCounters(w)
    PROVE  RunsKnow' /\ Summed'
<1>1. "straddled" \notin anomalies' => "straddled" \notin anomalies
    BY AnomaliesStay
<1>2. /\ UNCHANGED <<status, views>> /\ RunKnows(job[w])
      /\ {"views", "unique"} \subseteq DOMAIN job[w].figures
    BY WrittenSummaries
<1>3. \A b \in Blogs : Total(b)' = Total(b) /\ Unique(b)' = Unique(b)
    BY <1>2 DEF Total, Unique
<1>4. Summed'
    <2>1. ASSUME NEW b \in Blogs, status'[b] = "gone" PROVE counters'[b] = counters[b]
        BY <1>2, <2>1, WrittenSummaries
    <2>2. ASSUME NEW b \in Blogs
          PROVE  /\ ShownTotal(b)' <= Total(b)
                 /\ "straddled" \notin anomalies => ShownUnique(b)' <= ShownTotal(b)'
        BY <1>2, WrittenSummaries DEF RunKnows, SummaryInv, Summed
    <2> QED
        BY <1>1, <1>2, <1>3, <2>1, <2>2 DEF SummaryInv, Summed
<1>5. ASSUME NEW v \in Workers, job'[v] # Idle PROVE RunKnows(job[v])'
    <2>1. job'[v] = [job[v] EXCEPT !.overlapped = TRUE] /\ job[v] # Idle
        BY <1>5 DEF WriteCounters
    <2>2. job[v] \in Run /\ RunKnows(job[v])
        BY <2>1 DEF SummaryInv, TypeInv, JobsOK, RunsKnow
    <2>3. job'[v].figures = job[v].figures /\ job'[v].overlapped
        BY <2>1, <2>2 DEF Run
    <2> QED
        BY <1>1, <1>2, <1>3, <2>2, <2>3 DEF RunKnows
<1> QED
    BY <1>4, <1>5 DEF RunsKnow

\* Every step.
LEMMA SummaryStep == SummaryInv /\ [Next]_vars => SummaryInv'
<1> SUFFICES ASSUME SummaryInv, [Next]_vars PROVE SummaryInv'
    OBVIOUS
<1>1. TypeInv'
    BY TypeInvStep DEF SummaryInv
<1>2. \/ UNCHANGED <<status, views, counters, job>>
      \/ \E c \in Clients : WriteView(c)
      \/ \E b \in Blogs : Moderate(b)
      \/ \E w \in Workers : Aggregate(w) \/ JobFails(w)
      \/ Crash
    BY WhoWrites DEF Aggregate
<1>3. RunsKnow' /\ Summed'
    BY <1>2, SummaryStill, SummaryViewed, SummaryModerated, SummaryRunsEnd, SummaryRead,
       SummaryWritten DEF Aggregate
<1> QED
    BY <1>1, <1>3 DEF SummaryInv

\* No views, no summaries.
LEMMA SummaryInit == Init => SummaryInv
<1> SUFFICES ASSUME Init PROVE SummaryInv
    OBVIOUS
<1>1. TypeInv /\ RowsOK
    BY TypeInvInit DEF TypeInv
<1>2. \A b \in Blogs : status[b] = "published" /\ views[b] = <<>> /\ counters[b] = None
    BY DEF Init, RowsInit
<1>3. Summed
    BY <1>1, <1>2, ShownTypes DEF Summed, Total
<1>4. RunsKnow
    BY DEF Init, RunsKnow
<1> QED
    BY <1>1, <1>3, <1>4 DEF SummaryInv

\* getBlogEngagement never shows more unique than total views, whatever runs
\* of the aggregation job overlap, unless a view came between the job's two
\* counts of views.
THEOREM UniqueBelowTotal == Spec => []UniqueWithinTotal
<1>1. SummaryInv => UniqueWithinTotal
    BY DEF SummaryInv, Summed, UniqueWithinTotal, Without, ShownTotal, ShownUnique
<1> QED
    BY <1>1, SummaryInit, SummaryStep, PTL DEF Spec

\* The summary of a blog that stays never loses views, but to a run of the job
\* that another run overtook.
THEOREM SummariesGrow == Spec => CountsOnlyGrow
<1>1. SummaryInv /\ [Next]_vars =>
         [\A b \in Blogs : status'[b] # "gone" /\ Shown(b)'["views"] < Shown(b)["views"]
                             => "overlapping" \in anomalies']_vars
    <2> SUFFICES ASSUME SummaryInv, [Next]_vars, NEW b \in Blogs, status'[b] # "gone",
                        ShownTotal(b)' < ShownTotal(b)
                 PROVE  "overlapping" \in anomalies'
        BY DEF ShownTotal
    <2>0. RowsOK /\ RowsOK' /\ ShownTotal(b) \in Nat /\ ShownTotal(b)' \in Nat
        <3>1. RowsOK /\ RowsOK'
            BY TypeInvStep DEF SummaryInv, TypeInv
        <3>2. ShownTotal(b) \in Nat
            BY <3>1, ShownTypes
        <3>3. Shown(b)' \in [Figures -> Nat]
            BY <3>1 DEF RowsOK, RowsTypeOK, Shown, Zero
        <3>4. ShownTotal(b)' \in Nat
            BY <3>3, EngagementRowsAssumption DEF ShownTotal
        <3> QED
            BY <3>1, <3>2, <3>4
    <2>1. counters'[b] # counters[b]
        BY <2>0 DEF ShownTotal, Shown, Zero
    <2>2. ASSUME NEW d \in Blogs, Moderate(d) PROVE counters'[b] = counters[b]
        BY <2>0, <2>2 DEF Moderate, Erased, RowsOK, RowsTypeOK
    <2>3. PICK w \in Workers : WriteCounters(w)
        BY <2>1, <2>2, WhoWrites
    <2>4. CASE job[w].overlapped
        BY <2>3, <2>4 DEF WriteCounters
    <2>5. CASE ~job[w].overlapped
        <3>1. /\ status[b] # "gone" /\ RunKnows(job[w]) /\ "views" \in DOMAIN job[w].figures
              /\ job[w] \in Run
            BY <2>3, WrittenSummaries
        <3>2. ShownTotal(b) <= job[w].figures["views"][b]
            BY <2>5, <3>1 DEF RunKnows
        <3>3. ShownTotal(b)' = job[w].figures["views"][b] \/ ShownTotal(b)' = ShownTotal(b)
            BY <2>3, WrittenSummaries
        <3> QED
            BY <2>0, <3>2, <3>3
    <2> QED
        BY <2>4, <2>5
<1> QED
    BY <1>1, SummaryInit, SummaryStep, PTL DEF Spec, CountsOnlyGrow
-----------------------------------------------------------------------------
(* Views *)

\* Two views, in this order, that both count.
Apart(old, new) == IF new.session # None THEN old.session # new.session
                   ELSE old.address = new.address => new.at - old.at > Window

\* A view about to be written: none of those its request found covers it, and
\* they are still there.
Looking(x) == x.step = "write" /\ x.op = "view"

Looked(x) ==
    Looking(x) =>
        \/ status[x.blog] = "gone"
        \/ /\ x.looked <= Len(views[x.blog])
           /\ \A i \in 1..x.looked : ~Covers(views[x.blog][i], x.address, x.session, now)

ViewsInv == TypeInv /\ \A c \in Clients : Looked(task[c])

\* A view that covered nobody at one time covers nobody later.
LEMMA CoversLater ==
    ASSUME NEW v \in View, NEW a, NEW s, NEW m \in Nat, NEW n \in Nat, n >= m,
           ~Covers(v, a, s, m)
    PROVE  ~Covers(v, a, s, n)
<1>1. v.at \in Nat /\ Window \in Nat
    BY EngagementRowsAssumption DEF View
<1> QED
    BY <1>1 DEF Covers

\* Views are only ever added to a blog that stays.
LEMMA ViewsGrow ==
    ASSUME TypeInv, [Next]_vars, NEW b \in Blogs, status'[b] # "gone"
    PROVE  /\ status[b] # "gone"
           /\ Len(views[b]) <= Len(views'[b])
           /\ \A i \in 1..Len(views[b]) : views'[b][i] = views[b][i]
<1>0. /\ RowsOK /\ TasksOK /\ views[b] \in Seq(View) /\ now \in Nat
      /\ views \in [Blogs -> Seq(View)] /\ status \in [Blogs -> Statuses]
    BY DEF TypeInv, RowsOK, RowsTypeOK, RestOK
<1>1. ASSUME NEW d \in Blogs, Moderate(d)
      PROVE  status[b] # "gone" /\ views'[b] = views[b]
    BY <1>0, <1>1 DEF Moderate, Erased
<1>2. ASSUME NEW c \in Clients, WriteView(c)
      PROVE  /\ status[b] # "gone"
             /\ views'[b] \in {views[b]} \cup {Append(views[b], v) : v \in View}
    <2>1. task[c] \in Viewing
        BY <1>0, <1>2, Busy, TaskKinds DEF WriteView, At, Steps
    <2> DEFINE v == [address |-> task[c].address, session |-> task[c].session, at |-> now]
    <2>2. v \in View
        BY <1>0, <2>1 DEF View, Viewing
    <2>3. /\ views' = [views EXCEPT ![task[c].blog] = Append(@, v)] /\ status' = status
        BY <1>2 DEF WriteView
    <2> HIDE DEF v
    <2> QED
        BY <1>0, <2>2, <2>3
<1>3. CASE status' = status /\ views' = views
    BY <1>0, <1>3
<1>4. CASE status[b] # "gone" /\ views'[b] = views[b]
    BY <1>0, <1>4
<1>5. ASSUME NEW v \in View, status[b] # "gone", views'[b] = Append(views[b], v)
      PROVE  /\ Len(views[b]) <= Len(views'[b])
             /\ \A i \in 1..Len(views[b]) : views'[b][i] = views[b][i]
    BY <1>0, <1>5
<1>6. UNCHANGED views \/ (\E c \in Clients : WriteView(c)) \/ \E d \in Blogs : Moderate(d)
    BY WhoWrites
<1>7. UNCHANGED status \/ \E d \in Blogs : Moderate(d)
    BY WhoWrites
<1> QED
    BY <1>1, <1>2, <1>3, <1>4, <1>5, <1>6, <1>7

\* Views that are about to be written come from a look.
LEMMA LooksMove ==
    ASSUME TypeInv, [Next]_vars, NEW d \in Clients, Looking(task'[d])
    PROVE  \/ task'[d] = task[d]
           \/ LookView(d) /\ ~Done(d)
<1> DEFINE Moved == task'[d] = task[d] \/ (LookView(d) /\ ~Done(d))
<1>0. ~Looking(Idle) /\ TasksOK /\ RowsOK
    BY DEF Looking, Idle, TypeInv
<1>1. ASSUME NEW c \in Clients, NEW x \in Task \cup {Idle}, Becomes(c, x), ~Looking(x)
      PROVE  Moved
    BY <1>0, <1>1 DEF Becomes, TasksOK
<1>2. ASSUME NEW c \in Clients,
             StartReaction(c) \/ StartShare(c) \/ StartView(c) \/ StartRead(c)
      PROVE  Moved
    <2>1. \E x \in Task : Becomes(c, x) /\ ~Looking(x)
        BY <1>0, <1>2, StartReactionBecomes, StartShareBecomes, StartViewBecomes,
           StartReadBecomes DEF Looking
    <2> QED
        BY <1>1, <2>1
<1>3. ASSUME NEW c \in Clients, Done(c) PROVE Moved
    BY <1>0, <1>1, <1>3, DoneBecomes
<1>4. ASSUME NEW c \in Clients, LookReaction(c) PROVE Moved
    <2>1. task[c].op # "view"
        BY <1>4 DEF LookReaction, At
    <2>2. \/ Becomes(c, Idle)
          \/ \E x \in Task : Becomes(c, x) /\ x.op = task[c].op
        BY <1>0, <1>4, LooksOn
    <2> QED
        BY <1>0, <1>1, <2>1, <2>2 DEF Looking
<1>5. ASSUME NEW c \in Clients, LookView(c) PROVE Moved
    <2>1. CASE c = d
        BY <1>3, <1>5, <2>1
    <2>2. CASE c # d
        <3>1. \E x : Becomes(c, x)
            BY <1>0, <1>5, LooksOn
        <3> QED
            BY <1>0, <2>2, <3>1 DEF Becomes, TasksOK
    <2> QED
        BY <2>1, <2>2
<1>6. ASSUME NEW c \in Clients, WriteReaction(c) PROVE Moved
    <2>1. task[c].op \in {"like", "save"} /\ task[c].step = "write"
        BY <1>6 DEF WriteReaction, At
    <2>2. Done(c) \/ Goto(c, "announce")
        BY <1>6 DEF WriteReaction
    <2>3. CASE Goto(c, "announce")
        <3>1. task[c] # Idle /\ "announce" \in Steps
            BY <2>1 DEF Idle, Steps
        <3>2. \E x \in Task : Becomes(c, x) /\ x.op = task[c].op
            BY <1>0, <2>1, <2>3, <3>1, GotoBecomes
        <3> QED
            BY <1>1, <2>1, <3>2 DEF Looking
    <2> QED
        BY <1>3, <2>2, <2>3
<1>7. ASSUME NEW c \in Clients,
             \/ Announce(c) \/ DeleteReaction(c) \/ WriteShare(c) \/ WriteView(c)
             \/ WriteReport(c) \/ Refused(c) \/ Fails(c)
      PROVE  Moved
    BY <1>3, <1>7
       DEF Announce, DeleteReaction, WriteShare, WriteView, WriteReport, Refused, Fails
<1>8. CASE Crash
    BY <1>0, <1>8 DEF Crash
<1>9. CASE UNCHANGED task
    BY <1>9
<1>10. ASSUME NEW w \in Workers, Aggregate(w) \/ JobFails(w) PROVE UNCHANGED task
    BY <1>10 DEF Aggregate, StartJob, ReadFigure, WriteCounters, RefusedJob, JobFails
<1>11. ASSUME NEW b \in Blogs, Moderate(b) PROVE UNCHANGED task
    BY <1>11 DEF Moderate
<1>12. CASE Tick \/ UNCHANGED vars
    BY <1>9, <1>12 DEF Tick, vars
<1> QED
    BY <1>2, <1>4, <1>5, <1>6, <1>7, <1>8, <1>9, <1>10, <1>11, <1>12 DEF Next, Handle

\* What a request found stays true.
LEMMA ViewsStep == ViewsInv /\ [Next]_vars => ViewsInv'
<1> SUFFICES ASSUME ViewsInv, [Next]_vars PROVE ViewsInv'
    OBVIOUS
<1>0. TypeInv /\ TypeInv'
    BY TypeInvStep DEF ViewsInv
<1>1. /\ TasksOK /\ TasksOK' /\ now \in Nat /\ now' \in Nat /\ now' >= now
      /\ views \in [Blogs -> Seq(View)]
    <2>1. now' = now \/ now' = now + 1
        BY WhoWrites DEF Tick
    <2> QED
        BY <1>0, <2>1 DEF TypeInv, RestOK, RowsOK, RowsTypeOK
<1>2. SUFFICES ASSUME NEW c \in Clients, Looking(task'[c]), status'[task'[c].blog] # "gone"
               PROVE  /\ task'[c].looked <= Len(views'[task'[c].blog])
                      /\ \A i \in 1..task'[c].looked :
                            ~Covers(views'[task'[c].blog][i], task'[c].address,
                                    task'[c].session, now')
    BY <1>0 DEF ViewsInv, Looked, Looking
<1> DEFINE x == task'[c]
<1>3. x \in Viewing
    BY <1>1, <1>2, TaskKinds DEF TasksOK, Looking, Idle
<1>4. x.blog \in Blogs /\ x.looked \in Nat
    BY <1>3 DEF Viewing
<1>5. /\ x.looked <= Len(views[x.blog])
      /\ \A i \in 1..x.looked : ~Covers(views[x.blog][i], x.address, x.session, now)
    <2>1. CASE x = task[c]
        <3>1. status[x.blog] # "gone"
            BY <1>0, <1>2, <1>4, ViewsGrow
        <3> QED
            BY <1>2, <2>1, <3>1 DEF ViewsInv, Looked
    <2>2. CASE LookView(c) /\ ~Done(c)
        <3>1. task[c] \in Viewing
            BY <1>1, <2>2, Busy, TaskKinds DEF LookView, At, Steps
        <3>2. Len(views[task[c].blog]) \in Nat
            BY <1>1, <3>1 DEF Viewing
        <3>3. PICK y \in Viewing : /\ Becomes(c, y) /\ y.looked = Len(views[task[c].blog])
                                  /\ y.blog = task[c].blog
                                  /\ ~Seen(y.blog, y.address, y.session, now)
            BY <1>1, <2>2, <3>2, LookBecomes
        <3>4. y = x
            BY <1>1, <3>3 DEF Becomes, TasksOK
        <3>5. views[x.blog] \in Seq(View)
            BY <1>1, <1>4
        <3> HIDE DEF x
        <3> QED
            BY <3>3, <3>4, <3>5 DEF Seen
    <2> QED
        BY <1>0, <1>2, <2>1, <2>2, LooksMove
<1>6. /\ Len(views[x.blog]) <= Len(views'[x.blog])
      /\ \A i \in 1..Len(views[x.blog]) : views'[x.blog][i] = views[x.blog][i]
    BY <1>0, <1>2, <1>4, ViewsGrow
<1>7. Len(views[x.blog]) \in Nat /\ Len(views'[x.blog]) \in Nat /\ views[x.blog] \in Seq(View)
    <2>1. views' \in [Blogs -> Seq(View)]
        BY <1>0 DEF TypeInv, RowsOK, RowsTypeOK
    <2> QED
        BY <1>1, <1>4, <2>1
<1> HIDE DEF x
<1>8. ASSUME NEW i \in 1..x.looked
      PROVE  ~Covers(views'[x.blog][i], x.address, x.session, now')
    <2>1. i \in 1..Len(views[x.blog]) /\ views[x.blog][i] \in View
        BY <1>4, <1>5, <1>7
    <2>2. ~Covers(views[x.blog][i], x.address, x.session, now)
        BY <1>5
    <2>3. ~Covers(views[x.blog][i], x.address, x.session, now')
        BY <1>1, <2>1, <2>2, CoversLater
    <2> QED
        BY <1>6, <2>1, <2>3
<1>9. x.looked <= Len(views'[x.blog])
    BY <1>4, <1>5, <1>6, <1>7
<1> QED
    BY <1>8, <1>9 DEF x

\* At first nobody looks.
LEMMA ViewsInit == Init => ViewsInv
BY TypeInvInit DEF Init, ViewsInv, Looked, Looking, Idle

\* So a view is written for somebody new, unless the reader was counted since
\* the request had looked.
LEMMA NewReader ==
    ASSUME ViewsInv, NEW c \in Clients, WriteView(c), Without({"parallel_view"})'
    PROVE  ~Seen(task[c].blog, task[c].address, task[c].session, now)
<1> DEFINE x == task[c]
<1>1. x \in Viewing /\ Looking(x) /\ status[x.blog] # "gone"
    BY Busy, TaskKinds DEF ViewsInv, TypeInv, WriteView, At, Steps, Looking
<1>2. views[x.blog] \in Seq(View) /\ x.looked \in Nat
    BY <1>1 DEF ViewsInv, TypeInv, RowsOK, RowsTypeOK, Viewing
<1>3. \A i \in 1..x.looked : ~Covers(views[x.blog][i], x.address, x.session, now)
    BY <1>1 DEF ViewsInv, Looked
<1>4. \A i \in (x.looked + 1)..Len(views[x.blog]) :
          ~Covers(views[x.blog][i], x.address, x.session, now)
    BY DEF WriteView, Without
<1> HIDE DEF x
<1>5. \A i \in DOMAIN views[x.blog] : ~Covers(views[x.blog][i], x.address, x.session, now)
    <2> TAKE i \in DOMAIN views[x.blog]
    <2>1. i \in 1..x.looked \/ i \in (x.looked + 1)..Len(views[x.blog])
        BY <1>2
    <2> QED
        BY <1>3, <1>4, <2>1
<1> QED
    BY <1>5 DEF Seen, x

\* recordBlogView counts a session once, and an address once per window,
\* however many requests arrive, unless the reader was counted after a request
\* had looked and before it wrote.
THEOREM ReadersCountedOnce == Spec => []OneViewPerReader
<1>1. ViewsInv /\ OneViewPerReader /\ [Next]_vars => OneViewPerReader'
    <2> SUFFICES ASSUME ViewsInv, OneViewPerReader, [Next]_vars, Without({"parallel_view"})',
                        NEW b \in Blogs, NEW j \in DOMAIN views'[b], NEW i \in 1..(j - 1)
                 PROVE  Apart(views'[b][i], views'[b][j])
        BY DEF OneViewPerReader, Apart
    <2>1. Without({"parallel_view"})
        BY AnomaliesStay DEF Without
    <2>2. \A m \in DOMAIN views[b] : \A k \in 1..(m - 1) : Apart(views[b][k], views[b][m])
        BY <2>1 DEF OneViewPerReader, Apart
    <2>3. RowsOK /\ TasksOK /\ views[b] \in Seq(View) /\ now \in Nat
        BY DEF ViewsInv, TypeInv, RowsOK, RowsTypeOK, RestOK
    <2>4. CASE views'[b] = views[b]
        BY <2>2, <2>4
    <2>5. ASSUME NEW d \in Blogs, Moderate(d), views'[b] # views[b] PROVE FALSE
        <3>1. views'[b] = <<>>
            BY <2>3, <2>5 DEF Moderate, Erased, RowsOK, RowsTypeOK
        <3> QED
            BY <3>1
    <2>6. ASSUME NEW c \in Clients, WriteView(c), views'[b] # views[b]
          PROVE  Apart(views'[b][i], views'[b][j])
        <3> DEFINE x == task[c]
                   new == [address |-> x.address, session |-> x.session, at |-> now]
        <3>1. /\ x.blog = b /\ views'[b] = Append(views[b], new)
              /\ ~Seen(b, x.address, x.session, now)
            <4>1. x.blog = b /\ views'[b] = Append(views[b], new)
                BY <2>3, <2>6 DEF WriteView, RowsOK, RowsTypeOK
            <4> QED
                BY <2>6, <4>1, NewReader
        <3>2. x \in Viewing
            BY <2>3, <2>6, Busy, TaskKinds DEF WriteView, At, Steps
        <3>3. new \in View
            BY <2>3, <3>2 DEF View, Viewing
        <3>4. new.address = x.address /\ new.session = x.session /\ new.at = now
            OBVIOUS
        <3> HIDE DEF new, x
        <3>5. j \in 1..(Len(views[b]) + 1)
            BY <2>3, <3>1, <3>3
        <3>6. CASE j \in DOMAIN views[b]
            <4>1. views'[b][j] = views[b][j] /\ views'[b][i] = views[b][i]
                BY <2>3, <3>1, <3>3, <3>6
            <4> QED
                BY <2>2, <3>6, <4>1
        <3>7. CASE j = Len(views[b]) + 1
            <4>1. i \in DOMAIN views[b] /\ views'[b][i] = views[b][i] /\ views'[b][j] = new
                BY <2>3, <3>1, <3>3, <3>7
            <4>2. views[b][i] \in View
                BY <2>3, <4>1
            <4>3. IF x.session # None THEN views[b][i].session # x.session
                  ELSE ~(views[b][i].address = x.address /\ views[b][i].at >= now - Window)
                BY <3>1, <4>1 DEF Seen, Covers
            <4>4. views[b][i].at \in Nat /\ Window \in Nat
                BY <4>2, EngagementRowsAssumption DEF View
            <4> QED
                BY <2>3, <3>4, <4>1, <4>3, <4>4 DEF Apart
        <3> QED
            BY <2>3, <3>5, <3>6, <3>7
    <2> QED
        BY <2>4, <2>5, <2>6, WhoWrites
<1>2. Init => OneViewPerReader
    BY DEF Init, RowsInit, OneViewPerReader
<1> QED
    BY <1>1, <1>2, ViewsInit, ViewsStep, PTL DEF Spec

-----------------------------------------------------------------------------
(* Reading reports *)

Reports(x) == x.step = "write" /\ x.op = "read"

\* The report x is about session s on blog b, and says how far it got.
Tells(x, b, s) == /\ Reports(x) /\ x.blog = b /\ x.session = s
                  /\ x.report.depth = scrolled[b][s]

\* Every blog that stays shows how far a session got, or the report that says
\* so is under way: a deeper report never hides behind a shallower one.
Reached(b, s) ==
    \/ status[b] = "gone"
    \/ progress[b][s] = None /\ scrolled[b][s] = 0
    \/ progress[b][s] # None /\ progress[b][s].depth = scrolled[b][s]
    \/ \E c \in Clients : Tells(task[c], b, s)

\* The row of a session is what its last report to be written said.
Written(b, s) ==
    \/ status[b] = "gone"
    \/ progress[b][s] = None
    \/ progress[b][s].depth = wrote[b][s]

\* No report says more than its session scrolled.
Honest(x) == Reports(x) => x.report.depth <= scrolled[x.blog][x.session]

DepthInv ==
    /\ TypeInv
    /\ \A c \in Clients : Honest(task[c])
    /\ \A b \in Blogs, s \in Sessions : Written(b, s)
    /\ Without({"overtaken", "lost_report"}) =>
          \A b \in Blogs, s \in Sessions : Reached(b, s)

\* Reports come and go when they are sent and written; otherwise they are lost.
LEMMA ReportsMove ==
    ASSUME TasksOK, RowsOK, [Next]_vars, NEW d \in Clients
    PROVE  \/ \E c \in Clients : StartRead(c) \/ WriteReport(c)
           \/ /\ Reports(task'[d]) => task'[d] = task[d]
              /\ Reports(task[d]) => task'[d] = task[d] \/ "lost_report" \in anomalies'
<1> DEFINE Moved == /\ Reports(task'[d]) => task'[d] = task[d]
                    /\ Reports(task[d]) => task'[d] = task[d] \/ "lost_report" \in anomalies'
<1>0. ~Reports(Idle) /\ \A c \in Clients : Reports(task[c]) => task[c] # Idle
    BY DEF Reports, Idle
<1>1. ASSUME NEW c \in Clients, NEW x \in Task \cup {Idle}, Becomes(c, x), ~Reports(x),
             ~Reports(task[c]) \/ "lost_report" \in anomalies'
      PROVE  Moved
    BY <1>1 DEF Becomes, TasksOK
<1>2. ASSUME NEW c \in Clients, StartReaction(c) \/ StartShare(c) \/ StartView(c) PROVE Moved
    <2>1. task[c] = Idle /\ \E x \in Task : Becomes(c, x) /\ x.op # "read"
        BY <1>2, StartReactionBecomes, StartShareBecomes, StartViewBecomes
    <2> QED
        BY <1>0, <1>1, <2>1 DEF Reports
<1>3. ASSUME NEW c \in Clients, Done(c), ~Reports(task[c]) \/ "lost_report" \in anomalies'
      PROVE  Moved
    BY <1>0, <1>1, <1>3, DoneBecomes
<1>4. ASSUME NEW c \in Clients, LookReaction(c) \/ LookView(c) PROVE Moved
    <2>1. task[c].step = "look" /\ task[c].op # "read"
        BY <1>4 DEF LookReaction, LookView, At
    <2>2. \/ Becomes(c, Idle)
          \/ \E x \in Task : Becomes(c, x) /\ x.op = task[c].op
        BY <1>4, LooksOn
    <2> QED
        BY <1>0, <1>1, <2>1, <2>2 DEF Reports
<1>5. ASSUME NEW c \in Clients, WriteReaction(c) PROVE Moved
    <2>1. task[c].op \in {"like", "save"} /\ task[c].step = "write"
        BY <1>5 DEF WriteReaction, At
    <2>2. Done(c) \/ Goto(c, "announce")
        BY <1>5 DEF WriteReaction
    <2>3. CASE Goto(c, "announce")
        <3>1. task[c] # Idle /\ "announce" \in Steps
            BY <2>1 DEF Idle, Steps
        <3>2. \E x \in Task : Becomes(c, x) /\ x.op = task[c].op
            BY <2>1, <2>3, <3>1, GotoBecomes
        <3> QED
            BY <1>1, <2>1, <3>2 DEF Reports
    <2> QED
        BY <1>3, <2>1, <2>2, <2>3 DEF Reports
<1>6. ASSUME NEW c \in Clients, Announce(c) \/ DeleteReaction(c) \/ WriteShare(c) \/ WriteView(c)
      PROVE  Moved
    <2>1. Done(c) /\ ~Reports(task[c])
        BY <1>6 DEF Announce, DeleteReaction, WriteShare, WriteView, At, Reports
    <2> QED
        BY <1>3, <2>1
<1>7. ASSUME NEW c \in Clients, Refused(c) PROVE Moved
    <2>1. Done(c) /\ (task[c].op = "read" => "lost_report" \in anomalies')
        BY <1>7 DEF Refused, Blame
    <2> QED
        BY <1>3, <2>1 DEF Reports
<1>8. ASSUME NEW c \in Clients, Reports(task[c]) PROVE Lost(task[c]) = {"lost_report"}
    BY <1>8 DEF Reports, Lost
<1>9. ASSUME NEW c \in Clients, Fails(c) PROVE Moved
    BY <1>3, <1>8, <1>9 DEF Fails
<1>10. CASE Crash
    <2>1. task'[d] = Idle
        BY <1>10 DEF Crash
    <2>2. Reports(task[d]) => "lost_report" \in anomalies'
        BY <1>8, <1>10 DEF Crash
    <2> QED
        BY <1>0, <2>1, <2>2
<1>11. CASE \/ \E w \in Workers : Aggregate(w) \/ JobFails(w)
            \/ \E b \in Blogs : Moderate(b)
            \/ Tick \/ UNCHANGED vars
    <2>1. task' = task
        BY <1>11 DEF Aggregate, StartJob, ReadFigure, WriteCounters, RefusedJob, JobFails,
                     Moderate, Tick, vars
    <2> QED
        BY <2>1
<1> QED
    BY <1>2, <1>4, <1>5, <1>6, <1>7, <1>9, <1>10, <1>11 DEF Next, Handle

\* A report is sent: its session got that far.
LEMMA DepthSent ==
    ASSUME DepthInv, TypeInv', [Next]_vars, NEW c \in Clients, StartRead(c)
    PROVE  DepthInv'
<1>0. TasksOK /\ RowsOK /\ RestOK
    BY DEF DepthInv, TypeInv
<1>1. task[c] = Idle /\ ~Reports(task[c])
    BY <1>0, StartReadBecomes DEF Reports, Idle
<1>2. PICK x \in Task :
         /\ Becomes(c, x) /\ x.step = "write" /\ x.op = "read"
         /\ x.report.depth >= scrolled[x.blog][x.session]
         /\ scrolled' = [scrolled EXCEPT ![x.blog][x.session] = x.report.depth]
    BY <1>0, StartReadBecomes
<1>3. x \in Reading /\ x.report.depth \in Int
    BY <1>2, TaskKinds DEF Reading, Report
<1>4. anomalies' = anomalies /\ UNCHANGED <<status, progress, wrote>>
    BY DEF StartRead, Begin, rowVars
<1>5. \A b \in Blogs, s \in Sessions :
         /\ scrolled[b][s] \in Int /\ scrolled'[b][s] >= scrolled[b][s]
         /\ (b # x.blog \/ s # x.session) => scrolled'[b][s] = scrolled[b][s]
    <2> TAKE b \in Blogs, s \in Sessions
    <2>1. scrolled \in [Blogs -> [Sessions -> 0..100]] /\ scrolled[b][s] \in 0..100
        BY <1>0 DEF RestOK
    <2>2. CASE b = x.blog /\ s = x.session
        <3>1. scrolled'[b][s] = x.report.depth
            BY <1>2, <2>1, <2>2
        <3>2. x.report.depth >= scrolled[b][s]
            BY <1>2, <2>2
        <3> QED
            BY <2>1, <2>2, <3>1, <3>2
    <2>3. CASE b # x.blog \/ s # x.session
        <3>1. scrolled'[b][s] = scrolled[b][s]
            BY <1>2, <2>1, <2>3
        <3> QED
            BY <2>1, <3>1
    <2> QED
        BY <2>2, <2>3
<1>6. scrolled'[x.blog][x.session] = x.report.depth /\ x.blog \in Blogs /\ x.session \in Sessions
    BY <1>0, <1>2, <1>3 DEF RestOK, Reading
<1>7. task'[c] = x /\ \A d \in Clients \ {c} : task'[d] = task[d]
    BY <1>0, <1>2 DEF Becomes, TasksOK
<1>8. ASSUME NEW d \in Clients PROVE Honest(task[d])'
    <2>1. CASE d = c
        BY <1>3, <1>6, <1>7, <2>1 DEF Honest
    <2>2. CASE d # c /\ Reports(task[d])
        <3>1. task[d] \in Reading
            BY <1>0, <2>2, Busy, TaskKinds DEF Reports, Steps
        <3>2. /\ task[d].blog \in Blogs /\ task[d].session \in Sessions
              /\ task[d].report.depth \in Int
            BY <3>1 DEF Reading, Report
        <3>3. task[d].report.depth <= scrolled[task[d].blog][task[d].session]
            BY <2>2 DEF DepthInv, Honest
        <3>4. scrolled[task[d].blog][task[d].session] <= scrolled'[task[d].blog][task[d].session]
              /\ scrolled[task[d].blog][task[d].session] \in Int
              /\ scrolled'[task[d].blog][task[d].session] \in Int
            BY <1>3, <1>5, <1>6, <3>2
        <3>5. task[d].report.depth <= scrolled'[task[d].blog][task[d].session]
            BY <3>2, <3>3, <3>4
        <3> QED
            BY <1>7, <2>2, <3>5 DEF Honest
    <2>3. CASE d # c /\ ~Reports(task[d])
        BY <1>7, <2>3 DEF Honest
    <2> QED
        BY <2>1, <2>2, <2>3
<1>9. ASSUME Without({"overtaken", "lost_report"})', NEW b \in Blogs, NEW s \in Sessions
      PROVE  Reached(b, s)'
    <2>1. Reached(b, s)
        BY <1>4, <1>9 DEF DepthInv, Without
    <2>2. CASE b = x.blog /\ s = x.session
        BY <1>2, <1>6, <1>7, <2>2 DEF Reached, Tells, Reports
    <2>3. CASE b # x.blog \/ s # x.session
        <3>1. scrolled'[b][s] = scrolled[b][s]
            BY <1>5, <2>3
        <3>2. ASSUME NEW d \in Clients, Tells(task[d], b, s) PROVE Tells(task[d], b, s)'
            BY <1>1, <1>7, <3>1, <3>2 DEF Tells
        <3> QED
            BY <1>4, <2>1, <3>1, <3>2 DEF Reached
    <2> QED
        BY <2>2, <2>3
<1>10. ASSUME NEW b \in Blogs, NEW s \in Sessions PROVE Written(b, s)'
    BY <1>4 DEF DepthInv, Written
<1> QED
    BY <1>8, <1>9, <1>10 DEF DepthInv

\* A report is written: unless it overwrites a deeper one, the row is what the
\* session reached, or a deeper report is under way.
LEMMA DepthWritten ==
    ASSUME DepthInv, TypeInv', [Next]_vars, NEW c \in Clients, WriteReport(c)
    PROVE  DepthInv'
<1> DEFINE x == task[c]
<1>0. TasksOK /\ RowsOK /\ RestOK
    BY DEF DepthInv, TypeInv
<1>1. x \in Task /\ x \in Reading /\ Reports(x)
    BY <1>0, Busy, TaskKinds DEF WriteReport, At, Steps, Reports
<1>2. /\ x.blog \in Blogs /\ x.session \in Sessions /\ x.report \in Report
      /\ x.report.depth \in Nat /\ x.report # None
    BY <1>1, EngagementRowsAssumption DEF Reading, Report
<1>3. status' = status /\ scrolled' = scrolled /\ anomalies \subseteq anomalies'
    BY DEF WriteReport, historyVars
<1>4. /\ progress'[x.blog][x.session] = x.report
      /\ \A b \in Blogs, s \in Sessions :
            (b # x.blog \/ s # x.session) => progress'[b][s] = progress[b][s]
    BY <1>0, <1>2 DEF WriteReport, Upserted, RowsOK, RowsTypeOK
<1>5. task'[c] = Idle /\ \A d \in Clients \ {c} : task'[d] = task[d]
    BY <1>0 DEF WriteReport, Done, TasksOK
<1>6. ~Reports(Idle)
    BY DEF Reports, Idle
<1>7. \A d \in Clients : Honest(task[d])'
    BY <1>3, <1>5, <1>6 DEF DepthInv, Honest
<1>8. LET old == progress[x.blog][x.session]
      IN  \/ "overtaken" \in anomalies' \/ status[x.blog] = "gone"
          \/ ~(old # None /\ old.depth > x.report.depth)
    <2>1. Written(x.blog, x.session)
        BY <1>2 DEF DepthInv
    <2>2. wrote[x.blog][x.session] > x.report.depth => "overtaken" \in anomalies'
        BY DEF WriteReport
    <2> QED
        BY <2>1, <2>2 DEF Written
<1>9. x.report.depth <= scrolled[x.blog][x.session] /\ scrolled[x.blog][x.session] \in Nat
    <2>1. Honest(x)
        BY DEF DepthInv
    <2>2. scrolled[x.blog][x.session] \in 0..100
        BY <1>0, <1>2 DEF RestOK
    <2> QED
        BY <1>1, <2>1, <2>2 DEF Honest
<1> HIDE DEF x
<1>10. ASSUME NEW b \in Blogs, NEW s \in Sessions, NEW d \in Clients, Tells(task[d], b, s),
              d # c
       PROVE  Tells(task[d], b, s)'
    BY <1>3, <1>5, <1>10 DEF Tells
<1>11. ASSUME Without({"overtaken", "lost_report"})', NEW b \in Blogs, NEW s \in Sessions
       PROVE  Reached(b, s)'
    <2>1. Reached(b, s)
        BY <1>3, <1>11 DEF DepthInv, Without
    <2>2. CASE b = x.blog /\ s = x.session
        <3>1. CASE x.report.depth = scrolled[b][s]
            BY <1>2, <1>3, <1>4, <2>2, <3>1 DEF Reached
        <3>2. CASE x.report.depth # scrolled[b][s]
            <4>1. x.report.depth < scrolled[b][s]
                BY <1>2, <1>9, <2>2, <3>2
            <4>2. ~(progress[b][s] = None /\ scrolled[b][s] = 0)
                BY <1>2, <4>1
            <4>3. \/ status[b] = "gone"
                  \/ ~(progress[b][s] # None /\ progress[b][s].depth = scrolled[b][s])
                BY <1>8, <1>11, <2>2, <4>1 DEF Without
            <4>4. CASE status[b] = "gone"
                BY <1>3, <4>4 DEF Reached
            <4>5. CASE \E d \in Clients : Tells(task[d], b, s)
                <5>1. PICK d \in Clients : Tells(task[d], b, s)
                    BY <4>5
                <5>2. d # c
                    BY <3>2, <5>1 DEF Tells, x
                <5> QED
                    BY <1>10, <5>1, <5>2 DEF Reached
            <4> QED
                BY <2>1, <4>2, <4>3, <4>4, <4>5 DEF Reached
        <3> QED
            BY <3>1, <3>2
    <2>3. CASE b # x.blog \/ s # x.session
        <3>1. ASSUME NEW d \in Clients, Tells(task[d], b, s) PROVE Tells(task[d], b, s)'
            <4>1. d # c
                BY <2>3, <3>1 DEF Tells, x
            <4> QED
                BY <1>10, <3>1, <4>1
        <3> QED
            BY <1>3, <1>4, <2>1, <2>3, <3>1 DEF Reached
    <2> QED
        BY <2>2, <2>3
<1>12. /\ wrote'[x.blog][x.session] = x.report.depth
       /\ \A b \in Blogs, s \in Sessions :
             (b # x.blog \/ s # x.session) => wrote'[b][s] = wrote[b][s]
    BY <1>0, <1>2 DEF WriteReport, RestOK, x
<1>13. ASSUME NEW b \in Blogs, NEW s \in Sessions PROVE Written(b, s)'
    BY <1>3, <1>4, <1>12 DEF DepthInv, Written
<1> QED
    BY <1>7, <1>11, <1>13 DEF DepthInv

\* Every other step keeps the reports under way, or loses one.
LEMMA DepthStep == DepthInv /\ [Next]_vars => DepthInv'
<1> SUFFICES ASSUME DepthInv, [Next]_vars PROVE DepthInv'
    OBVIOUS
<1>0. TypeInv' /\ TasksOK /\ RowsOK
    BY TypeInvStep DEF DepthInv, TypeInv
<1>1. CASE \E c \in Clients : StartRead(c) \/ WriteReport(c)
    BY <1>0, <1>1, DepthSent, DepthWritten
<1>2. CASE ~\E c \in Clients : StartRead(c) \/ WriteReport(c)
    <2>1. scrolled' = scrolled /\ wrote' = wrote
        BY <1>2, WhoWrites
    <2>2. \A b \in Blogs, s \in Sessions :
             \/ status'[b] = "gone"
             \/ status[b] # "gone" /\ progress'[b][s] = progress[b][s]
        <3>1. ASSUME NEW d \in Blogs, Moderate(d), NEW b \in Blogs, NEW s \in Sessions
              PROVE  \/ status'[b] = "gone"
                     \/ status[b] # "gone" /\ progress'[b][s] = progress[b][s]
            BY <1>0, <3>1 DEF Moderate, Erased, RowsOK, RowsTypeOK
        <3>2. CASE progress' = progress /\ status' = status
            BY <3>2
        <3> QED
            BY <1>2, <3>1, <3>2, WhoWrites
    <2>3. \A c \in Clients : /\ Reports(task'[c]) => task'[c] = task[c]
                             /\ Reports(task[c]) => \/ task'[c] = task[c]
                                                    \/ "lost_report" \in anomalies'
        BY <1>0, <1>2, ReportsMove
    <2>4. \A c \in Clients : Honest(task[c])'
        BY <2>1, <2>3 DEF DepthInv, Honest
    <2>5. ASSUME Without({"overtaken", "lost_report"})', NEW b \in Blogs, NEW s \in Sessions
          PROVE  Reached(b, s)'
        <3>1. Reached(b, s)
            BY <2>5, AnomaliesStay DEF DepthInv, Without
        <3>2. ASSUME NEW c \in Clients, Tells(task[c], b, s) PROVE Tells(task[c], b, s)'
            BY <2>1, <2>3, <2>5, <3>2 DEF Tells, Without
        <3> QED
            BY <2>1, <2>2, <3>1, <3>2 DEF Reached
    <2>6. ASSUME NEW b \in Blogs, NEW s \in Sessions PROVE Written(b, s)'
        BY <2>1, <2>2 DEF DepthInv, Written
    <2> QED
        BY <1>0, <2>4, <2>5, <2>6 DEF DepthInv
<1> QED
    BY <1>1, <1>2

\* At first nobody has read anything.
LEMMA DepthInit == Init => DepthInv
<1>1. ASSUME Init, NEW c \in Clients PROVE ~Reports(task[c])
    BY <1>1 DEF Init, Reports, Idle
<1>2. Init => \A b \in Blogs, s \in Sessions : Reached(b, s) /\ Written(b, s)
    BY DEF Init, RowsInit, Reached, Written
<1> QED
    BY <1>1, <1>2, TypeInvInit DEF DepthInv, Honest

\* upsertReadSession keeps, for any number of reports under way, the depth that
\* each session reached, unless a deeper report was overtaken by it or lost.
THEOREM ProgressIsKept == Spec => []ProgressIsDepthReached
<1>1. DepthInv => ProgressIsDepthReached
    BY DEF DepthInv, Reached, Tells, Reports, ProgressIsDepthReached, At
<1> QED
    BY <1>1, DepthInit, DepthStep, PTL DEF Spec

-----------------------------------------------------------------------------
(* The ledger *)

\* A like or save that is written where nothing went wrong is the ledger's.
LEMMA ReactionInLedger ==
    ASSUME TypeInv, NEW c \in Clients, WriteReaction(c) \/ DeleteReaction(c), anomalies' = {}
    PROVE  Ledger!LedgerNext
<1> DEFINE r == task[c].row
<1>1. /\ task[c].op \in {"like", "save", "unlike", "unsave"} /\ task[c].step \in Steps
      /\ UNCHANGED <<status, shares, views, progress, counters, now>>
    BY DEF WriteReaction, DeleteReaction, At, Steps, envVars
<1>2. r \in Reactions /\ (task[c].op \in {"like", "save"} => r.person # Author[r.blog])
    BY <1>1, Busy, TaskKinds DEF TypeInv, Sensible, Reaction
<1>3. r \in Ledger!Reactions
    BY <1>2 DEF Reactions, Ledger!Reactions
<1>4. status[r.blog] = "published"
    <2>1. task[c].sawStatus = "published"
        BY <1>1, Busy DEF TypeInv, Sensible
    <2>2. status[r.blog] = task[c].sawStatus
        BY DEF WriteReaction, DeleteReaction, Blame
    <2> QED
        BY <2>1, <2>2
<1>5. CASE WriteReaction(c)
    <2>1. task[c].op \in {"like", "save"} /\ r \notin reactions /\ reactions' = reactions \cup {r}
        BY <1>5 DEF WriteReaction, At
    <2>2. Ledger!React(r)
        BY <1>1, <1>2, <1>4, <2>1 DEF Ledger!React, Ledger!Open
    <2> QED
        BY <1>3, <2>2 DEF Ledger!LedgerNext
<1>6. CASE DeleteReaction(c)
    <2>1. r \in reactions /\ reactions' = reactions \ {r}
        BY <1>6 DEF DeleteReaction
    <2>2. Ledger!Unreact(r)
        BY <1>1, <1>4, <2>1 DEF Ledger!Unreact, Ledger!Open
    <2> QED
        BY <1>3, <2>2 DEF Ledger!LedgerNext
<1> QED
    BY <1>5, <1>6

\* So are shares, views and reports.
LEMMA ReadersInLedger ==
    ASSUME TypeInv, ViewsInv, DepthInv, NEW c \in Clients,
           WriteShare(c) \/ WriteView(c) \/ WriteReport(c), anomalies' = {}
    PROVE  Ledger!LedgerNext
<1> DEFINE b == task[c].blog
<1>1. task[c].step = "write" /\ task[c].op \in {"share", "view", "read"} /\ now' = now
    BY DEF WriteShare, WriteView, WriteReport, At, envVars
<1>2. task[c] \in Sharing \cup Viewing \cup Reading
    BY <1>1, Busy, TaskKinds DEF TypeInv, Steps
<1>3. b \in Blogs
    BY <1>2 DEF Sharing, Viewing, Reading
<1>4. status[b] = "published"
    <2>1. task[c].sawStatus = "published"
        BY <1>1, Busy DEF TypeInv, Sensible, Steps
    <2>2. status[b] = task[c].sawStatus
        BY DEF WriteShare, WriteView, WriteReport, Blame
    <2> QED
        BY <2>1, <2>2
<1>5. CASE WriteShare(c)
    <2>1. Ledger!Share(b)
        BY <1>1, <1>4, <1>5 DEF WriteShare, Ledger!Share, Ledger!Open
    <2> QED
        BY <1>3, <2>1 DEF Ledger!LedgerNext
<1>6. CASE WriteView(c)
    <2> DEFINE a == task[c].address
               s == task[c].session
    <2>1. a \in Addresses /\ s \in Sessions \cup {None}
        <3>1. task[c] \in Viewing
            BY <1>1, <1>6, Busy, TaskKinds DEF TypeInv, WriteView, At, Steps
        <3> QED
            BY <3>1 DEF Viewing
    <2>2. ~Seen(b, a, s, now)
        BY <1>6, NewReader DEF Without
    <2>3. ~Ledger!Seen(b, a, s, now)
        BY <2>2 DEF Seen, Ledger!Seen, Covers, Ledger!Covers
    <2>4. /\ views' = [views EXCEPT ![b] =
                Append(@, [address |-> a, session |-> s, at |-> now])]
          /\ UNCHANGED <<status, reactions, shares, progress, counters>>
        BY <1>6 DEF WriteView
    <2>5. Ledger!See(b, a, s)
        BY <1>1, <1>4, <2>3, <2>4 DEF Ledger!See, Ledger!Open
    <2> QED
        BY <1>3, <2>1, <2>5 DEF Ledger!LedgerNext
<1>7. CASE WriteReport(c)
    <2> DEFINE s == task[c].session
               new == task[c].report
               old == progress[b][s]
    <2>1. s \in Sessions /\ new \in Report
        <3>1. task[c] \in Reading
            BY <1>1, <1>7, Busy, TaskKinds DEF TypeInv, WriteReport, At, Steps
        <3> QED
            BY <3>1 DEF Reading
    <2>2. /\ progress' = [progress EXCEPT ![b][s] = new]
          /\ UNCHANGED <<status, reactions, shares, views, counters>>
          /\ ~(wrote[b][s] > new.depth)
        BY <1>7 DEF WriteReport, Upserted
    <2>3. progress \in [Blogs -> [Sessions -> Report \cup {None}]]
        BY DEF TypeInv, RowsOK, RowsTypeOK
    <2>4. progress'[b][s] = new
        BY <1>3, <2>1, <2>2, <2>3
    <2>5. new # None /\ new.depth \in Nat /\ (old # None => old.depth \in Nat)
        <3>1. None \notin Report /\ old \in Report \cup {None}
            BY <1>3, <2>1, <2>3, EngagementRowsAssumption
        <3> HIDE DEF old, new
        <3> QED
            BY <2>1, <3>1 DEF Report
    <2>6. new.depth >= old.depth \/ old = None
        <3>1. old = None \/ old.depth = wrote[b][s]
            BY <1>3, <1>4, <2>1 DEF DepthInv, Written
        <3> HIDE DEF old, new
        <3> QED
            BY <2>2, <2>5, <3>1
    <2> HIDE DEF b, s, new
    <2>8. progress' = [progress EXCEPT ![b][s] = progress'[b][s]]
        BY <2>2, <2>4
    <2>9. progress'[b][s] # None
        BY <2>4, <2>5
    <2>10. progress[b][s] # None => progress'[b][s].depth >= progress[b][s].depth
        BY <2>4, <2>6
    <2>11. Ledger!Read(b, s)
        BY <1>1, <1>4, <2>2, <2>8, <2>9, <2>10 DEF Ledger!Read, Ledger!Open
    <2> QED
        BY <1>3, <2>1, <2>11 DEF Ledger!LedgerNext
<1> QED
    BY <1>5, <1>6, <1>7

\* Counters that are written while they are right are a recount.
LEMMA CountersInLedger ==
    ASSUME TypeInv, NEW w \in Workers, WriteCounters(w), anomalies' = {}
    PROVE  Ledger!LedgerNext
<1> DEFINE S == job[w].batch
<1>1. Ready(w) /\ JobsOK
    BY DEF WriteCounters, TypeInv
<1>2. S \in SUBSET Blogs
    BY <1>1, ResultTypes DEF Run
<1>3. \A b \in S : Result(w)[b] = Right(b) /\ status[b] # "gone"
    <2>1. \A b \in S : status[b] # "gone"
        BY DEF WriteCounters
    <2>2. \A f \in Figures, b \in S : job[w].rows[f][b] = Rows(f, b)
        BY DEF WriteCounters
    <2>3. DOMAIN job[w].figures = Figures /\ Faithful(job[w])
        BY <1>1 DEF Ready, JobsOK
    <2>4. \A f \in Figures, b \in S : job[w].figures[f][b] = Figure(f, b)
        BY <1>2, <2>2, <2>3 DEF Faithful, Figure
    <2> QED
        BY <2>1, <2>4 DEF Result, Right
<1>4. \A b : Right(b) = Ledger!Right(b)
    <2> TAKE b
    <2>0. \A T : Cardinality(T) = Ledger!Cardinality(T)
        BY DEF Cardinality, Ledger!Cardinality
    <2>1. \A readings : Completion(readings) = Ledger!Completion(readings)
        BY <2>0, Zenon DEF Completion, Ledger!Completion
    <2>2. \A f : Rows(f, b) = Ledger!Rows(f, b)
        BY DEF Rows, Ledger!Rows
    <2>3. \A f, rows : Made(f, rows) = Ledger!Made(f, rows)
        BY <2>0, <2>1 DEF Made, Ledger!Made
    <2>4. \A f : Figure(f, b) = Ledger!Figure(f, b)
        BY <2>2, <2>3 DEF Figure, Ledger!Figure
    <2> QED
        BY <2>4 DEF Right, Ledger!Right
<1>5. counters' = [b \in Blogs |-> IF b \in S THEN Ledger!Right(b) ELSE counters[b]]
    BY <1>2, <1>3, <1>4 DEF WriteCounters, Upserts
<1>6. UNCHANGED <<status, reactions, shares, views, progress, now>>
    BY DEF WriteCounters, envVars
<1>7. Ledger!Recount
    BY <1>2, <1>3, <1>5, <1>6 DEF Ledger!Recount
<1> QED
    BY <1>7 DEF Ledger!LedgerNext

\* Moderation is one step anyway.
LEMMA ModerationInLedger ==
    ASSUME TypeInv, NEW b \in Blogs, Moderate(b)
    PROVE  Ledger!LedgerNext
<1>1. status \in [Blogs -> Statuses] /\ now' = now /\ status[b] # "gone"
    BY DEF TypeInv, RowsOK, RowsTypeOK, Moderate
<1>2. CASE /\ status' = [status EXCEPT ![b] = IF @ = "hidden" THEN "published" ELSE "hidden"]
           /\ UNCHANGED <<reactions, shares, views, progress, counters>>
    <2>1. status'[b] # "gone" /\ status' = [status EXCEPT ![b] = status'[b]]
        BY <1>1, <1>2
    <2> QED
        BY <1>1, <1>2, <2>1 DEF Ledger!LedgerNext, Ledger!Moderate
<1>3. CASE Erased(b)
    <2>1. Ledger!Erased(b)
        BY <1>3 DEF Erased, Ledger!Erased
    <2> QED
        BY <1>1, <2>1 DEF Ledger!LedgerNext, Ledger!Moderate
<1> QED
    BY <1>2, <1>3 DEF Moderate

\* The statements of requests and job amount to the atomic ledger until
\* something goes wrong between two of them.
THEOREM LedgerImplemented == Spec => AtomicUntilAnomaly
<1>1. Init => Ledger!LedgerInit
    BY DEF Init, RowsInit, Ledger!LedgerInit, Ledger!RowsInit
<1>2. TypeInv /\ ViewsInv /\ DepthInv /\ [Next]_vars =>
         [anomalies' # {} \/ Ledger!LedgerNext]_(Ledger!ledgerVars)
    <2> SUFFICES ASSUME TypeInv, ViewsInv, DepthInv, [Next]_vars, anomalies' = {}
                 PROVE  Ledger!LedgerNext \/ UNCHANGED <<rowVars, now>>
        BY DEF Ledger!ledgerVars, Ledger!rowVars, rowVars
    <2>1. ASSUME NEW c \in Clients,
                 \/ WriteReaction(c) \/ DeleteReaction(c) \/ WriteShare(c) \/ WriteView(c)
                 \/ WriteReport(c)
          PROVE  Ledger!LedgerNext
        BY <2>1, ReactionInLedger, ReadersInLedger
    <2>2. ASSUME NEW w \in Workers, WriteCounters(w) PROVE Ledger!LedgerNext
        BY <2>2, CountersInLedger
    <2>3. ASSUME NEW b \in Blogs, Moderate(b) PROVE Ledger!LedgerNext
        BY <2>3, ModerationInLedger
    <2>4. CASE Tick
        BY <2>4 DEF Tick, rowVars, Ledger!rowVars, Ledger!Wait, Ledger!LedgerNext
    <2> QED
        BY <2>1, <2>2, <2>3, <2>4, WhoWrites DEF rowVars
<1> QED
    BY <1>1, <1>2, TypeInvInit, TypeInvStep, ViewsInit, ViewsStep, DepthInit, DepthStep, PTL
       DEF Spec, AtomicUntilAnomaly
=============================================================================
