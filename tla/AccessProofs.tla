---------------------------- MODULE AccessProofs ----------------------------
(***************************************************************************)
(* That requests which look, look again and then act implement             *)
(* AccessPolicy, which checks and acts at once, for any people, companies, *)
(* blogs and clients: every step is one of the policy's, unless the request *)
(* that takes it goes by rights that have changed since it read them.      *)
(***************************************************************************)
EXTENDS Access, TLAPS

-----------------------------------------------------------------------------
(* Rows *)

Row  == [author : People \cup {Anyone}, company : Companies \cup {None},
         status : Status \cup {"absent", "deleted"}]
Role == {"none", "author", "owner"}

\* The rows are well-formed, and only whoever created a company owns it.
RowsOK == /\ blog \in [Blogs -> Row]
          /\ role \in [Companies -> [People -> Role]]
          /\ \A k \in Companies, p \in People : role[k][p] = "owner" => p = Creator[k]
          /\ saved \in [People -> SUBSET Blogs]
          /\ isPublic \in [Companies -> BOOLEAN]

\* A blog that is there stays its author's.
Kept == \A b \in Blogs : blog[b].status # "absent" =>
           blog'[b].status # "absent" /\ blog'[b].author = blog[b].author

-----------------------------------------------------------------------------
(* Requests *)

ChangeJob == [op : {"create", "update", "publish", "schedule", "archive", "unarchive", "delete"},
              step : {"role", "target", "write"}, who : People, blog : Blogs, seen : Row,
              to : Companies \cup {None, Same},
              relied : SUBSET [company : Companies, role : Role]]
TeamJob   == [op : {"present", "invites", "milestone", "totals"}, step : {"team"}, who : People,
              company : Companies, relied : SUBSET [company : Companies, role : Role]]
FetchJob  == [op : {"saved"}, step : {"fetch"}, who : People, ids : SUBSET Blogs]
Job       == ChangeJob \cup TeamJob \cup FetchJob

\* The request has read that its caller has the right in the company.
Entitled(t, k, right) == \E f \in t.relied : f.company = k /\ Allowed(t.who, f.role, right)

\* Past the check of the blog, the caller is its author, or somebody that the
\* company it was in at the time allows what is asked for.
OnBlog(t) ==
    /\ t.step = "role" => t.op \notin {"create", "delete"} /\ t.seen.company \in Companies
    /\ t.op # "create" =>
          /\ blog[t.blog].status # "absent"
          /\ \/ t.step = "role"
             \/ blog[t.blog].author = t.who
             \/ /\ t.op # "delete" /\ t.seen.company \in Companies
                /\ Entitled(t, t.seen.company, RightFor(t.op))

\* Only creations and updates name a company, and past the check of that the
\* caller may write under its name.
UnderName(t) ==
    /\ t.op \notin {"create", "update"} => t.to = Same
    /\ t.op = "create" => t.to # Same
    /\ t.step = "target" => t.to \in Companies
    /\ t.step = "write" /\ t.to \in Companies => Entitled(t, t.to, "publishUnderCompany")

\* The company's page, invites and totals are for those whose role allows it.
OnTeam(t) == \E f \in t.relied : f.company = t.company /\ MayUse(t.who, f.role, t.op)

Sound(t) == /\ t \in ChangeJob => OnBlog(t) /\ UnderName(t)
            /\ t \in TeamJob => OnTeam(t)

TasksOK == /\ task \in [Clients -> Job \cup {Idle}]
           /\ \A c \in Clients : task[c] # Idle => Sound(task[c])

\* What is being created is not there yet, and nobody else creates it.
CreatesOK == /\ \A c \in Clients : task[c] \in ChangeJob /\ task[c].op = "create" =>
                   blog[task[c].blog].status = "absent"
             /\ \A c, d \in Clients :
                   (/\ task[c] \in ChangeJob /\ task[c].op = "create"
                    /\ task[d] \in ChangeJob /\ task[d].op = "create"
                    /\ task[c].blog = task[d].blog) => c = d

AccessInv == RowsOK /\ TasksOK /\ CreatesOK

\* Requests differ by what they do, and none is idle.
LEMMA Jobs ==
    \A t \in Job : /\ t # Idle /\ t.step # "idle"
                   /\ t.step \in {"role", "target", "write"} <=> t \in ChangeJob
                   /\ t.step = "team" <=> t \in TeamJob
                   /\ t.step = "fetch" <=> t \in FetchJob
BY DEF Job, ChangeJob, TeamJob, FetchJob, Idle

\* A request that has a step is none that is idle.
LEMMA Busy ==
    ASSUME TasksOK, NEW c \in Clients, task[c] # Idle \/ task[c].step # "idle"
    PROVE  task[c] \in Job /\ task[c] # Idle /\ Sound(task[c])
BY DEF TasksOK, Idle

\* A request stays sound while blogs stay their authors'.
LEMMA SoundStays == \A t \in Job : Kept /\ Sound(t) => Sound(t)'
BY DEF Kept, Sound, OnBlog, UnderName, OnTeam, Entitled, ChangeJob

\* So do all requests.
LEMMA TasksStay == TasksOK /\ Kept /\ UNCHANGED task => TasksOK'
<1> SUFFICES ASSUME TasksOK, Kept, UNCHANGED task, NEW c \in Clients, task[c] # Idle
             PROVE  Sound(task[c])'
    BY DEF TasksOK
<1>1. PICK t \in Job : t = task[c] /\ Sound(t)
    BY DEF TasksOK
<1>2. Sound(t)'
    BY <1>1, SoundStays
<1> QED
    BY <1>1, <1>2 DEF Sound, OnBlog, UnderName, OnTeam, Entitled

\* One of them goes on as something sound, or ends.
LEMMA TaskGoes ==
    ASSUME TasksOK, Kept, NEW c \in Clients, NEW t \in Job \cup {Idle}, t # Idle => Sound(t),
           Goes(c, t)
    PROVE  TasksOK'
<1>1. task' \in [Clients -> Job \cup {Idle}]
    BY DEF TasksOK, Goes
<1>2. ASSUME NEW d \in Clients, task'[d] # Idle PROVE Sound(task[d])'
    <2>1. PICK x \in Job : x = task'[d] /\ Sound(x)
        BY <1>2 DEF TasksOK, Goes
    <2>2. Sound(x)'
        BY <2>1, SoundStays
    <2> QED
        BY <2>1, <2>2 DEF Sound, OnBlog, UnderName, OnTeam, Entitled
<1> QED
    BY <1>1, <1>2 DEF TasksOK

\* Nothing in the rows changes.
LEMMA RowsStay == RowsOK /\ UNCHANGED dbVars => RowsOK' /\ Kept
BY DEF RowsOK, dbVars, Kept

\* A request goes on, or begins, without a change to the rows.
LEMMA GoesQuietly ==
    ASSUME AccessInv, UNCHANGED dbVars, NEW c \in Clients, NEW t \in Job \cup {Idle},
           t # Idle => Sound(t), Goes(c, t),
           t \in ChangeJob /\ t.op = "create" =>
              \/ task[c] \in ChangeJob /\ task[c].op = "create" /\ task[c].blog = t.blog
              \/ /\ blog[t.blog].status = "absent"
                 /\ \A d \in Clients : task[d] # Idle /\ task[d].op = "create" => task[d].blog # t.blog
    PROVE  AccessInv'
<1>1. RowsOK' /\ Kept
    BY RowsStay DEF AccessInv
<1>2. TasksOK'
    BY <1>1, TaskGoes DEF AccessInv
<1>3. task' = [task EXCEPT ![c] = t] /\ c \in DOMAIN task
    BY DEF Goes, AccessInv, TasksOK
<1>4. \A d \in Clients : task[d] \in ChangeJob => task[d] # Idle
    BY Jobs DEF Job
<1>5. \A d \in Clients : task'[d] \in ChangeJob /\ task'[d].op = "create" =>
         blog[task'[d].blog].status = "absent"
    BY <1>3 DEF AccessInv, CreatesOK, TasksOK
<1>6. \A d, e \in Clients :
         (/\ task'[d] \in ChangeJob /\ task'[d].op = "create"
          /\ task'[e] \in ChangeJob /\ task'[e].op = "create"
          /\ task'[d].blog = task'[e].blog) => d = e
    <2>1. \A d \in Clients : /\ d # c => task'[d] = task[d]
                             /\ d = c => task'[d] = t
        BY <1>3
    <2>2. ASSUME NEW d \in Clients, d # c, task[d] \in ChangeJob, task[d].op = "create",
                 t \in ChangeJob, t.op = "create", task[d].blog = t.blog
          PROVE  FALSE
        BY <1>4, <2>2 DEF AccessInv, CreatesOK
    <2>3. \A d, e \in Clients :
             (/\ task[d] \in ChangeJob /\ task[d].op = "create"
              /\ task[e] \in ChangeJob /\ task[e].op = "create"
              /\ task[d].blog = task[e].blog) => d = e
        BY DEF AccessInv, CreatesOK
    <2>4. ASSUME NEW d \in Clients, NEW e \in Clients,
                 task'[d] \in ChangeJob, task'[d].op = "create",
                 task'[e] \in ChangeJob, task'[e].op = "create",
                 task'[d].blog = task'[e].blog, d # e
          PROVE  FALSE
        <3>1. CASE d = c
            <4>1. e # c /\ task'[e] = task[e] /\ task'[d] = t
                BY <2>1, <2>4, <3>1
            <4> QED
                BY <2>2, <2>4, <4>1
        <3>2. CASE e = c
            <4>1. d # c /\ task'[d] = task[d] /\ task'[e] = t
                BY <2>1, <2>4, <3>2
            <4> QED
                BY <2>2, <2>4, <4>1
        <3>3. CASE d # c /\ e # c
            <4>1. task'[d] = task[d] /\ task'[e] = task[e]
                BY <2>1, <3>3
            <4> QED
                BY <2>3, <2>4, <4>1
        <3> QED
            BY <3>1, <3>2, <3>3
    <2> QED
        BY <2>4
<1>7. CreatesOK'
    BY <1>5, <1>6 DEF CreatesOK, dbVars
<1> QED
    BY <1>1, <1>2, <1>7 DEF AccessInv

\* What is left of the check of a company when the blog has been checked.
LEMMA Resting ==
    ASSUME NEW t \in ChangeJob
    PROVE  /\ Rest(t) \in ChangeJob
           /\ Rest(t).op = t.op /\ Rest(t).who = t.who /\ Rest(t).blog = t.blog
           /\ Rest(t).seen = t.seen /\ Rest(t).to = t.to /\ Rest(t).relied = t.relied
           /\ Rest(t).step = IF t.to \in Companies THEN "target" ELSE "write"
BY DEF Rest, ChangeJob

\* What a request knows when it has read a role.
LEMMA ReadingJob ==
    ASSUME RowsOK, NEW t \in ChangeJob \cup TeamJob, NEW k \in Companies
    PROVE  /\ t \in ChangeJob => /\ Reading(t, k) \in ChangeJob
                                 /\ Reading(t, k).blog = t.blog /\ Reading(t, k).seen = t.seen
                                 /\ Reading(t, k).to = t.to
           /\ t \in TeamJob => Reading(t, k) \in TeamJob /\ Reading(t, k).company = t.company
           /\ Reading(t, k).op = t.op /\ Reading(t, k).step = t.step /\ Reading(t, k).who = t.who
           /\ Reading(t, k).relied = t.relied \cup {[company |-> k, role |-> role[k][t.who]]}
<1>1. ASSUME t \in ChangeJob
      PROVE  /\ Reading(t, k) \in ChangeJob
             /\ Reading(t, k).blog = t.blog /\ Reading(t, k).seen = t.seen /\ Reading(t, k).to = t.to
             /\ Reading(t, k).op = t.op /\ Reading(t, k).step = t.step /\ Reading(t, k).who = t.who
             /\ Reading(t, k).relied = t.relied \cup {[company |-> k, role |-> role[k][t.who]]}
    <2> DEFINE f == [company |-> k, role |-> role[k][t.who]]
    <2>1. f \in [company : Companies, role : Role]
        BY <1>1 DEF RowsOK, ChangeJob
    <2> HIDE DEF f
    <2>2. t.relied \cup {f} \in SUBSET [company : Companies, role : Role]
        BY <1>1, <2>1 DEF ChangeJob
    <2>3. Reading(t, k) = [t EXCEPT !.relied = t.relied \cup {f}]
        BY DEF Reading, f
    <2> QED
        BY <1>1, <2>2, <2>3 DEF ChangeJob, f
<1>2. ASSUME t \in TeamJob
      PROVE  /\ Reading(t, k) \in TeamJob /\ Reading(t, k).company = t.company
             /\ Reading(t, k).op = t.op /\ Reading(t, k).step = t.step /\ Reading(t, k).who = t.who
             /\ Reading(t, k).relied = t.relied \cup {[company |-> k, role |-> role[k][t.who]]}
    <2> DEFINE f == [company |-> k, role |-> role[k][t.who]]
    <2>1. f \in [company : Companies, role : Role]
        BY <1>2 DEF RowsOK, TeamJob
    <2> HIDE DEF f
    <2>2. t.relied \cup {f} \in SUBSET [company : Companies, role : Role]
        BY <1>2, <2>1 DEF TeamJob
    <2>3. Reading(t, k) = [t EXCEPT !.relied = t.relied \cup {f}]
        BY DEF Reading, f
    <2> QED
        BY <1>2, <2>2, <2>3 DEF TeamJob, f
<1> QED
    BY <1>1, <1>2

\* A request begins.
LEMMA BeginKeeps ==
    ASSUME AccessInv, NEW c \in Clients, NEW t \in Job, Sound(t), Begin(c, t),
           t \in ChangeJob /\ t.op = "create" =>
              /\ blog[t.blog].status = "absent"
              /\ \A d \in Clients : task[d] # Idle /\ task[d].op = "create" => task[d].blog # t.blog
    PROVE  AccessInv'
BY GoesQuietly DEF Begin

\* All requests begin soundly.
LEMMA StartKeeps == AccessInv /\ StartNext => AccessInv'
<1> SUFFICES ASSUME AccessInv, StartNext PROVE AccessInv'
    OBVIOUS
<1>0. RowsOK
    BY DEF AccessInv
<1>1. ASSUME NEW c \in Clients, NEW p \in People, NEW b \in Blogs,
             NEW k \in Companies \cup {None}, StartCreate(c, p, b, k)
      PROVE  AccessInv'
    <2> DEFINE t == [op |-> "create", step |-> "write", who |-> p, blog |-> b,
                     seen |-> blog[b], to |-> k, relied |-> {}]
    <2>1. t \in ChangeJob
        BY <1>0 DEF RowsOK, ChangeJob
    <2>2. /\ t.op = "create" /\ t.blog = b /\ t.to = k
          /\ blog[b].status = "absent" /\ Begin(c, Rest(t))
          /\ \A d \in Clients : task[d] # Idle /\ task[d].op = "create" => task[d].blog # b
        BY <1>1 DEF StartCreate
    <2> HIDE DEF t
    <2>3. Rest(t) \in ChangeJob /\ Rest(t) \notin TeamJob
        BY <2>1, Resting, Jobs DEF Job, ChangeJob, TeamJob
    <2>4. Sound(Rest(t))
        BY <2>1, <2>2, <2>3, Resting, AccessAssumption DEF Sound, OnBlog, UnderName
    <2> QED
        BY <2>1, <2>2, <2>3, <2>4, Resting, BeginKeeps DEF Job
<1>2. ASSUME NEW c \in Clients, NEW p \in People, NEW b \in Blogs,
             NEW op \in DOMAIN Admits, NEW k \in Companies \cup {None, Same},
             StartChange(c, p, b, op, k)
      PROVE  AccessInv'
    <2> DEFINE t == [op |-> op, step |-> "role", who |-> p, blog |-> b,
                     seen |-> blog[b], to |-> k, relied |-> {}]
    <2>0. op \in {"update", "publish", "schedule", "archive", "unarchive", "delete"}
        BY DEF Admits
    <2>1. t \in ChangeJob
        BY <1>0, <2>0 DEF RowsOK, ChangeJob
    <2>2. /\ t.op = op /\ t.blog = b /\ t.to = k /\ t.who = p /\ t.seen = blog[b] /\ t.step = "role"
          /\ blog[b].status # "absent" /\ (op # "update" => k = Same)
          /\ \/ blog[b].author = p /\ Begin(c, Rest(t))
             \/ op # "delete" /\ blog[b].company # None /\ Begin(c, t)
        BY <1>2 DEF StartChange, Exists
    <2> HIDE DEF t
    <2>3. CASE blog[b].author = p /\ Begin(c, Rest(t))
        <3>1. Rest(t) \in ChangeJob /\ Rest(t) \notin TeamJob
            BY <2>1, Resting, Jobs DEF Job, ChangeJob, TeamJob
        <3>2. Sound(Rest(t))
            BY <2>0, <2>1, <2>2, <2>3, <3>1, Resting, AccessAssumption DEF Sound, OnBlog, UnderName
        <3> QED
            BY <2>0, <2>1, <2>2, <2>3, <3>1, <3>2, Resting, BeginKeeps DEF Job
    <2>4. CASE op # "delete" /\ blog[b].company # None /\ Begin(c, t)
        <3>1. t \notin TeamJob
            BY <2>1, Jobs DEF Job, ChangeJob, TeamJob
        <3>2. blog[b].company \in Companies
            BY <1>0, <2>4 DEF RowsOK, Row
        <3>3. Sound(t)
            BY <2>0, <2>2, <2>4, <3>1, <3>2 DEF Sound, OnBlog, UnderName
        <3> QED
            BY <2>0, <2>1, <2>2, <2>4, <3>3, BeginKeeps DEF Job
    <2> QED
        BY <2>2, <2>3, <2>4
<1>3. ASSUME NEW c \in Clients, NEW p \in People, NEW k \in Companies,
             NEW op \in {"present", "invites", "milestone", "totals"}, StartTeam(c, p, k, op)
      PROVE  AccessInv'
    <2> DEFINE t == [op |-> op, step |-> "team", who |-> p, company |-> k, relied |-> {}]
    <2>1. t \in TeamJob
        BY DEF TeamJob
    <2>2. t.op = op /\ t.who = p /\ t.company = k /\ Begin(c, Reading(t, k))
          /\ MayUse(p, role[k][p], op)
        BY <1>3 DEF StartTeam
    <2> HIDE DEF t
    <2>3. PICK r \in TeamJob : /\ r = Reading(t, k) /\ r.op = op /\ r.who = p /\ r.company = k
                               /\ [company |-> k, role |-> role[k][p]] \in r.relied
        BY <1>0, <2>1, <2>2, ReadingJob
    <2>4. r \notin ChangeJob
        BY <2>3, Jobs DEF Job, ChangeJob, TeamJob
    <2>5. OnTeam(r)
        BY <2>2, <2>3 DEF OnTeam
    <2> QED
        BY <2>2, <2>3, <2>4, <2>5, BeginKeeps DEF Sound, Job
<1>4. ASSUME NEW c \in Clients, NEW p \in People, StartSaved(c, p) PROVE AccessInv'
    <2> DEFINE t == [op |-> "saved", step |-> "fetch", who |-> p, ids |-> saved[p]]
    <2>1. t \in FetchJob
        BY <1>0 DEF FetchJob, RowsOK
    <2>2. Begin(c, t)
        BY <1>4 DEF StartSaved
    <2> HIDE DEF t
    <2>3. t \notin ChangeJob /\ t \notin TeamJob
        BY <2>1 DEF FetchJob, ChangeJob, TeamJob
    <2> QED
        BY <2>1, <2>2, <2>3, BeginKeeps DEF Sound, Job
<1> QED
    BY <1>1, <1>2, <1>3, <1>4 DEF StartNext

\* A request ends, and the rows stay.
LEMMA EndKeeps ==
    ASSUME AccessInv, UNCHANGED dbVars, NEW c \in Clients, Goes(c, Idle)
    PROVE  AccessInv'
<1>1. Idle \notin ChangeJob
    BY Jobs DEF Job
<1> QED
    BY <1>1, GoesQuietly

\* What a role says is kept, and no rights are lost.
LEMMA RoleKeeps ==
    ASSUME AccessInv, NEW c \in Clients, ReadRole(c)
    PROVE  AccessInv'
<1>1. PICK t \in ChangeJob : t = task[c] /\ t.step = "role" /\ OnBlog(t) /\ UnderName(t)
    BY Busy, Jobs DEF ReadRole, At, AccessInv, Sound
<1> DEFINE k == t.seen.company
<1>2. k \in Companies /\ t.op \notin {"create", "delete"}
    BY <1>1 DEF OnBlog
<1> HIDE DEF k
<1>3. CASE ~Allowed(t.who, role[k][t.who], RightFor(t.op))
    BY <1>1, <1>3, EndKeeps DEF ReadRole, Refuse, Proceed, k
<1>4. CASE Allowed(t.who, role[k][t.who], RightFor(t.op))
    <2>1. PICK x \in ChangeJob :
             /\ x = Reading(t, k) /\ x.blog = t.blog /\ x.seen = t.seen /\ x.to = t.to
             /\ x.op = t.op /\ x.who = t.who
             /\ x.relied = t.relied \cup {[company |-> k, role |-> role[k][t.who]]}
        BY <1>2, ReadingJob DEF AccessInv
    <2>2. PICK y \in ChangeJob :
             /\ y = Rest(x) /\ y.op = x.op /\ y.who = x.who /\ y.blog = x.blog /\ y.seen = x.seen
             /\ y.to = x.to /\ y.relied = x.relied
             /\ y.step = IF x.to \in Companies THEN "target" ELSE "write"
        BY Resting
    <2>3. Proceed(c, y)
        BY <1>1, <1>4, <2>1, <2>2 DEF ReadRole, k
    <2>4. Entitled(y, k, RightFor(y.op))
        <3> DEFINE f == [company |-> k, role |-> role[k][t.who]]
        <3>1. f \in y.relied /\ f.company = k /\ f.role = role[k][t.who]
            BY <2>1, <2>2
        <3> HIDE DEF f
        <3>2. y.who = t.who /\ y.op = t.op
            BY <2>1, <2>2
        <3> QED
            BY <1>4, <3>1, <3>2 DEF Entitled
    <2>5. OnBlog(y)
        <3>1. /\ y.op = t.op /\ y.blog = t.blog /\ y.seen = t.seen /\ y.step # "role"
              /\ t.op \notin {"create", "delete"} /\ k \in Companies /\ k = y.seen.company
            BY <1>2, <2>1, <2>2 DEF k
        <3>2. blog[t.blog].status # "absent"
            BY <1>1, <3>1 DEF OnBlog
        <3> QED
            BY <2>4, <3>1, <3>2 DEF OnBlog
    <2>6. UnderName(y)
        BY <1>1, <2>1, <2>2, AccessAssumption DEF UnderName
    <2>7. y \notin TeamJob /\ y \in Job
        BY Jobs DEF Job, ChangeJob, TeamJob
    <2>8. y.op # "create"
        BY <1>2, <2>1, <2>2
    <2> QED
        BY <2>3, <2>5, <2>6, <2>7, <2>8, GoesQuietly DEF Sound, Proceed
<1> QED
    BY <1>3, <1>4

\* So with the company that the blog is put under.
LEMMA TargetKeeps ==
    ASSUME AccessInv, NEW c \in Clients, ReadTarget(c)
    PROVE  AccessInv'
<1>1. PICK t \in ChangeJob : t = task[c] /\ t.step = "target" /\ OnBlog(t) /\ UnderName(t)
    BY Busy, Jobs DEF ReadTarget, At, AccessInv, Sound
<1>2. t.to \in Companies
    BY <1>1 DEF UnderName
<1>3. CASE ~Allowed(t.who, role[t.to][t.who], "publishUnderCompany")
    BY <1>1, <1>3, EndKeeps DEF ReadTarget, Refuse, Proceed
<1>4. CASE Allowed(t.who, role[t.to][t.who], "publishUnderCompany")
    <2>1. PICK x \in ChangeJob :
             /\ x = Reading(t, t.to) /\ x.blog = t.blog /\ x.seen = t.seen /\ x.to = t.to
             /\ x.op = t.op /\ x.who = t.who
             /\ x.relied = t.relied \cup {[company |-> t.to, role |-> role[t.to][t.who]]}
        BY <1>2, ReadingJob DEF AccessInv
    <2> DEFINE y == [x EXCEPT !.step = "write"]
    <2>2. /\ y \in ChangeJob /\ y.step = "write" /\ y.op = t.op /\ y.who = t.who /\ y.blog = t.blog
          /\ y.seen = t.seen /\ y.to = t.to
          /\ y.relied = t.relied \cup {[company |-> t.to, role |-> role[t.to][t.who]]}
        BY <2>1 DEF ChangeJob
    <2>3. Proceed(c, y)
        BY <1>1, <1>4, <2>1 DEF ReadTarget
    <2> HIDE DEF y
    <2>4. Entitled(y, y.to, "publishUnderCompany")
        <3> DEFINE f == [company |-> t.to, role |-> role[t.to][t.who]]
        <3>1. f \in y.relied /\ f.company = t.to /\ f.role = role[t.to][t.who]
            BY <2>2
        <3> HIDE DEF f
        <3> QED
            BY <1>4, <2>2, <3>1 DEF Entitled
    <2>5. OnBlog(y)
        BY <1>1, <2>2 DEF OnBlog, Entitled
    <2>6. UnderName(y)
        BY <1>1, <2>2, <2>4 DEF UnderName
    <2>7. y \notin TeamJob /\ y \in Job
        BY <2>2, Jobs DEF Job, ChangeJob, TeamJob
    <2> QED
        BY <1>1, <2>2, <2>3, <2>5, <2>6, <2>7, GoesQuietly DEF Sound, Proceed
<1> QED
    BY <1>3, <1>4

\* A blog's row is written, with the author that it has, and is there after it.
LEMMA RowWritten ==
    ASSUME AccessInv, NEW b \in Blogs, NEW row \in Row, row.status # "absent",
           blog[b].status # "absent" => row.author = blog[b].author,
           blog' = [blog EXCEPT ![b] = row], saved' \in [People -> SUBSET Blogs],
           UNCHANGED <<role, isPublic>>
    PROVE  /\ RowsOK' /\ Kept /\ blog'[b] = row
           /\ \A d \in Blogs : d # b => blog'[d] = blog[d]
BY DEF AccessInv, RowsOK, Kept

\* What is written.
LEMMA WrittenRow ==
    ASSUME AccessInv, NEW t \in ChangeJob, OnBlog(t), UnderName(t), blog[t.blog].status # "deleted",
           t.op = "create" => blog[t.blog].status = "absent"
    PROVE  /\ Written(t) \in Row /\ Written(t).status # "absent"
           /\ t.op # "create" => Written(t).author = blog[t.blog].author
           /\ t.op \notin {"create", "delete"} => Written(t).status \in Status
           /\ t.op = "create" => Written(t) = [author |-> t.who, company |-> t.to, status |-> "draft"]
           /\ t.op = "delete" => Written(t) = [blog[t.blog] EXCEPT !.status = "deleted"]
           /\ t.op # "create" /\ t.to = Same => Written(t).company = blog[t.blog].company
           /\ t.op # "create" /\ t.to # Same => Written(t).company = t.to
<1>1. PICK r \in Row : r = blog[t.blog]
    BY DEF AccessInv, RowsOK, ChangeJob
<1>2. CASE t.op = "create"
    <2>1. t.to \in Companies \cup {None} /\ t.who \in People
        BY <1>2 DEF UnderName, ChangeJob
    <2>2. Written(t) = [author |-> t.who, company |-> t.to, status |-> "draft"]
        BY <1>2 DEF Written, UnderName
    <2> QED
        BY <1>2, <2>1, <2>2 DEF Row, Status
<1>3. CASE t.op = "update"
    <2> DEFINE k == IF t.to = Same THEN r.company ELSE t.to
    <2>1. k \in Companies \cup {None}
        BY DEF ChangeJob, Row
    <2>2. Written(t) = [r EXCEPT !.company = k]
        BY <1>1, <1>3 DEF Written
    <2> HIDE DEF k
    <2>3. /\ Written(t) \in Row /\ Written(t).author = r.author /\ Written(t).status = r.status
          /\ Written(t).company = k
        BY <2>1, <2>2 DEF Row
    <2>4. r.status \in Status
        BY <1>1, <1>3 DEF OnBlog, Row
    <2> QED
        BY <1>1, <1>3, <2>3, <2>4 DEF k, Status
<1>4. CASE t.op = "delete"
    <2>1. Written(t) = [r EXCEPT !.status = "deleted"]
        BY <1>1, <1>4 DEF Written
    <2>2. t.to = Same
        BY <1>4 DEF UnderName
    <2> QED
        BY <1>1, <1>4, <2>1, <2>2 DEF Row
<1>5. CASE t.op \in {"publish", "schedule", "archive", "unarchive"}
    <2>1. Becoming[t.op] \in Status
        BY <1>5 DEF Becoming, Status
    <2>2. Written(t) = [r EXCEPT !.status = Becoming[t.op]]
        BY <1>1, <1>5 DEF Written
    <2>3. t.to = Same
        BY <1>5 DEF UnderName
    <2>4. PICK v \in Status : v = Becoming[t.op]
        BY <2>1
    <2>5. Written(t) = [r EXCEPT !.status = v]
        BY <2>2, <2>4
    <2>6. v # "absent"
        BY DEF Status
    <2>7. /\ Written(t) \in Row /\ Written(t).author = r.author /\ Written(t).status = v
          /\ Written(t).company = r.company
        BY <2>5 DEF Row
    <2> QED
        BY <1>1, <1>5, <2>3, <2>6, <2>7
<1> QED
    BY <1>2, <1>3, <1>4, <1>5 DEF ChangeJob

\* A blog that is written is there, and nobody else is creating it.
LEMMA WriteKeeps ==
    ASSUME AccessInv, NEW c \in Clients, WriteBlog(c)
    PROVE  AccessInv'
<1>1. PICK t \in ChangeJob : t = task[c] /\ t.step = "write" /\ OnBlog(t) /\ UnderName(t)
    BY Busy, Jobs DEF WriteBlog, At, AccessInv, Sound
<1>2. t.op = "create" => blog[t.blog].status = "absent"
    BY <1>1 DEF AccessInv, CreatesOK
<1>3. CASE blog[t.blog].status = "deleted"
    BY <1>1, <1>3, EndKeeps DEF WriteBlog, Refuse, Proceed
<1>4. CASE blog[t.blog].status # "deleted"
    <2>1. PICK row \in Row :
             /\ row = Written(t) /\ row.status # "absent"
             /\ t.op # "create" => row.author = blog[t.blog].author
        BY <1>1, <1>2, <1>4, WrittenRow
    <2>2. /\ blog' = [blog EXCEPT ![t.blog] = row] /\ Goes(c, Idle) /\ UNCHANGED <<role, isPublic>>
          /\ saved' = [p \in People |-> saved[p] \ {t.blog}] \/ saved' = saved
        BY <1>1, <1>4, <2>1 DEF WriteBlog
    <2>3. t.blog \in Blogs /\ saved' \in [People -> SUBSET Blogs]
        BY <2>2 DEF AccessInv, RowsOK, ChangeJob
    <2>4. /\ RowsOK' /\ Kept
          /\ \A d \in Blogs : d # t.blog => blog'[d] = blog[d]
        BY <1>2, <2>1, <2>2, <2>3, RowWritten
    <2>5. TasksOK'
        BY <2>2, <2>4, TaskGoes DEF AccessInv
    <2>6. CreatesOK'
        <3>1. Idle \notin ChangeJob
            BY Jobs DEF Job
        <3>2. \A d \in Clients : task'[d] \in ChangeJob => d # c /\ task'[d] = task[d]
            BY <2>2, <3>1 DEF Goes, AccessInv, TasksOK
        <3>3. ASSUME NEW d \in Clients, task'[d] \in ChangeJob, task'[d].op = "create"
              PROVE  blog'[task'[d].blog].status = "absent"
            <4>1. PICK x \in ChangeJob : x = task[d] /\ x = task'[d] /\ x.op = "create" /\ d # c
                BY <3>2, <3>3
            <4>2. blog[x.blog].status = "absent" /\ x.blog \in Blogs
                BY <4>1 DEF AccessInv, CreatesOK, ChangeJob
            <4>3. x.blog # t.blog
                <5>1. CASE t.op = "create"
                    BY <1>1, <4>1, <5>1 DEF AccessInv, CreatesOK
                <5>2. CASE t.op # "create"
                    BY <1>1, <4>2, <5>2 DEF OnBlog
                <5> QED
                    BY <5>1, <5>2
            <4> QED
                BY <2>4, <4>1, <4>2, <4>3
        <3>4. \A d, e \in Clients :
                 (/\ task'[d] \in ChangeJob /\ task'[d].op = "create"
                  /\ task'[e] \in ChangeJob /\ task'[e].op = "create"
                  /\ task'[d].blog = task'[e].blog) => d = e
            BY <3>2 DEF AccessInv, CreatesOK
        <3> QED
            BY <3>3, <3>4 DEF CreatesOK
    <2> QED
        BY <2>4, <2>5, <2>6 DEF AccessInv
<1> QED
    BY <1>3, <1>4

\* Requests go on as they are while blogs appear and teams and saves change.
LEMMA OthersKeep ==
    ASSUME AccessInv, UNCHANGED task, RowsOK', Kept,
           \A b \in Blogs : blog[b].status = "absent" => blog'[b].status = "absent"
    PROVE  AccessInv'
<1>1. TasksOK'
    BY TasksStay DEF AccessInv
<1>2. CreatesOK'
    BY DEF AccessInv, CreatesOK, ChangeJob
<1> QED
    BY <1>1, <1>2 DEF AccessInv

\* So they do in what the other modules are about.
LEMMA ChangesKeep ==
    ASSUME AccessInv,
           \/ \E b \in Blogs : PublishDue(b) \/ \E p \in People : Save(p, b)
           \/ \E k \in Companies, p \in People, r \in {"none", "author"} : Enrol(k, p, r)
    PROVE  AccessInv'
<1>1. ASSUME NEW b \in Blogs, PublishDue(b) PROVE AccessInv'
    <2>1. PICK r \in Row : r = blog[b] /\ r.status = "scheduled"
        BY <1>1 DEF PublishDue, AccessInv, RowsOK
    <2>0. PICK s \in {"published", "publish_failed"} : blog' = [blog EXCEPT ![b].status = s]
        BY <1>1 DEF PublishDue
    <2> DEFINE row == [r EXCEPT !.status = s]
    <2>2. row \in Row /\ row.status # "absent" /\ row.author = r.author
        BY DEF Row, Status
    <2>3. blog' = [blog EXCEPT ![b] = row]
        BY <2>0, <2>1
    <2> HIDE DEF row
    <2>4. UNCHANGED <<saved, role, isPublic, task>> /\ saved' \in [People -> SUBSET Blogs]
        BY <1>1 DEF PublishDue, AccessInv, RowsOK
    <2>5. /\ RowsOK' /\ Kept /\ \A d \in Blogs : d # b => blog'[d] = blog[d]
        BY <2>1, <2>2, <2>3, <2>4, RowWritten
    <2> QED
        BY <2>1, <2>4, <2>5, OthersKeep
<1>2. ASSUME NEW b \in Blogs, NEW p \in People, Save(p, b) PROVE AccessInv'
    <2>1. RowsOK' /\ Kept
        BY <1>2 DEF Save, AccessInv, RowsOK, Kept
    <2> QED
        BY <1>2, <2>1, OthersKeep DEF Save
<1>3. ASSUME NEW k \in Companies, NEW p \in People, NEW r \in {"none", "author"}, Enrol(k, p, r)
      PROVE  AccessInv'
    <2>1. role' = [role EXCEPT ![k][p] = r] /\ UNCHANGED <<blog, saved, isPublic, task>>
        BY <1>3 DEF Enrol
    <2>2. /\ role' \in [Companies -> [People -> Role]]
          /\ \A j \in Companies, q \in People :
                role'[j][q] = IF j = k /\ q = p THEN r ELSE role[j][q]
        BY <2>1 DEF AccessInv, RowsOK, Role
    <2>3. RowsOK' /\ Kept
        BY <2>1, <2>2 DEF AccessInv, RowsOK, Kept
    <2> QED
        BY <2>1, <2>3, OthersKeep
<1> QED
    BY <1>1, <1>2, <1>3

\* Answers change nothing.
LEMMA AnswersKeep ==
    ASSUME AccessInv,
           \/ ReadNext
           \/ \E c \in Clients : \/ Present(c) \/ ListInvites(c) \/ AddMilestone(c)
                                 \/ CompanyAnalytics(c) \/ FetchSaved(c)
    PROVE  AccessInv'
<1>1. CASE ReadNext
    <2>1. UNCHANGED <<dbVars, task>>
        BY <1>1 DEF ReadNext, Explore, Trending, Home, Search, ListCompanies, ListFeatured, ReadPublic,
                    ListCompany, ReadCompany, ListMine, ListAuthor, ListMyTeams, ReadMine, BlogAnalytics, Answer
    <2>2. RowsOK' /\ Kept /\ UNCHANGED blog
        BY <2>1, RowsStay DEF AccessInv, dbVars
    <2> QED
        BY <2>1, <2>2, OthersKeep
<1>2. ASSUME NEW c \in Clients, ListInvites(c) \/ AddMilestone(c) \/ CompanyAnalytics(c)
      PROVE  AccessInv'
    BY <1>2, EndKeeps DEF ListInvites, AddMilestone, CompanyAnalytics, Respond
<1>3. ASSUME NEW c \in Clients, Present(c) PROVE AccessInv'
    <2>1. UNCHANGED <<blog, role, saved>> /\ Goes(c, Idle)
        BY <1>3 DEF Present
    <2>2. isPublic' \in [Companies -> BOOLEAN]
        BY <1>3 DEF Present, AccessInv, RowsOK
    <2>3. RowsOK' /\ Kept
        BY <2>1, <2>2 DEF AccessInv, RowsOK, Kept
    <2>4. TasksOK'
        BY <2>1, <2>3, TaskGoes DEF AccessInv
    <2>5. CreatesOK'
        <3>1. Idle \notin ChangeJob
            BY Jobs DEF Job
        <3>2. \A d \in Clients : task'[d] \in ChangeJob => task'[d] = task[d]
            BY <2>1, <3>1 DEF Goes, AccessInv, TasksOK
        <3> QED
            BY <2>1, <3>2 DEF AccessInv, CreatesOK
    <2> QED
        BY <2>3, <2>4, <2>5 DEF AccessInv
<1>4. ASSUME NEW c \in Clients, FetchSaved(c) PROVE AccessInv'
    <2>1. PICK t \in FetchJob : t = task[c]
        BY <1>4, Busy, Jobs DEF FetchSaved, At, AccessInv
    <2>2. CASE Refuse(c)
        BY <2>2, EndKeeps DEF Refuse, Proceed
    <2>3. ASSUME NEW b \in t.ids, Goes(c, [t EXCEPT !.ids = t.ids \ {b}]), UNCHANGED dbVars
          PROVE  AccessInv'
        <3> DEFINE x == [t EXCEPT !.ids = t.ids \ {b}]
        <3>1. x \in FetchJob
            BY DEF FetchJob
        <3> HIDE DEF x
        <3>2. x \in Job /\ x \notin ChangeJob /\ x \notin TeamJob
            BY <3>1 DEF Job, FetchJob, ChangeJob, TeamJob
        <3>3. Goes(c, x) /\ UNCHANGED dbVars
            BY <2>3 DEF x
        <3> QED
            BY <3>2, <3>3, GoesQuietly DEF Sound
    <2> QED
        BY <1>4, <2>1, <2>2, <2>3 DEF FetchSaved
<1> QED
    BY <1>1, <1>2, <1>3, <1>4

\* Nothing is there at first, and nobody asks for anything.
LEMMA AccessInitially == Init => AccessInv
<1> SUFFICES ASSUME Init PROVE AccessInv
    OBVIOUS
<1>1. RowsOK
    <2>1. Begun \cup {NoBlog} \subseteq Row
        BY AccessAssumption DEF NoBlog, Row, Status
    <2>2. blog \in [Blogs -> Row]
        BY <2>1 DEF Init
    <2>3. /\ role \in [Companies -> [People -> Role]]
          /\ \A k \in Companies, p \in People : role[k][p] = "owner" => p = Creator[k]
        BY DEF Init, Role
    <2> QED
        BY <2>2, <2>3 DEF Init, RowsOK
<1>2. TasksOK
    BY DEF Init, TasksOK
<1>3. CreatesOK
    BY Jobs DEF Init, CreatesOK, Job
<1> QED
    BY <1>1, <1>2, <1>3 DEF AccessInv

\* Requests go only by what they have read, and rows stay well-formed.
LEMMA AccessKept == AccessInv /\ [Next]_vars => AccessInv'
<1> SUFFICES ASSUME AccessInv, [Next]_vars PROVE AccessInv'
    OBVIOUS
<1>1. CASE UNCHANGED vars
    <2>1. RowsOK' /\ Kept
        BY <1>1, RowsStay DEF vars, AccessInv
    <2> QED
        BY <1>1, <2>1, OthersKeep DEF vars, dbVars
<1> QED
    BY <1>1, AnswersKeep, StartKeeps, RoleKeeps, TargetKeeps, WriteKeeps, ChangesKeep DEF Next

-----------------------------------------------------------------------------
(* The policy *)

PolicyStep == \/ Policy!PolicyNext
              \/ \E c \in Clients : Outdated(c) /\ task'[c] # task[c]

\* The policy allows an answer that shows what its reader may see.
LEMMA Shown ==
    ASSUME NEW p \in People \cup {Anyone}, NEW S, \A i \in S : Policy!MaySee(p, i),
           answer' = [to |-> p, what |-> S], UNCHANGED dbVars
    PROVE  Policy!PolicyNext
<1>1. answer'.what = S
    OBVIOUS
<1>2. Policy!See(p, answer'.what)
    BY <1>1 DEF Policy!See, dbVars
<1> QED
    BY <1>2 DEF Policy!PolicyNext

\* An answer that shows nothing.
LEMMA Nothing == Quiet /\ UNCHANGED dbVars => Policy!PolicyNext
BY Shown DEF Quiet

\* Texts that their reader may read, companies in the open or the reader's own.
LEMMA MayShow ==
    ASSUME NEW p
    PROVE  /\ \A B : (\A b \in B : Policy!MayRead(p, b)) => \A i \in Texts(B) : Policy!MaySee(p, i)
           /\ \A K : (\A k \in K : isPublic[k] \/ Policy!Belongs(k, p)) =>
                        \A i \in Listed(K) : Policy!MaySee(p, i)
<1>1. ASSUME NEW b, Policy!MayRead(p, b) PROVE Policy!MaySee(p, Item("text", b))
    BY <1>1 DEF Policy!MaySee, Item
<1>2. ASSUME NEW k, isPublic[k] \/ Policy!Belongs(k, p) PROVE Policy!MaySee(p, Item("company", k))
    BY <1>2 DEF Policy!MaySee, Item
<1> QED
    BY <1>1, <1>2 DEF Texts, Listed

\* Everybody reads what is published, and lists companies in the open.
LEMMA Published ==
    /\ \A k, p : \A b \in FindPublished(k) : Policy!MayRead(p, b)
    /\ FindTrending = FindPublished(None) /\ FindDeepDives \subseteq FindPublished(None)
    /\ \A a : FindPublishedBy(a) \subseteq FindPublished(None)
<1>1. \A k, p : \A b \in FindPublished(k) : Policy!MayRead(p, b)
    BY DEF FindPublished, Policy!MayRead, Policy!Exists
<1> QED
    BY <1>1 DEF FindTrending, FindDeepDives, FindPublished, FindPublishedBy, FindByAuthor

\* Texts for whoever may read them.
LEMMA TextsShown ==
    ASSUME NEW p \in People \cup {Anyone}, NEW B, \A b \in B : Policy!MayRead(p, b),
           answer' = [to |-> p, what |-> Texts(B)], UNCHANGED dbVars
    PROVE  Policy!PolicyNext
<1>1. \A i \in Texts(B) : Policy!MaySee(p, i)
    BY MayShow
<1> QED
    BY <1>1, Shown

\* Texts for everybody.
LEMMA PublishedShown ==
    ASSUME NEW k, NEW B \in SUBSET FindPublished(k), Answer(Anyone, Texts(B))
    PROVE  Policy!PolicyNext
<1>1. \A b \in B : Policy!MayRead(Anyone, b)
    BY Published
<1> QED
    BY <1>1, TextsShown DEF Answer

\* Companies in a list.
LEMMA CompaniesShown ==
    ASSUME NEW p \in People \cup {Anyone}, NEW K, \A k \in K : isPublic[k] \/ Policy!Belongs(k, p),
           Answer(p, Listed(K))
    PROVE  Policy!PolicyNext
<1>1. \A i \in Listed(K) : Policy!MaySee(p, i)
    BY MayShow
<1> QED
    BY <1>1, Shown DEF Answer

\* The lists, pages, searches and reports show only what their reader may see.
LEMMA ReadsAllowed == AccessInv /\ ReadNext => Policy!PolicyNext
<1> SUFFICES ASSUME AccessInv, ReadNext PROVE Policy!PolicyNext
    OBVIOUS
<1>1. ASSUME Explore \/ Trending PROVE Policy!PolicyNext
    BY <1>1, Published, PublishedShown DEF Explore, Trending
<1>2. ASSUME Home PROVE Policy!PolicyNext
    <2>1. \E B \in SUBSET FindPublished(None) : Answer(Anyone, Texts(B))
        BY <1>2, Published DEF Home
    <2> QED
        BY <2>1, PublishedShown
<1>3. ASSUME Search PROVE Policy!PolicyNext
    <2>1. PICK B \in SUBSET FindTrending, K \in SUBSET FindOpen :
             Answer(Anyone, Texts(B) \cup Listed(K))
        BY <1>3 DEF Search
    <2>2. \A i \in Texts(B) \cup Listed(K) : Policy!MaySee(Anyone, i)
        <3>1. \A b \in B : Policy!MayRead(Anyone, b)
            BY Published
        <3>2. \A k \in K : isPublic[k]
            BY DEF FindOpen
        <3> QED
            BY <3>1, <3>2, MayShow
    <2> QED
        BY <2>1, <2>2, Shown DEF Answer
<1>4. ASSUME ListCompanies \/ ListFeatured PROVE Policy!PolicyNext
    <2>1. \E K \in SUBSET FindOpen : Answer(Anyone, Listed(K))
        BY <1>4 DEF ListCompanies, ListFeatured
    <2>2. \A k \in FindOpen : isPublic[k]
        BY DEF FindOpen
    <2> QED
        BY <2>1, <2>2, CompaniesShown
<1>5. ASSUME NEW b \in Blogs, ReadPublic(b) PROVE Policy!PolicyNext
    <2>1. {b} \in SUBSET FindPublished(None) /\ Answer(Anyone, Texts({b}))
        BY <1>5 DEF ReadPublic, FindPublished
    <2> QED
        BY <2>1, PublishedShown
<1>6. ASSUME NEW k \in Companies, ListCompany(k) PROVE Policy!PolicyNext
    BY <1>6, PublishedShown DEF ListCompany, FindPublishedUnder
<1>7. ASSUME NEW p \in People, ListAuthor(p) PROVE Policy!PolicyNext
    BY <1>7, Published, PublishedShown DEF ListAuthor
<1>8. ASSUME NEW p \in People, NEW B \in SUBSET FindByAuthor(p), Answer(p, Texts(B))
      PROVE  Policy!PolicyNext
    <2>1. \A b \in B : Policy!MayRead(p, b)
        BY DEF FindByAuthor, Exists, Policy!MayRead, Policy!Exists
    <2> QED
        BY <1>8, <2>1, TextsShown DEF Answer
<1>9. ASSUME NEW p \in People, ListMine(p) PROVE Policy!PolicyNext
    BY <1>8, <1>9 DEF ListMine
<1>10. ASSUME NEW p \in People, NEW b \in Blogs, ReadMine(p, b) PROVE Policy!PolicyNext
    <2>1. {b} \in SUBSET FindByAuthor(p) /\ Answer(p, Texts({b}))
        BY <1>10 DEF ReadMine
    <2> QED
        BY <1>8, <2>1
<1>11. ASSUME NEW p \in People, ListMyTeams(p) PROVE Policy!PolicyNext
    <2>1. \A k \in FindMine(p) : Policy!Belongs(k, p)
        BY DEF FindMine, Policy!Belongs
    <2> QED
        BY <1>11, <2>1, CompaniesShown DEF ListMyTeams
<1>12. ASSUME NEW p \in People, NEW b \in Blogs, BlogAnalytics(p, b) PROVE Policy!PolicyNext
    <2>1. Policy!MaySee(p, Item("figures", b))
        BY <1>12 DEF BlogAnalytics, Policy!MaySee, Item
    <2> QED
        BY <1>12, <2>1, Shown DEF BlogAnalytics, Answer
<1>13. ASSUME NEW k \in Companies, ReadCompany(k) PROVE Policy!PolicyNext
    <2>1. Policy!MaySee(Anyone, Item("page", k))
        BY DEF Policy!MaySee, Item
    <2> QED
        BY <1>13, <2>1, Shown DEF ReadCompany, Answer
<1> QED
    BY <1>1, <1>2, <1>3, <1>4, <1>5, <1>6, <1>7, <1>9, <1>10, <1>11, <1>12, <1>13 DEF ReadNext

\* What starts and what is read before a change shows nothing.
LEMMA ChecksAllowed ==
    ASSUME AccessInv,
           StartNext \/ (\E c \in Clients : ReadRole(c) \/ ReadTarget(c))
    PROVE  Policy!PolicyNext
<1>1. Quiet /\ UNCHANGED dbVars
    <2>1. CASE StartNext
        <3>1. ASSUME NEW c, NEW t, Begin(c, t) PROVE Quiet /\ UNCHANGED dbVars
            BY <3>1 DEF Begin
        <3>2. ASSUME NEW c, NEW p, NEW b, NEW k, StartCreate(c, p, b, k)
              PROVE  Quiet /\ UNCHANGED dbVars
            BY <3>1, <3>2 DEF StartCreate
        <3>3. ASSUME NEW c, NEW p, NEW b, NEW op, NEW k, StartChange(c, p, b, op, k)
              PROVE  Quiet /\ UNCHANGED dbVars
            BY <3>1, <3>3 DEF StartChange
        <3>4. ASSUME NEW c, NEW p, NEW k, NEW op, StartTeam(c, p, k, op) \/ StartSaved(c, p)
              PROVE  Quiet /\ UNCHANGED dbVars
            BY <3>1, <3>4 DEF StartTeam, StartSaved
        <3> QED
            BY <2>1, <3>2, <3>3, <3>4 DEF StartNext
    <2>2. ASSUME NEW c \in Clients, ReadRole(c) \/ ReadTarget(c) PROVE Quiet /\ UNCHANGED dbVars
        BY <2>2 DEF ReadRole, ReadTarget, Proceed, Refuse
    <2> QED
        BY <2>1, <2>2
<1> QED
    BY <1>1, Nothing

\* The rights that the matrix gives.
LEMMA Rights ==
    /\ \A p, r : Allowed(p, r, "publishUnderCompany") => p \in Admins \/ r # "none"
    /\ \A p, r : \A right \in {"editAnyCompanyBlog", "archiveAnyCompanyBlog", "editCompanyProfile",
                               "inviteAuthors", "addMilestone"} :
          Allowed(p, r, right) => p \in Admins \/ r = "owner"
    /\ \A op : RightFor(op) \in {"editAnyCompanyBlog", "archiveAnyCompanyBlog"}
BY DEF Allowed, Matrix, RightFor

\* What a request that is not outdated goes by still holds.
LEMMA StillEntitled ==
    ASSUME NEW c \in Clients, ~Outdated(c), NEW t \in ChangeJob \cup TeamJob, t = task[c],
           t.step \in {"target", "write", "team"}
    PROVE  /\ \A f \in t.relied : role[f.company][t.who] = f.role
           /\ \A k, right : Entitled(t, k, right) =>
                 /\ Allowed(t.who, role[k][t.who], right)
                 /\ t.op # "create" /\ t.step \in {"target", "write"} =>
                       blog[t.blog].company = t.seen.company
BY DEF Outdated, Entitled

\* Whoever writes a blog may do that at that moment, and under that name, unless
\* the request is outdated.
LEMMA WriteAllowed ==
    ASSUME AccessInv, NEW c \in Clients, WriteBlog(c)
    PROVE  PolicyStep
<1>1. PICK t \in ChangeJob : t = task[c] /\ t.step = "write" /\ OnBlog(t) /\ UnderName(t)
    BY Busy, Jobs DEF WriteBlog, At, AccessInv, Sound
<1>2. t.op = "create" => blog[t.blog].status = "absent"
    BY <1>1 DEF AccessInv, CreatesOK
<1>3. CASE blog[t.blog].status = "deleted"
    <2>1. Quiet /\ UNCHANGED dbVars
        BY <1>1, <1>3 DEF WriteBlog, Refuse, Proceed
    <2> QED
        BY <2>1, Nothing DEF PolicyStep
<1>4. CASE Outdated(c)
    <2>1. task'[c] = Idle /\ t # Idle
        BY <1>1, Jobs DEF WriteBlog, Refuse, Proceed, Goes, AccessInv, TasksOK, Job
    <2> QED
        BY <1>1, <1>4, <2>1 DEF PolicyStep
<1>5. CASE blog[t.blog].status # "deleted" /\ ~Outdated(c)
    <2> DEFINE p == t.who
               b == t.blog
    <2>0. p \in People /\ b \in Blogs /\ t.to \in Companies \cup {None, Same}
        BY DEF ChangeJob
    <2>1. PICK row \in Row :
             /\ row = Written(t) /\ row.status # "absent"
             /\ t.op # "create" => row.author = blog[b].author
             /\ t.op \notin {"create", "delete"} => row.status \in Status
             /\ t.op = "create" => row = [author |-> p, company |-> t.to, status |-> "draft"]
             /\ t.op = "delete" => row = [blog[b] EXCEPT !.status = "deleted"]
             /\ t.op # "create" /\ t.to = Same => row.company = blog[b].company
             /\ t.op # "create" /\ t.to # Same => row.company = t.to
        BY <1>1, <1>2, <1>5, WrittenRow
    <2>2. /\ blog' = [blog EXCEPT ![b] = row] /\ UNCHANGED <<role, isPublic>>
          /\ t.op = "delete" => saved' = [q \in People |-> saved[q] \ {b}] /\ Quiet
          /\ t.op # "delete" => saved' = saved /\ answer' = [to |-> p, what |-> Texts({b})]
        BY <1>1, <1>5, <2>1 DEF WriteBlog
    <2>3. t.to # Same => Policy!MayWriteUnder(p, t.to)
        <3> SUFFICES ASSUME t.to \in Companies PROVE Policy!MayWriteUnder(p, t.to)
            BY <2>0 DEF Policy!MayWriteUnder
        <3>1. Allowed(p, role[t.to][p], "publishUnderCompany")
            BY <1>1, <1>5, StillEntitled DEF UnderName
        <3> QED
            BY <2>0, <3>1, Rights DEF Policy!MayWriteUnder, Policy!Belongs
    <2>4. t.op # "create" => Policy!MayChange(p, b) /\ Policy!Exists(b)
        <3> SUFFICES ASSUME t.op # "create" PROVE Policy!MayChange(p, b) /\ Policy!Exists(b)
            OBVIOUS
        <3>1. Policy!Exists(b)
            BY <1>1, <1>5 DEF OnBlog, Policy!Exists
        <3>2. CASE blog[b].author = p
            BY <3>1, <3>2 DEF Policy!MayChange
        <3>3. CASE blog[b].author # p
            <4>1. t.seen.company \in Companies /\ Entitled(t, t.seen.company, RightFor(t.op))
                BY <1>1, <3>3 DEF OnBlog
            <4>2. /\ Allowed(p, role[t.seen.company][p], RightFor(t.op))
                  /\ blog[b].company = t.seen.company
                BY <1>1, <1>5, <4>1, StillEntitled
            <4>3. Policy!Runs(blog[b].company, p)
                BY <2>0, <4>2, Rights DEF Policy!Runs, Policy!Owns
            <4>4. blog[b].company # None
                BY <4>1, <4>2, AccessAssumption
            <4> QED
                BY <3>1, <4>3, <4>4 DEF Policy!MayChange
        <3> QED
            BY <3>2, <3>3
    <2> HIDE DEF p, b
    <2>5. CASE t.op = "create"
        <3>1. t.to \in Companies \cup {None} /\ t.to # Same
            BY <1>1, <2>0, <2>5 DEF UnderName
        <3>2. Policy!Texts({b}) = Texts({b})
            BY DEF Texts, Item, Policy!Texts, Policy!Item
        <3>3. Policy!Create(p, b, t.to)
            BY <1>2, <2>1, <2>2, <2>3, <2>5, <3>1, <3>2 DEF Policy!Create, Policy!Put, b
        <3> QED
            BY <2>0, <3>1, <3>3 DEF PolicyStep, Policy!PolicyNext
    <2>6. CASE t.op \notin {"create", "delete"}
        <3>1. row.company \in Companies \cup {None} /\ row.status \in Status
            BY <2>1, <2>6 DEF Row
        <3>2. Policy!Texts({b}) = Texts({b})
            BY DEF Texts, Item, Policy!Texts, Policy!Item
        <3>3. row = [author |-> blog[b].author, company |-> row.company, status |-> row.status]
            BY <2>1, <2>6 DEF Row
        <3>4. row.company = blog[b].company \/ Policy!MayWriteUnder(p, row.company)
            BY <2>1, <2>3, <2>6
        <3>5. Policy!Change(p, b, row.company, row.status)
            BY <2>2, <2>4, <2>6, <3>2, <3>3, <3>4 DEF Policy!Change, Policy!Put
        <3> QED
            BY <2>0, <3>1, <3>5 DEF PolicyStep, Policy!PolicyNext, Status
    <2>7. CASE t.op = "delete"
        <3>1. blog[b].author = p
            BY <1>1, <2>7 DEF OnBlog, p, b
        <3>2. blog' = [blog EXCEPT ![b].status = "deleted"]
            BY <2>1, <2>2, <2>7
        <3>3. Policy!Delete(p, b)
            BY <2>2, <2>4, <2>7, <3>1, <3>2 DEF Policy!Delete, Policy!Silence, Quiet
        <3> QED
            BY <2>0, <3>3 DEF PolicyStep, Policy!PolicyNext
    <2> QED
        BY <2>5, <2>6, <2>7
<1> QED
    BY <1>3, <1>4, <1>5

\* Pages, invites and totals are for those who run the company.
LEMMA TeamAllowed ==
    ASSUME AccessInv, NEW c \in Clients,
           Present(c) \/ ListInvites(c) \/ AddMilestone(c) \/ CompanyAnalytics(c)
    PROVE  PolicyStep
<1>1. PICK t \in TeamJob : t = task[c] /\ t.step = "team" /\ OnTeam(t)
    BY Busy, Jobs DEF Present, ListInvites, AddMilestone, CompanyAnalytics, At, AccessInv, Sound
<1>2. CASE Outdated(c)
    <2>1. task'[c] = Idle /\ t # Idle
        BY <1>1, Jobs DEF Present, ListInvites, AddMilestone, CompanyAnalytics, Respond, Goes,
                          AccessInv, TasksOK, Job
    <2> QED
        BY <1>1, <1>2, <2>1 DEF PolicyStep
<1>3. CASE ~Outdated(c)
    <2> DEFINE p == t.who
               k == t.company
    <2>1. p \in People /\ k \in Companies
        BY DEF TeamJob
    <2>2. MayUse(p, role[k][p], t.op)
        BY <1>1, <1>3, StillEntitled DEF OnTeam
    <2>3. /\ t.op \in {"present", "invites", "milestone"} => Policy!Runs(k, p)
          /\ t.op = "totals" => Policy!Owns(k, p)
        BY <2>1, <2>2, Rights DEF MayUse, TeamRights, Policy!Runs, Policy!Owns
    <2>4. CASE Present(c)
        <3>1. PICK v \in BOOLEAN : isPublic' = [isPublic EXCEPT ![k] = v]
            BY <1>1, <2>4 DEF Present
        <3>2. /\ answer' = [to |-> p, what |-> Listed({k})] /\ UNCHANGED <<blog, role, saved>>
              /\ t.op = "present"
            BY <1>1, <2>4 DEF Present
        <3>3. Policy!Listed({k}) = Listed({k})
            BY DEF Listed, Item, Policy!Listed, Policy!Item
        <3>4. /\ isPublic' \in [Companies -> BOOLEAN]
              /\ \A j \in Companies \ {k} : isPublic'[j] = isPublic[j]
            BY <3>1 DEF AccessInv, RowsOK
        <3>5. Policy!Present(p, k)
            BY <2>3, <3>2, <3>3, <3>4 DEF Policy!Present
        <3> QED
            BY <2>1, <3>5 DEF PolicyStep, Policy!PolicyNext
    <2>5. ASSUME NEW i, answer' = [to |-> p, what |-> {i}], UNCHANGED dbVars, Policy!MaySee(p, i)
          PROVE  PolicyStep
        <3>1. \A j \in {i} : Policy!MaySee(p, j)
            BY <2>5
        <3> QED
            BY <2>1, <2>5, <3>1, Shown DEF PolicyStep
    <2>6. CASE ListInvites(c)
        <3>1. Policy!MaySee(p, Item("invites", k))
            BY <1>1, <2>3, <2>6 DEF ListInvites, Policy!MaySee, Item
        <3> QED
            BY <1>1, <2>5, <2>6, <3>1 DEF ListInvites, Respond
    <2>7. CASE CompanyAnalytics(c)
        <3>1. Policy!MaySee(p, Item("totals", k))
            BY <1>1, <2>3, <2>7 DEF CompanyAnalytics, Policy!MaySee, Item
        <3> QED
            BY <1>1, <2>5, <2>7, <3>1 DEF CompanyAnalytics, Respond
    <2>8. CASE AddMilestone(c)
        <3>1. Policy!MaySee(p, Item("posted", k))
            BY <1>1, <2>3, <2>8 DEF AddMilestone, Policy!MaySee, Item
        <3> QED
            BY <1>1, <2>5, <2>8, <3>1 DEF AddMilestone, Respond
    <2> QED
        BY <2>4, <2>6, <2>7, <2>8
<1> QED
    BY <1>2, <1>3

\* What was saved may be read while it is saved.
LEMMA FetchAllowed ==
    ASSUME AccessInv, NEW c \in Clients, FetchSaved(c)
    PROVE  PolicyStep
<1>1. PICK t \in FetchJob : t = task[c] /\ t.step = "fetch"
    BY Busy, Jobs DEF FetchSaved, At, AccessInv
<1>2. CASE Refuse(c)
    BY <1>2, Nothing DEF Refuse, Proceed, PolicyStep
<1>3. ASSUME NEW b \in t.ids, Goes(c, [t EXCEPT !.ids = t.ids \ {b}]), UNCHANGED dbVars,
             IF Exists(b) THEN answer' = [to |-> t.who, what |-> Texts({b})] ELSE Quiet
      PROVE  PolicyStep
    <2>1. CASE ~Exists(b)
        BY <1>3, <2>1, Nothing DEF PolicyStep
    <2>2. CASE Outdated(c)
        <3>1. task'[c] = [t EXCEPT !.ids = t.ids \ {b}]
            BY <1>3 DEF Goes, AccessInv, TasksOK
        <3>2. task'[c].ids = t.ids \ {b}
            BY <3>1 DEF FetchJob
        <3>3. task'[c] # task[c]
            BY <1>1, <3>2
        <3> QED
            BY <2>2, <3>3 DEF PolicyStep
    <2>3. CASE Exists(b) /\ ~Outdated(c)
        <3>1. b \in saved[t.who] /\ t.who \in People
            BY <1>1, <2>3 DEF Outdated, FetchJob
        <3>2. \A d \in {b} : Policy!MayRead(t.who, d)
            BY <2>3, <3>1 DEF Exists, Policy!MayRead, Policy!Exists
        <3> QED
            BY <1>3, <2>3, <3>1, <3>2, TextsShown DEF PolicyStep
    <2> QED
        BY <2>1, <2>2, <2>3
<1> QED
    BY <1>1, <1>2, <1>3 DEF FetchSaved

\* Blogs appear when they are due, owners stay, and only what is published is
\* saved.
LEMMA ChangesAllowed ==
    ASSUME AccessInv,
           \/ \E b \in Blogs : PublishDue(b) \/ \E p \in People : Save(p, b)
           \/ \E k \in Companies, p \in People, r \in {"none", "author"} : Enrol(k, p, r)
    PROVE  Policy!PolicyNext
<1>1. ASSUME NEW b \in Blogs, PublishDue(b) PROVE Policy!PolicyNext
    BY <1>1 DEF PublishDue, Quiet, Policy!Appear, Policy!Silence, Policy!PolicyNext
<1>2. ASSUME NEW b \in Blogs, NEW p \in People, Save(p, b) PROVE Policy!PolicyNext
    <2>1. PICK S \in SUBSET Blogs : /\ saved' = [saved EXCEPT ![p] = S]
                                    /\ \A d \in S \ saved[p] : blog[d].status = "published"
        BY <1>2 DEF Save, AccessInv, RowsOK
    <2>2. Policy!Keep(p, S)
        BY <1>2, <2>1 DEF Save, Quiet, Policy!Keep, Policy!Silence
    <2> QED
        BY <2>2 DEF Policy!PolicyNext
<1>3. ASSUME NEW k \in Companies, NEW p \in People, NEW r \in {"none", "author"}, Enrol(k, p, r)
      PROVE  Policy!PolicyNext
    <2>1. ~Policy!Owns(k, p)
        BY <1>3 DEF Enrol, AccessInv, RowsOK, Policy!Owns
    <2>2. Policy!Enrol(k, p, r)
        BY <1>3, <2>1 DEF Enrol, Quiet, Policy!Enrol, Policy!Silence
    <2> QED
        BY <2>2 DEF Policy!PolicyNext
<1> QED
    BY <1>1, <1>2, <1>3

\* Every step is one of the policy's, or that of a request that is outdated.
LEMMA StepAllowed == AccessInv /\ Next => PolicyStep
BY ReadsAllowed, ChecksAllowed, WriteAllowed, TeamAllowed, FetchAllowed, ChangesAllowed
DEF Next, PolicyStep

\* So it begins.
LEMMA PolicyInitially == Init => Policy!PolicyInit
<1> SUFFICES ASSUME Init PROVE Policy!PolicyInit
    OBVIOUS
<1>1. ASSUME NEW k \in Companies
      PROVE  \E p \in People : \A q \in People : role[k][q] = "owner" <=> q = p
    <2>1. Creator[k] \in People /\ \A q \in People : role[k][q] = "owner" <=> q = Creator[k]
        BY AccessAssumption DEF Init
    <2> QED
        BY <2>1
<1>2. \A b \in Blogs : blog[b].status = "absent" \/ blog[b].author \in People
    <2>1. \A x \in Begun \cup {NoBlog} : x.status = "absent" \/ x.author \in People
        BY AccessAssumption DEF NoBlog
    <2>2. blog \in [Blogs -> Begun \cup {NoBlog}]
        BY DEF Init
    <2> QED
        BY <2>1, <2>2
<1> QED
    BY <1>1, <1>2 DEF Init, Policy!PolicyInit, Policy!Silence

\* The server, whose requests look at the rows and at roles one after the other
\* and then act, shows and changes only what AccessPolicy allows at that moment,
\* unless a role, a blog's company or a save changed in between.
THEOREM AccessImplementsPolicy == Spec => PolicyUntilOutdated
<1>1. AccessInv /\ [Next]_vars => [PolicyStep]_<<dbVars, answer>>
    BY StepAllowed DEF vars
<1>2. Spec => []AccessInv
    BY AccessInitially, AccessKept, PTL DEF Spec
<1> QED
    BY <1>1, <1>2, PolicyInitially, PTL DEF Spec, PolicyUntilOutdated, PolicyStep

=============================================================================
