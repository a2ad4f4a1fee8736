--------------------------- MODULE Notifications ---------------------------
(***************************************************************************)
(* FollowsService, NotificationsListener and NotificationsService: who     *)
(* follows whom, and who is told what.                                     *)
(*                                                                         *)
(* The services emit an event once the database has what it is about.  An  *)
(* event lives in the memory of the process.  Its listener reads, writes   *)
(* rows and pushes them to sockets, statement by statement; the listeners  *)
(* of all events run side by side and with the requests.                   *)
(***************************************************************************)
EXTENDS Integers, Sequences, FiniteSets

CONSTANTS People,
          Profiled,   \* the people with an author profile
          Owners,     \* of the company
          Admins,     \* the administrators of the platform
          Members,    \* the people registered from the start
          Author,     \* the author of the blog, which is the company's
          Company, Blog, Tag, None,
          Clients,    \* slots for follow requests in progress
          Asked,      \* what people do
          Hour,       \* the window in which reactions are told once
          MaxTime, MaxRequests, MaxFaults  \* bounds

Told    == {"author_followed", "company_followed", "blog_liked", "blog_saved",
            "blog_published_fan_out", "company_invite_received",
            "company_invite_accepted", "company_invite_declined", "company_milestone"}
Targets == Profiled \cup {Company, Tag}

ASSUME NotificationsAssumption ==
    /\ Profiled \cup Owners \cup Admins \cup Members \subseteq People
    /\ Author \in Profiled \cap Members
    /\ {Company, Blog, Tag, None} \cap People = {}
    /\ Cardinality({Company, Tag, None}) = 3
    /\ Asked \subseteq Told \cup {"follow", "unfollow", "register", "read", "delete"}
    /\ {Hour, MaxTime, MaxRequests, MaxFaults} \subseteq Nat

VARIABLES
    follows,     \* author_follows, company_follows, tag_follows
    registered,  \* users
    notices,     \* notifications
    serial,      \* the number of inserts into notifications so far
    task,        \* what each follow request is doing
    events,      \* every event so far, with what its listener is doing
    now, requests, faults,
    anomalies    \* what has gone wrong so far

envVars == <<now, requests, faults>>
vars == <<follows, registered, notices, serial, task, events, envVars, anomalies>>

\* A row was written beside one just like it, which was not there when its
\* listener had looked.
Anomaly == {"parallel_reaction"}

Idle == [step |-> "idle"]
Task == [op : {"follow", "unfollow"}, step : {"look", "write", "announce"},
         who : People, what : Targets]

\* actor: whom the event names; to: who is still to be told; sources: whose
\* followers are still to be read.  The rest is history: who really did it, the
\* last row there was when the listener looked, who was told, who was not for a
\* fault, and which follower of which source must be told or who may be.
Event == [type : Told, actor : People \cup {None}, entity : Targets \cup {Blog},
          step : {"look", "read", "create", "done"}, sources : SUBSET Targets,
          to : SUBSET People, by : People, looked : Nat,
          got : SUBSET People, missed : SUBSET People,
          must : SUBSET (People \X (Targets \cup {None})), may : SUBSET People]

Notice == [id : Nat, event : Nat, user : People, type : Told,
           actor : People \cup {None}, entity : Targets \cup {Blog},
           isRead : BOOLEAN, at : Nat]

TypeOK ==
    /\ follows \subseteq People \X Targets
    /\ registered \subseteq People
    /\ notices \subseteq Notice /\ serial \in Nat
    /\ task \in [Clients -> Task \cup {Idle}]
    /\ \A e \in DOMAIN events : events[e] \in Event
    /\ {now, requests, faults} \subseteq Nat
    /\ anomalies \subseteq Anomaly

Init ==
    /\ follows = {}
    /\ registered = Members
    /\ notices = {} /\ serial = 0
    /\ task = [c \in Clients |-> Idle]
    /\ events = <<>>
    /\ now = 0 /\ requests = 0 /\ faults = 0
    /\ anomalies = {}

-----------------------------------------------------------------------------
Counted(op) == op \in Asked /\ requests < MaxRequests /\ requests' = requests + 1
Fault       == faults < MaxFaults /\ faults' = faults + 1

Goto(c, step) == task' = [task EXCEPT ![c].step = step]
Done(c)       == task' = [task EXCEPT ![c] = Idle]

Followers(sources) == {p \in People : \E s \in sources : <<p, s>> \in follows}

\* An event to known people, one to whom its listener has to look up, and one
\* to the followers of some sources, which need not name who did it.
Direct(type, actor, entity, to) ==
    [type |-> type, actor |-> actor, entity |-> entity, step |-> "create",
     sources |-> {}, to |-> to, by |-> actor, looked |-> 0, got |-> {}, missed |-> {}, must |-> to \X {None}, may |-> to]
Lookup(type, actor, entity, to) ==
    [Direct(type, actor, entity, to) EXCEPT !.step = "look", !.must = {}]
FanOut(type, by, actor, entity, sources) ==
    [Direct(type, by, entity, {}) EXCEPT
        !.actor = actor, !.step = "read", !.sources = sources,
        !.must = {f \in follows : f[2] \in sources /\ f[1] # actor},
        !.may = Followers(sources) \ {actor}]

\* The listeners: what each sets out to do with an event of its type, and what
\* its rows will say.
handleAuthorFollowed(who, author)   == Direct("author_followed", who, author, {author})
handleCompanyFollowed(who, owners)  == Direct("company_followed", who, Company, owners)
handleBlogLiked(who)                == Lookup("blog_liked", who, Blog, {Author})
handleBlogSaved(who)                == Lookup("blog_saved", who, Blog, {Author})
handleBlogPublished(by, sources)    ==
    FanOut("blog_published_fan_out", by, Author, Blog, sources)
handleCompanyInviteReceived(who, q) ==
    [Lookup("company_invite_received", who, Company, {q}) EXCEPT
        !.must = ({q} \cap registered) \X {None}]
handleCompanyInviteResponded(type, who, owners) == Direct(type, who, Company, owners)
handleCompanyMilestone(by)          ==
    FanOut("company_milestone", by, None, Company, {Company})

Emit(event) == events' = Append(events, event)

-----------------------------------------------------------------------------
(* FollowsService *)

\* Mutant: one may follow oneself.
AnyoneFollows(who, what) == TRUE

MayFollow(who, what) == what # who

StartFollow(c) == \E who \in registered, what \in Targets :
    /\ task[c] = Idle
    /\ \/ Counted("follow") /\ MayFollow(who, what)
          /\ task' = [task EXCEPT ![c] =
                [op |-> "follow", step |-> "look", who |-> who, what |-> what]]
       \/ Counted("unfollow")
          /\ task' = [task EXCEPT ![c] =
                [op |-> "unfollow", step |-> "look", who |-> who, what |-> what]]
    /\ UNCHANGED <<follows, registered, notices, serial, events, now, faults, anomalies>>

Pair(c) == <<task[c].who, task[c].what>>

Look(c) ==
    /\ task[c].step = "look"
    /\ IF task[c].op = "follow" <=> Pair(c) \notin follows
       THEN Goto(c, "write") ELSE Done(c)
    /\ UNCHANGED <<follows, registered, notices, serial, events, envVars, anomalies>>

\* Those who are about to be told of an event about what they now follow.
Joined(p) == [e \in DOMAIN events |->
    IF p[2] \in events[e].sources /\ p[1] # events[e].actor
    THEN [events[e] EXCEPT !.may = @ \cup {p[1]}] ELSE events[e]]
Left(p) == [e \in DOMAIN events |-> [events[e] EXCEPT !.must = @ \ {p}]]

\* The unique key refuses a second row; nobody without a profile is announced,
\* and nobody who follows a tag.
Follow(c) ==
    /\ task[c].step = "write" /\ task[c].op = "follow"
    /\ IF Pair(c) \in follows
       THEN Done(c) /\ UNCHANGED <<follows, events>>
       ELSE /\ follows' = follows \cup {Pair(c)}
            /\ events' = Joined(Pair(c))
            /\ IF task[c].who \in Profiled /\ task[c].what # Tag
               THEN Goto(c, "announce") ELSE Done(c)
    /\ UNCHANGED <<registered, notices, serial, envVars, anomalies>>

\* A second parallel unfollow finds no row to delete, and fails.
Unfollow(c) ==
    /\ task[c].step = "write" /\ task[c].op = "unfollow"
    /\ follows' = follows \ {Pair(c)}
    /\ events' = Left(Pair(c))
    /\ Done(c)
    /\ UNCHANGED <<registered, notices, serial, envVars, anomalies>>

\* Mutant: the owner who follows is told as well.
AllOwners(who) == Owners

OtherOwners(who) == Owners \ {who}

AnnounceFollow(c) ==
    LET who  == task[c].who
        what == task[c].what
    IN  /\ task[c].step = "announce"
        /\ IF what \in Profiled
           THEN Emit(handleAuthorFollowed(who, what))
           ELSE IF OtherOwners(who) = {} THEN UNCHANGED events
           ELSE Emit(handleCompanyFollowed(who, OtherOwners(who)))
        /\ Done(c)
        /\ UNCHANGED <<follows, registered, notices, serial, envVars, anomalies>>

-----------------------------------------------------------------------------
(* What the other services emit: EngagementService, BlogsService and the     *)
(* scheduler, CompaniesService.                                              *)

Elsewhere == UNCHANGED <<follows, registered, notices, serial, task, now, faults, anomalies>>

Reacts == \E p \in (Profiled \cap registered) \ {Author} :
    /\ \/ Counted("blog_liked") /\ Emit(handleBlogLiked(p))
       \/ Counted("blog_saved") /\ Emit(handleBlogSaved(p))
    /\ Elsewhere

\* A blog is its author's alone, or the company's as well; whoever publishes it,
\* or has it scheduled, the event names the author.
Publishes == \E sources \in {{Author}, {Author, Company}} :
    \E by \in {Author} \cup Admins \cup (IF Company \in sources THEN Owners ELSE {}) :
        /\ by \in registered
        /\ Counted("blog_published_fan_out")
        /\ Emit(handleBlogPublished(by, sources))
        /\ Elsewhere

\* The event does not say who posted the milestone.
AddsMilestone == \E by \in (Owners \cup Admins) \cap registered :
    /\ Counted("company_milestone")
    /\ Emit(handleCompanyMilestone(by))
    /\ Elsewhere

Invites == \E p \in Owners \cap Profiled, q \in People \ Owners :
    /\ Counted("company_invite_received")
    /\ Emit(handleCompanyInviteReceived(p, q))
    /\ Elsewhere

\* Who accepts is not yet an owner.
Responds == \E type \in {"company_invite_accepted", "company_invite_declined"},
               p \in Profiled \cap registered :
    /\ Counted(type)
    /\ type = "company_invite_accepted" => p \notin Owners
    /\ OtherOwners(p) # {}
    /\ Emit(handleCompanyInviteResponded(type, p, OtherOwners(p)))
    /\ Elsewhere

Register == \E p \in People \ registered :
    /\ Counted("register")
    /\ registered' = registered \cup {p}
    /\ UNCHANGED <<follows, notices, serial, task, events, now, faults, anomalies>>

-----------------------------------------------------------------------------
(* NotificationsListener *)

\* A row that the event would repeat.
Alike(e, n) ==
    /\ n.user \in events[e].to /\ n.type = events[e].type
    /\ n.actor = events[e].actor /\ n.entity = events[e].entity
    /\ ~n.isRead /\ n.at >= now - Hour

\* Mutant: the listener waits for its turn.
LookUpWaits(e) ==
    /\ events[e].step = "look"
    /\ \A n \in notices : ~Alike(e, n)
    /\ events' = [events EXCEPT ![e].step = "create", ![e].looked = serial]
    /\ UNCHANGED <<follows, registered, notices, serial, task, envVars, anomalies>>

\* Mutant: the findFirst is gone.
LookUpBlind(e) ==
    LET told == events[e].type \in {"blog_liked", "blog_saved"} \/ events[e].to \subseteq registered
    IN  /\ events[e].step = "look"
        /\ events' = [events EXCEPT ![e].step = IF told THEN "create" ELSE "done",
                                    ![e].to = IF told THEN @ ELSE {}, ![e].looked = serial]
        /\ UNCHANGED <<follows, registered, notices, serial, task, envVars, anomalies>>

\* handleBlogLiked, handleBlogSaved: findFirst.  handleCompanyInviteReceived:
\* the account with the invited email address.
LookUp(e) ==
    LET told == CASE events[e].type \in {"blog_liked", "blog_saved"} ->
                       \A n \in notices : ~Alike(e, n)
                  [] OTHER -> events[e].to \subseteq registered
    IN  /\ events[e].step = "look"
        /\ events' = [events EXCEPT ![e].step = IF told THEN "create" ELSE "done",
                                    ![e].to = IF told THEN @ ELSE {}, ![e].looked = serial]
        /\ UNCHANGED <<follows, registered, notices, serial, task, envVars, anomalies>>

\* Mutant: everybody who follows.
Everyone(e, found) == found

\* The author is not told of an own blog.
Recipients(e, found) == found \ {events[e].actor}

\* Mutant: a source without followers is the end.
StopEarly(rest, to) == IF to = {} THEN "done" ELSE IF rest # {} THEN "read" ELSE "create"

AfterRead(rest, to) == IF rest # {} THEN "read" ELSE IF to = {} THEN "done" ELSE "create"

\* The followers of the author and of the company, in either order.
ReadFollowers(e) == \E s \in events[e].sources :
    LET rest == events[e].sources \ {s}
        to   == events[e].to \cup Recipients(e, Followers({s}))
    IN  /\ events' = [events EXCEPT
             ![e].sources = rest, ![e].to = to,
             ![e].step = AfterRead(rest, to)]
        /\ UNCHANGED <<follows, registered, notices, serial, task, envVars, anomalies>>

IsFanOut(e) == events[e].type \in {"blog_published_fan_out", "company_milestone"}

\* Mutant: a row does not say what it is about.
RowsOfNothing(e, U) ==
    {[id |-> serial + 1, event |-> e, user |-> u, type |-> events[e].type,
      actor |-> events[e].actor, entity |-> None, isRead |-> FALSE, at |-> now] : u \in U}

\* What one statement inserts.
Rows(e, U) ==
    {[id |-> serial + 1, event |-> e, user |-> u, type |-> events[e].type,
      actor |-> events[e].actor, entity |-> events[e].entity, isRead |-> FALSE,
      at |-> now] : u \in U}

\* One createMany for a fan-out, one create for each other recipient.
Batches(e) == IF IsFanOut(e) THEN {events[e].to} ELSE {{u} : u \in events[e].to}

\* Mutant: what was written is written once more.
Retried(e, U) == IF U \subseteq events[e].got THEN events[e].to \ U ELSE events[e].to

Remaining(e, U) == events[e].to \ U

\* The row, and in the statement's continuation the push to the sockets.
Create(e) == \E U \in Batches(e) :
    /\ events[e].step = "create"
    /\ notices' = notices \cup Rows(e, U)
    /\ serial' = serial + 1
    /\ events' = [events EXCEPT
          ![e].to = Remaining(e, U), ![e].got = @ \cup U,
          ![e].step = IF Remaining(e, U) = {} THEN "done" ELSE "create"]
    /\ anomalies' = IF events[e].type \in {"blog_liked", "blog_saved"}
                       /\ \E n \in notices : n.id > events[e].looked /\ Alike(e, n)
                    THEN anomalies \cup {"parallel_reaction"} ELSE anomalies
    /\ UNCHANGED <<follows, registered, task, envVars>>

-----------------------------------------------------------------------------
(* NotificationsService, for the person the notification is for.  Looking a  *)
(* row up and changing it are one step: only its owner's requests change it, *)
(* and one that comes too late fails.                                        *)

ReadOne == \E n \in notices :
    /\ Counted("read")
    /\ notices' = (notices \ {n}) \cup {[n EXCEPT !.isRead = TRUE]}
    /\ UNCHANGED <<follows, registered, serial, task, events, now, faults, anomalies>>

ReadAll == \E p \in People :
    /\ Counted("read")
    /\ notices' = {IF n.user = p THEN [n EXCEPT !.isRead = TRUE] ELSE n : n \in notices}
    /\ UNCHANGED <<follows, registered, serial, task, events, now, faults, anomalies>>

Delete == \E S \in {{n} : n \in notices} \cup {{n \in notices : n.user = p} : p \in People} :
    /\ Counted("delete")
    /\ notices' = notices \ S
    /\ UNCHANGED <<follows, registered, serial, task, events, now, faults, anomalies>>

-----------------------------------------------------------------------------
(* Failures, crashes, time *)

Open(e) == events[e].step # "done"

\* The event is done for; everybody left to be told is not.
Lost(e) == [events[e] EXCEPT !.step = "done", !.sources = {}, !.to = {},
                             !.missed = People \ events[e].got]

\* A statement of a request is rejected: an error response, and no event.
Fails(c) ==
    /\ task[c] # Idle
    /\ Fault /\ Done(c)
    /\ UNCHANGED <<follows, registered, notices, serial, events, now, requests, anomalies>>

\* A statement of a listener is rejected: logged.  One of several creates takes
\* none of the others along.
ListenerFails(e) ==
    /\ Open(e) /\ Fault
    /\ IF events[e].step = "create" /\ ~IsFanOut(e)
       THEN \E u \in events[e].to :
               events' = [events EXCEPT
                  ![e].to = @ \ {u}, ![e].missed = @ \cup {u},
                  ![e].step = IF events[e].to = {u} THEN "done" ELSE "create"]
       ELSE events' = [events EXCEPT ![e] = Lost(e)]
    /\ UNCHANGED <<follows, registered, notices, serial, task, now, requests, anomalies>>

Crash ==
    /\ Fault
    /\ task' = [c \in Clients |-> Idle]
    /\ events' = [e \in DOMAIN events |-> IF Open(e) THEN Lost(e) ELSE events[e]]
    /\ UNCHANGED <<follows, registered, notices, serial, now, requests, anomalies>>

Tick ==
    /\ now < MaxTime
    /\ now' = now + 1
    /\ UNCHANGED <<follows, registered, notices, serial, task, events, requests,
                   faults, anomalies>>

Handle(c) == Look(c) \/ Follow(c) \/ Unfollow(c) \/ AnnounceFollow(c)
Listen(e) == LookUp(e) \/ ReadFollowers(e) \/ Create(e)

Next ==
    \/ \E c \in Clients : StartFollow(c) \/ Handle(c) \/ Fails(c)
    \/ \E e \in DOMAIN events : Listen(e) \/ ListenerFails(e)
    \/ Reacts \/ Publishes \/ AddsMilestone \/ Invites \/ Responds \/ Register
    \/ ReadOne \/ ReadAll \/ Delete \/ Crash \/ Tick

Spec == Init /\ [][Next]_vars

\* While listeners have statements to run the event loop runs one of them, of
\* whichever listener.
FairSpec == Spec /\ WF_vars(\E e \in DOMAIN events : Listen(e))

-----------------------------------------------------------------------------
(* Properties *)

\* Nobody is told of something they did themselves.  No listener checks this
\* but the one of publications; it is up to the services that emit.  Only who
\* posted a milestone, or published somebody else's blog, and follows the
\* company or the author is told of it, for those events do not say who did it;
\* the author is never told.
NotOwnAct ==
    \A n \in notices :
        /\ n.user # n.actor
        /\ n.user = events[n.event].by =>
              n.type \in {"company_milestone", "blog_published_fan_out"}

\* "So-and-so published" reaches a person once, who may follow the author, the
\* company or both; and so does every other event.
OncePerEvent ==
    \A m, n \in notices : m.event = n.event /\ m.user = n.user => m = n

\* An author has no two unread notices of the same person's likes of the same
\* blog within an hour, however often that person took the like back, unless
\* one was written after the listener of the other had looked.
ReactionToldOnce ==
    "parallel_reaction" \notin anomalies =>
        \A m, n \in notices :
            /\ m.id < n.id /\ m.type = n.type /\ m.type \in {"blog_liked", "blog_saved"}
            /\ m.user = n.user /\ m.actor = n.actor /\ m.entity = n.entity
            /\ n.at - m.at <= Hour
            => m.isRead

\* Only those are told who followed, or were meant, at some time before the
\* listener read.
OnlyThoseMeant ==
    \A e \in DOMAIN events : events[e].got \subseteq events[e].may

\* When a listener is done, everybody has been told who
\* was to be told and kept following until then, but for those a fault kept
\* from it: one recipient's failure is nobody else's.
EveryoneTold ==
    \A e \in DOMAIN events : events[e].step = "done" =>
        {m[1] : m \in events[e].must} \subseteq events[e].got \cup events[e].missed

\* Every event is handled or lost in a crash: there is always a time to come
\* when no listener has anything left to do.
EventsHandled == []<>(\A e \in DOMAIN events : events[e].step = "done")
=============================================================================
