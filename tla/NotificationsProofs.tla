------------------------ MODULE NotificationsProofs ------------------------
(***************************************************************************)
(* Theorems about Notifications, for any people, requests in progress,     *)
(* window and bounds.                                                      *)
(***************************************************************************)
EXTENDS Notifications, TLAPS

Reactions == {"blog_liked", "blog_saved"}
FansOut   == {"blog_published_fan_out", "company_milestone"}

-----------------------------------------------------------------------------
(* The inductive invariant *)

\* What holds of an event v when F is who follows whom and R who has an
\* account: whom its listener has told, will tell and must tell.
EventOK(v, F, R) ==
    /\ v.actor \notin v.to
    /\ v.got \cup v.to \subseteq v.may
    /\ v.got \cap v.to = {}
    /\ \A f \in F : f[2] \in v.sources /\ f[1] # v.actor => f[1] \in v.may
    /\ \A m \in v.must :
          \/ m[1] \in v.got \cup v.missed \cup v.to
          \/ m \in F /\ m[2] \in v.sources /\ m[1] # v.actor
    /\ v.type \notin FansOut => v.actor = v.by
    /\ v.step \in {"look", "read"} => v.got = {}
    /\ v.type \in Reactions => v.sources = {}
    /\ v.step # "read" => v.sources = {}
    /\ v.step = "look" => v.must = {} \/ (v.type \notin Reactions /\ v.to \subseteq R)
    /\ v.step = "done" => v.to = {}

EventsOK == /\ events \in Seq(Event)
            /\ \A e \in DOMAIN events : EventOK(events[e], follows, registered)

\* Nobody is about to follow themselves, and only who follows is announced.
FollowOK(t) == /\ t.op = "follow" => t.what # t.who
               /\ t.step = "announce" => t.op = "follow"
TasksOK == \A c \in Clients : task[c] # Idle => FollowOK(task[c])

\* A row is of an event whose listener has told its reader.
NoticeOK(n) == /\ n.event \in DOMAIN events
               /\ n.user \in events[n.event].got /\ n.actor = events[n.event].actor
               /\ n.actor = events[n.event].by \/ n.type \in FansOut
               /\ n.id <= serial /\ n.at <= now
NoticesOK == \A n \in notices : NoticeOK(n)

\* Nobody is told of an event that names them as its doer.
NotNamed == \A n \in notices : n.user # n.actor

Typed == TypeOK /\ EventsOK /\ TasksOK
\* Event e is of a like or save, and its listener is about to write: no row is
\* like it that was there when the listener looked.
Looked(e) ==
    /\ events[e].looked <= serial
    /\ events[e].type \in Reactions /\ events[e].step = "create" =>
          \A n \in notices : n.id <= events[e].looked => ~Alike(e, n)
LooksOK == \A e \in DOMAIN events : Looked(e)

IInv  == Typed /\ NoticesOK /\ NotNamed /\ OncePerEvent /\ ReactionToldOnce

-----------------------------------------------------------------------------
(* Events *)

\* An event of the list has the type of events.
LEMMA EventTyped ==
    ASSUME EventsOK, NEW e \in DOMAIN events
    PROVE  events[e] \in Event /\ EventOK(events[e], follows, registered)
BY DEF EventsOK

\* All events go on.
LEMMA ChangeAllOK ==
    ASSUME EventsOK, events' \in [DOMAIN events -> Event],
           \A e \in DOMAIN events : EventOK(events'[e], follows', registered')
    PROVE  EventsOK' /\ DOMAIN events' = DOMAIN events
<1>1. events' \in Seq(Event) /\ DOMAIN events' = DOMAIN events
    BY DEF EventsOK
<1> QED
    BY <1>1 DEF EventsOK

\* An event is emitted.
LEMMA EmitOK ==
    ASSUME EventsOK, NEW v \in Event, EventOK(v, follows, registered), Emit(v),
           UNCHANGED <<follows, registered>>
    PROVE  /\ EventsOK'
           /\ DOMAIN events \subseteq DOMAIN events'
           /\ \A e \in DOMAIN events : events'[e] = events[e]
<1>1. /\ events' \in Seq(Event)
      /\ DOMAIN events' = DOMAIN events \cup {Len(events) + 1}
      /\ events'[Len(events) + 1] = v
      /\ \A e \in DOMAIN events : events'[e] = events[e]
    BY DEF EventsOK, Emit
<1> QED
    BY <1>1 DEF EventsOK

\* One event goes on.
LEMMA ChangeOK ==
    ASSUME EventsOK, NEW e \in DOMAIN events, NEW v \in Event,
           EventOK(v, follows, registered), events' = [events EXCEPT ![e] = v],
           UNCHANGED <<follows, registered>>
    PROVE  /\ EventsOK' /\ DOMAIN events' = DOMAIN events /\ events'[e] = v
           /\ \A d \in DOMAIN events : d # e => events'[d] = events[d]
<1>1. /\ events' \in Seq(Event) /\ DOMAIN events' = DOMAIN events /\ events'[e] = v
      /\ \A d \in DOMAIN events : d # e => events'[d] = events[d]
    BY DEF EventsOK
<1> QED
    BY <1>1 DEF EventsOK

\* What each shape of event looks like when it is emitted.
LEMMA DirectOK ==
    ASSUME NEW type \in Told, NEW actor \in People,
           NEW entity \in Targets \cup {Blog}, NEW to \in SUBSET People, actor \notin to
    PROVE  Direct(type, actor, entity, to) \in Event
           /\ EventOK(Direct(type, actor, entity, to), follows, registered)
<1> DEFINE v == Direct(type, actor, entity, to)
<1>1. /\ v \in Event /\ v.actor = actor /\ v.by = actor /\ v.to = to /\ v.may = to /\ v.got = {}
      /\ v.sources = {} /\ v.step = "create" /\ v.must = to \X {None}
    BY DEF Direct, Event
<1> HIDE DEF v
<1>2. \A m \in v.must : m[1] \in v.to
    BY <1>1
<1> QED
    BY <1>1, <1>2 DEF EventOK, v

\* An event whose listener first looks somebody up is sound.
LEMMA LookupOK ==
    ASSUME NEW type \in Told, NEW actor \in People,
           NEW entity \in Targets \cup {Blog}, NEW to \in SUBSET People, actor \notin to
    PROVE  Lookup(type, actor, entity, to) \in Event
           /\ EventOK(Lookup(type, actor, entity, to), follows, registered)
<1> DEFINE v == Lookup(type, actor, entity, to)
<1>1. /\ v \in Event /\ v.actor = actor /\ v.by = actor /\ v.to = to /\ v.may = to /\ v.got = {}
      /\ v.sources = {} /\ v.step = "look" /\ v.must = {}
    BY DEF Lookup, Direct, Event
<1> HIDE DEF v
<1> QED
    BY <1>1 DEF EventOK, v

\* An event that will fan out to the followers of its sources is sound.
LEMMA FanOutOK ==
    ASSUME follows \subseteq People \X Targets,
           NEW type \in FansOut, NEW by \in People, NEW actor \in People \cup {None},
           NEW entity \in Targets \cup {Blog}, NEW sources \in SUBSET Targets
    PROVE  FanOut(type, by, actor, entity, sources) \in Event
           /\ EventOK(FanOut(type, by, actor, entity, sources), follows, registered)
<1> DEFINE v == FanOut(type, by, actor, entity, sources)
           due == {f \in follows : f[2] \in sources /\ f[1] # actor}
<1>1. due \subseteq People \X (Targets \cup {None}) /\ Followers(sources) \subseteq People
    BY DEF Followers
<1>2. /\ v \in Event /\ v.actor = actor /\ v.to = {} /\ v.may = Followers(sources) \ {actor}
      /\ v.got = {} /\ v.sources = sources /\ v.step = "read" /\ v.must = due
      /\ v.type = type
    BY <1>1 DEF FanOut, Direct, Event, FansOut, Told
<1>3. \A f \in follows : f[2] \in sources => f[1] \in Followers(sources)
    BY DEF Followers
<1> HIDE DEF v
<1>4. \A f \in follows : f[2] \in v.sources /\ f[1] # v.actor => f[1] \in v.may
    BY <1>2, <1>3
<1>5. \A m \in v.must : m \in follows /\ m[2] \in v.sources /\ m[1] # v.actor
    BY <1>2
<1> QED
    BY <1>2, <1>4, <1>5 DEF EventOK, FansOut, Reactions, v

\* An invite's event is sound.
LEMMA InviteOK ==
    ASSUME NEW p \in People, NEW q \in People \ {p}
    PROVE  handleCompanyInviteReceived(p, q) \in Event
           /\ EventOK(handleCompanyInviteReceived(p, q), follows, registered)
<1> DEFINE v == handleCompanyInviteReceived(p, q)
<1>1. /\ v \in Event /\ v.actor = p /\ v.by = p /\ v.to = {q} /\ v.may = {q} /\ v.got = {}
      /\ v.type = "company_invite_received"
      /\ v.sources = {} /\ v.step = "look" /\ v.must = ({q} \cap registered) \X {None}
    BY DEF handleCompanyInviteReceived, Lookup, Direct, Event, Told, Targets
<1> HIDE DEF v
<1>2. \A m \in v.must : m[1] \in v.to
    BY <1>1
<1>3. v.must = {} \/ v.to \subseteq registered
    BY <1>1
<1> QED
    BY <1>1, <1>2, <1>3 DEF EventOK, Reactions, v

-----------------------------------------------------------------------------
(* The actions keep types, events and tasks *)

\* A request that ends or goes on.
LEMMA TaskGoesOn ==
    ASSUME Typed, NEW c \in Clients, NEW t \in Task \cup {Idle}, t # Idle => FollowOK(t),
           task' = [task EXCEPT ![c] = t]
    PROVE  task' \in [Clients -> Task \cup {Idle}] /\ TasksOK'
<1>1. task' \in [Clients -> Task \cup {Idle}]
    BY DEF Typed, TypeOK
<1>2. \A d \in Clients : task'[d] = IF d = c THEN t ELSE task[d]
    BY DEF Typed, TypeOK
<1> QED
    BY <1>1, <1>2 DEF TasksOK, Typed

\* A request that is answered leaves its slot idle.
LEMMA DoneOK ==
    ASSUME Typed, NEW c \in Clients, Done(c)
    PROVE  task' \in [Clients -> Task \cup {Idle}] /\ TasksOK'
BY TaskGoesOn DEF Done

\* A request that is under way goes on to another step.
LEMMA GotoOK ==
    ASSUME Typed, NEW c \in Clients, NEW step \in {"look", "write", "announce"},
           task[c] # Idle, step = "announce" => task[c].op = "follow", Goto(c, step)
    PROVE  task' \in [Clients -> Task \cup {Idle}] /\ TasksOK'
<1> DEFINE t == [task[c] EXCEPT !.step = step]
<1>1. task[c] \in Task /\ FollowOK(task[c])
    BY DEF Typed, TypeOK, TasksOK
<1>2. t \in Task /\ t.step = step /\ t.op = task[c].op /\ t.who = task[c].who
      /\ t.what = task[c].what
    BY <1>1 DEF Task
<1>3. task' = [task EXCEPT ![c] = t]
    BY DEF Goto
<1> HIDE DEF t
<1>4. FollowOK(t)
    BY <1>1, <1>2 DEF FollowOK
<1> QED
    BY <1>2, <1>3, <1>4, TaskGoesOn

\* A request that is at a step is under way.
LEMMA Busy ==
    ASSUME Typed, NEW c \in Clients, task[c].step # "idle"
    PROVE  task[c] \in Task /\ task[c] # Idle /\ FollowOK(task[c])
BY DEF Typed, TypeOK, Idle, TasksOK

\* The listeners only ever tell more people, of the same doing.
EventsGrow == /\ DOMAIN events \subseteq DOMAIN events'
              /\ \A e \in DOMAIN events : /\ events'[e].actor = events[e].actor
                                          /\ events'[e].by = events[e].by
                                          /\ events[e].got \subseteq events'[e].got

\* The parts of a step that types need, when it leaves the rest alone.
RestTyped == /\ follows \subseteq People \X Targets /\ registered \subseteq People
             /\ notices \subseteq Notice /\ serial \in Nat
             /\ {now, requests, faults} \subseteq Nat
             /\ anomalies \subseteq Anomaly

\* Types, put together from the parts the steps preserve.
LEMMA TypedFromParts ==
    ASSUME RestTyped', task' \in [Clients -> Task \cup {Idle}], TasksOK', EventsOK'
    PROVE  Typed'
<1>1. \A e \in DOMAIN events' : events'[e] \in Event
    BY DEF EventsOK
<1> QED
    BY <1>1 DEF Typed, TypeOK, RestTyped

\* Follow requests.
LEMMA StartFollowOK ==
    ASSUME Typed, NEW c \in Clients, StartFollow(c)
    PROVE  Typed' /\ EventsGrow
<1>1. PICK who \in registered, what \in Targets : StartFollow(c)!(who, what)
    BY DEF StartFollow
<1>2. who \in People /\ registered \subseteq People
    BY DEF Typed, TypeOK
<1>3. task' \in [Clients -> Task \cup {Idle}] /\ TasksOK'
    <2>1. CASE task' = [task EXCEPT ![c] =
                [op |-> "follow", step |-> "look", who |-> who, what |-> what]] /\ what # who
        <3> DEFINE t == [op |-> "follow", step |-> "look", who |-> who, what |-> what]
        <3>1. t \in Task /\ FollowOK(t)
            BY <1>2, <2>1 DEF Task, FollowOK
        <3> QED
            BY <2>1, <3>1, TaskGoesOn
    <2>2. CASE task' = [task EXCEPT ![c] =
                [op |-> "unfollow", step |-> "look", who |-> who, what |-> what]]
        <3> DEFINE t == [op |-> "unfollow", step |-> "look", who |-> who, what |-> what]
        <3>1. t \in Task /\ FollowOK(t)
            BY <1>2 DEF Task, FollowOK
        <3> QED
            BY <2>2, <3>1, TaskGoesOn
    <2> QED
        BY <1>1, <2>1, <2>2 DEF MayFollow
<1>4. RestTyped' /\ EventsOK' /\ EventsGrow
    BY <1>1 DEF Typed, TypeOK, RestTyped, EventsOK, EventsGrow, Counted
<1> QED
    BY <1>3, <1>4, TypedFromParts

\* Looking for an existing follow writes nothing.
LEMMA LookOK ==
    ASSUME Typed, NEW c \in Clients, Look(c)
    PROVE  Typed' /\ EventsGrow
<1>1. task' \in [Clients -> Task \cup {Idle}] /\ TasksOK'
    BY Busy, DoneOK, GotoOK DEF Look
<1>2. RestTyped' /\ EventsOK' /\ EventsGrow
    BY DEF Look, Typed, TypeOK, RestTyped, EventsOK, EventsGrow, envVars
<1> QED
    BY <1>1, <1>2, TypedFromParts

\* Who comes to follow may be told of what is under way.
LEMMA JoinedOK ==
    ASSUME Typed, NEW p \in People \X Targets, follows' = follows \cup {p},
           events' = Joined(p), registered' = registered
    PROVE  EventsOK' /\ EventsGrow
<1>1. ASSUME NEW e \in DOMAIN events
      PROVE  /\ events'[e] \in Event /\ EventOK(events'[e], follows', registered')
             /\ events'[e].actor = events[e].actor /\ events'[e].by = events[e].by
             /\ events'[e].got = events[e].got
    <2>1. events[e] \in Event /\ EventOK(events[e], follows, registered)
        BY DEF Typed, EventsOK
    <2>2. CASE p[2] \in events[e].sources /\ p[1] # events[e].actor
        <3> DEFINE v == [events[e] EXCEPT !.may = @ \cup {p[1]}]
        <3>1. events'[e] = v
            BY <2>2 DEF Joined
        <3>2. /\ v \in Event /\ v.may = events[e].may \cup {p[1]}
              /\ v.actor = events[e].actor /\ v.to = events[e].to /\ v.got = events[e].got
              /\ v.by = events[e].by
              /\ v.sources = events[e].sources /\ v.must = events[e].must
              /\ v.missed = events[e].missed /\ v.step = events[e].step
              /\ v.type = events[e].type
            BY <2>1 DEF Event
        <3> HIDE DEF v
        <3> QED
            BY <2>1, <3>1, <3>2 DEF EventOK
    <2>3. CASE ~(p[2] \in events[e].sources /\ p[1] # events[e].actor)
        <3>1. events'[e] = events[e]
            BY <2>3 DEF Joined
        <3> QED
            BY <2>1, <2>3, <3>1 DEF EventOK
    <2> QED
        BY <2>2, <2>3
<1>2. events' \in [DOMAIN events -> Event]
    BY <1>1 DEF Joined
<1>3. EventsOK' /\ DOMAIN events' = DOMAIN events
    BY <1>1, <1>2, ChangeAllOK DEF Typed
<1> QED
    BY <1>1, <1>3 DEF EventsGrow

\* Who stops to follow need not be told of what is under way.
LEMMA LeftOK ==
    ASSUME Typed, NEW p, follows' = follows \ {p},
           events' = Left(p), registered' = registered
    PROVE  EventsOK' /\ EventsGrow
<1>1. ASSUME NEW e \in DOMAIN events
      PROVE  /\ events'[e] \in Event /\ EventOK(events'[e], follows', registered')
             /\ events'[e].actor = events[e].actor /\ events'[e].by = events[e].by
             /\ events'[e].got = events[e].got
    <2>1. events[e] \in Event /\ EventOK(events[e], follows, registered)
        BY DEF Typed, EventsOK
    <2> DEFINE v == [events[e] EXCEPT !.must = @ \ {p}]
    <2>2. events'[e] = v
        BY DEF Left
    <2>3. /\ v \in Event /\ v.must = events[e].must \ {p} /\ v.may = events[e].may
          /\ v.actor = events[e].actor /\ v.to = events[e].to /\ v.got = events[e].got
          /\ v.by = events[e].by
          /\ v.sources = events[e].sources /\ v.missed = events[e].missed
          /\ v.step = events[e].step /\ v.type = events[e].type
        BY <2>1 DEF Event
    <2> HIDE DEF v
    <2> QED
        BY <2>1, <2>2, <2>3 DEF EventOK
<1>2. events' \in [DOMAIN events -> Event]
    BY <1>1 DEF Left
<1>3. EventsOK' /\ DOMAIN events' = DOMAIN events
    BY <1>1, <1>2, ChangeAllOK DEF Typed
<1> QED
    BY <1>1, <1>3 DEF EventsGrow

\* Writing a follow only adds to who may be told.
LEMMA FollowStepOK ==
    ASSUME Typed, NEW c \in Clients, Follow(c)
    PROVE  Typed' /\ EventsGrow
<1>1. task[c] \in Task /\ task[c] # Idle /\ FollowOK(task[c])
    BY Busy DEF Follow
<1>2. Pair(c) \in People \X Targets
    BY <1>1 DEF Task, Pair
<1>3. task' \in [Clients -> Task \cup {Idle}] /\ TasksOK'
    BY <1>1, DoneOK, GotoOK DEF Follow
<1>4. EventsOK' /\ EventsGrow
    <2>1. CASE Pair(c) \in follows
        BY <2>1 DEF Follow, Typed, EventsOK, EventsGrow
    <2>2. CASE Pair(c) \notin follows
        BY <1>2, <2>2, JoinedOK DEF Follow
    <2> QED
        BY <2>1, <2>2
<1>5. RestTyped'
    BY <1>2 DEF Follow, Typed, TypeOK, RestTyped, envVars
<1> QED
    BY <1>3, <1>4, <1>5, TypedFromParts

\* Deleting a follow excuses those fan-outs that had to tell the one who left.
LEMMA UnfollowOK ==
    ASSUME Typed, NEW c \in Clients, Unfollow(c)
    PROVE  Typed' /\ EventsGrow
<1>1. task' \in [Clients -> Task \cup {Idle}] /\ TasksOK'
    BY DoneOK DEF Unfollow
<1>2. EventsOK' /\ EventsGrow
    BY LeftOK DEF Unfollow
<1>3. RestTyped'
    BY DEF Unfollow, Typed, TypeOK, RestTyped, envVars
<1> QED
    BY <1>1, <1>2, <1>3, TypedFromParts

\* An event that is emitted is one more.
LEMMA Emits ==
    ASSUME Typed, NEW v \in Event, EventOK(v, follows, registered), Emit(v),
           UNCHANGED <<follows, registered>>
    PROVE  EventsOK' /\ EventsGrow
BY EmitOK DEF Typed, EventsGrow

\* The follow's event names its follower as actor and somebody else as target.
LEMMA AnnounceFollowOK ==
    ASSUME Typed, NEW c \in Clients, AnnounceFollow(c)
    PROVE  Typed' /\ EventsGrow
<1> DEFINE who  == task[c].who
           what == task[c].what
<1>1. task[c] \in Task /\ who # what
    BY Busy DEF AnnounceFollow, FollowOK
<1>2. who \in People /\ what \in Targets
    BY <1>1 DEF Task
<1>3. Profiled \subseteq People /\ Owners \subseteq People
    BY NotificationsAssumption
<1>4. task' \in [Clients -> Task \cup {Idle}] /\ TasksOK'
    BY DoneOK DEF AnnounceFollow
<1>5. EventsOK' /\ EventsGrow
    <2>1. CASE what \in Profiled
        <3>1. Emit(Direct("author_followed", who, what, {what}))
            BY <2>1 DEF AnnounceFollow, handleAuthorFollowed
        <3>2. Direct("author_followed", who, what, {what}) \in Event
              /\ EventOK(Direct("author_followed", who, what, {what}), follows, registered)
            BY <1>1, <1>2, <1>3, <2>1, DirectOK DEF Told
        <3> QED
            BY <3>1, <3>2, Emits DEF AnnounceFollow
    <2>2. CASE what \notin Profiled /\ OtherOwners(who) # {}
        <3> DEFINE v == Direct("company_followed", who, Company, OtherOwners(who))
        <3>1. Emit(v)
            BY <2>2 DEF AnnounceFollow, handleCompanyFollowed
        <3>2. v \in Event /\ EventOK(v, follows, registered)
            BY <1>2, <1>3, DirectOK DEF Told, OtherOwners, Targets
        <3> QED
            BY <3>1, <3>2, Emits DEF AnnounceFollow
    <2>3. CASE what \notin Profiled /\ OtherOwners(who) = {}
        BY <2>3 DEF AnnounceFollow, Typed, EventsOK, EventsGrow
    <2> QED
        BY <2>1, <2>2, <2>3
<1>6. RestTyped'
    BY DEF AnnounceFollow, Typed, TypeOK, RestTyped, envVars
<1> QED
    BY <1>4, <1>5, <1>6, TypedFromParts

\* What the other services emit.
LEMMA ElsewhereOK ==
    ASSUME Typed, NEW v \in Event, EventOK(v, follows, registered), Emit(v),
           NEW op, Counted(op), Elsewhere
    PROVE  Typed' /\ EventsGrow
<1>1. EventsOK' /\ EventsGrow
    BY Emits DEF Elsewhere
<1>2. RestTyped' /\ task' \in [Clients -> Task \cup {Idle}] /\ TasksOK'
    BY DEF Elsewhere, Counted, Typed, TypeOK, RestTyped, TasksOK
<1> QED
    BY <1>1, <1>2, TypedFromParts

\* The events of the other services are sound.
LEMMA ServicesOK ==
    ASSUME Typed, Reacts \/ Publishes \/ AddsMilestone \/ Invites \/ Responds
    PROVE  Typed' /\ EventsGrow
<1> USE NotificationsAssumption
<1>0. follows \subseteq People \X Targets
    BY DEF Typed, TypeOK
<1>1. CASE Reacts
    <2>1. PICK p \in (Profiled \cap registered) \ {Author} : Reacts!(p)
        BY <1>1 DEF Reacts
    <2>2. ASSUME NEW type \in Reactions
          PROVE  Lookup(type, p, Blog, {Author}) \in Event
                 /\ EventOK(Lookup(type, p, Blog, {Author}), follows, registered)
        BY LookupOK DEF Told, Reactions
    <2> QED
        BY <2>1, <2>2, ElsewhereOK DEF handleBlogLiked, handleBlogSaved, Reactions
<1>2. CASE Publishes
    <2>1. PICK sources \in {{Author}, {Author, Company}}, by \in People :
             /\ Counted("blog_published_fan_out")
             /\ Emit(handleBlogPublished(by, sources))
             /\ Elsewhere
        BY <1>2 DEF Publishes
    <2> DEFINE v == FanOut("blog_published_fan_out", by, Author, Blog, sources)
    <2>2. sources \in SUBSET Targets
        BY <2>1 DEF Targets
    <2>3. v \in Event /\ EventOK(v, follows, registered)
        BY <1>0, <2>2, FanOutOK DEF FansOut
    <2> QED
        BY <2>1, <2>3, ElsewhereOK DEF handleBlogPublished
<1>3. CASE AddsMilestone
    <2>1. PICK by \in People :
             /\ Counted("company_milestone")
             /\ Emit(handleCompanyMilestone(by))
             /\ Elsewhere
        BY <1>3 DEF AddsMilestone
    <2> DEFINE v == FanOut("company_milestone", by, None, Company, {Company})
    <2>2. v \in Event /\ EventOK(v, follows, registered)
        BY <1>0, FanOutOK DEF FansOut, Targets
    <2> QED
        BY <2>1, <2>2, ElsewhereOK DEF handleCompanyMilestone
<1>4. CASE Invites
    <2>1. PICK p \in Owners \cap Profiled, q \in People \ Owners : Invites!(p, q)
        BY <1>4 DEF Invites
    <2>2. p \in People /\ q \in People \ {p}
        BY <2>1
    <2> QED
        BY <2>1, <2>2, InviteOK, ElsewhereOK
<1>5. CASE Responds
    <2>1. PICK type \in {"company_invite_accepted", "company_invite_declined"},
               p \in Profiled \cap registered : Responds!(type, p)
        BY <1>5 DEF Responds
    <2> DEFINE v == Direct(type, p, Company, OtherOwners(p))
    <2>2. v \in Event /\ EventOK(v, follows, registered)
        BY <2>1, DirectOK DEF Told, OtherOwners, Targets
    <2> QED
        BY <2>1, <2>2, ElsewhereOK DEF handleCompanyInviteResponded
<1> QED
    BY <1>1, <1>2, <1>3, <1>4, <1>5

\* A new account disturbs no event.
LEMMA RegisterOK ==
    ASSUME Typed, Register
    PROVE  Typed' /\ EventsGrow
<1>1. registered \subseteq registered' /\ registered' \subseteq People
    BY DEF Register, Typed, TypeOK
<1>2. EventsOK' /\ EventsGrow
    BY <1>1 DEF Register, Typed, EventsOK, EventOK, EventsGrow
<1>3. RestTyped' /\ task' \in [Clients -> Task \cup {Idle}] /\ TasksOK'
    BY <1>1 DEF Register, Counted, Typed, TypeOK, RestTyped, TasksOK
<1> QED
    BY <1>2, <1>3, TypedFromParts

-----------------------------------------------------------------------------
(* The listeners keep types and events *)

\* A listener that goes on, and leaves everything but events alone.
LEMMA ListenerOK ==
    ASSUME Typed, NEW e \in DOMAIN events, NEW v \in Event,
           EventOK(v, follows, registered), v.actor = events[e].actor, v.by = events[e].by,
           events[e].got \subseteq v.got,
           events' = [events EXCEPT ![e] = v], RestTyped',
           UNCHANGED <<follows, registered, task>>
    PROVE  Typed' /\ EventsGrow
<1>1. /\ EventsOK' /\ DOMAIN events' = DOMAIN events /\ events'[e] = v
      /\ \A d \in DOMAIN events : d # e => events'[d] = events[d]
    BY ChangeOK DEF Typed
<1>2. EventsGrow
    BY <1>1 DEF EventsGrow
<1>3. task' \in [Clients -> Task \cup {Idle}] /\ TasksOK'
    BY DEF Typed, TypeOK, TasksOK
<1> QED
    BY <1>1, <1>2, <1>3, TypedFromParts

\* Looking up whom an event is for keeps the recipients or drops them all.
LEMMA LookUpOK ==
    ASSUME Typed, NEW e \in DOMAIN events, LookUp(e)
    PROVE  Typed' /\ EventsGrow
<1>1. events[e] \in Event /\ EventOK(events[e], follows, registered)
    BY EventTyped DEF Typed
<1> DEFINE told == CASE events[e].type \in {"blog_liked", "blog_saved"} ->
                          \A n \in notices : ~Alike(e, n)
                     [] OTHER -> events[e].to \subseteq registered
           v == [events[e] EXCEPT !.step = IF told THEN "create" ELSE "done",
                                  !.to = IF told THEN @ ELSE {}, !.looked = serial]
<1>2. events' = [events EXCEPT ![e] = v] /\ events[e].step = "look"
    BY DEF LookUp
<1>3. events[e].type \notin Reactions => (told <=> events[e].to \subseteq registered)
    BY DEF Reactions
<1> HIDE DEF told
<1>4. /\ v \in Event /\ v.actor = events[e].actor /\ v.got = events[e].got
      /\ v.may = events[e].may /\ v.must = events[e].must /\ v.missed = events[e].missed
      /\ v.sources = events[e].sources /\ v.type = events[e].type /\ v.by = events[e].by
      /\ v.step = (IF told THEN "create" ELSE "done")
      /\ v.to = IF told THEN events[e].to ELSE {}
    <2>1. serial \in Nat
        BY DEF Typed, TypeOK
    <2> QED
        BY <1>1, <2>1 DEF Event
<1>5. EventOK(v, follows, registered)
    <2> HIDE DEF v
    <2>1. CASE told
        BY <1>1, <1>2, <1>4, <2>1 DEF EventOK
    <2>2. CASE ~told
        <3>1. v.must = {}
            BY <1>1, <1>2, <1>3, <1>4, <2>2 DEF EventOK
        <3> QED
            BY <1>1, <1>2, <1>4, <2>2, <3>1 DEF EventOK
    <2> QED
        BY <2>1, <2>2
<1>6. RestTyped'
    BY DEF LookUp, Typed, TypeOK, RestTyped, envVars
<1> HIDE DEF v
<1> QED
    BY <1>2, <1>4, <1>5, <1>6, ListenerOK DEF LookUp

\* Reading one source's followers adds followers of it, the actor excepted.
LEMMA ReadFollowersOK ==
    ASSUME Typed, NEW e \in DOMAIN events, ReadFollowers(e)
    PROVE  Typed' /\ EventsGrow
<1>1. events[e] \in Event /\ EventOK(events[e], follows, registered)
    BY EventTyped DEF Typed
<1>2. PICK s \in events[e].sources : ReadFollowers(e)!(s)
    BY DEF ReadFollowers
<1> DEFINE rest == events[e].sources \ {s}
           to   == events[e].to \cup (Followers({s}) \ {events[e].actor})
           step == IF rest # {} THEN "read" ELSE IF to = {} THEN "done" ELSE "create"
           v == [events[e] EXCEPT !.sources = rest, !.to = to, !.step = step]
<1>3. events' = [events EXCEPT ![e] = v]
    BY <1>2 DEF Recipients, AfterRead
<1>4. follows \subseteq People \X Targets
    BY DEF Typed, TypeOK
<1>5. Followers({s}) \subseteq People
    BY <1>4 DEF Followers
<1>6. \A p \in Followers({s}) : p # events[e].actor => p \in events[e].may
    BY <1>1 DEF EventOK, Followers
<1>7. \A f \in follows : f[2] = s => f[1] \in Followers({s})
    BY <1>4 DEF Followers
<1>8. rest \subseteq events[e].sources /\ to \subseteq People
    BY <1>1, <1>5 DEF Event
<1> HIDE DEF to, rest
<1>9. /\ v \in Event /\ v.actor = events[e].actor /\ v.got = events[e].got
      /\ v.may = events[e].may /\ v.must = events[e].must /\ v.missed = events[e].missed
      /\ v.sources = rest /\ v.type = events[e].type /\ v.to = to /\ v.step = step
      /\ v.by = events[e].by
    BY <1>1, <1>8 DEF Event
<1>10. \A m \in v.must :
          \/ m[1] \in v.got \cup v.missed \cup v.to
          \/ m \in follows /\ m[2] \in v.sources /\ m[1] # v.actor
    BY <1>1, <1>7, <1>9 DEF EventOK, to, rest
<1>11. v.actor \notin v.to /\ v.got \cup v.to \subseteq v.may /\ v.got = {}
    BY <1>1, <1>6, <1>9 DEF EventOK, to
<1>12. EventOK(v, follows, registered)
    <2> HIDE DEF v
    <2> QED
        BY <1>1, <1>2, <1>8, <1>9, <1>10, <1>11 DEF EventOK
<1>13. RestTyped'
    BY <1>2 DEF Typed, TypeOK, RestTyped, envVars
<1> HIDE DEF v
<1> QED
    BY <1>1, <1>2, <1>3, <1>9, <1>12, <1>13, ListenerOK

\* What a batch that is written does to its event.
LEMMA BatchTold ==
    ASSUME Typed, NEW e \in DOMAIN events, events[e].step = "create",
           NEW U \in SUBSET events[e].to
    PROVE  LET v == [events[e] EXCEPT !.to = Remaining(e, U), !.got = @ \cup U,
                        !.step = IF Remaining(e, U) = {} THEN "done" ELSE "create"]
           IN  /\ v \in Event /\ EventOK(v, follows, registered)
               /\ v.actor = events[e].actor /\ v.by = events[e].by
               /\ v.got = events[e].got \cup U
<1> DEFINE rest == Remaining(e, U)
           v == [events[e] EXCEPT !.to = rest, !.got = @ \cup U,
                    !.step = IF rest = {} THEN "done" ELSE "create"]
<1>1. events[e] \in Event /\ EventOK(events[e], follows, registered)
    BY EventTyped DEF Typed
<1>2. rest = events[e].to \ U
    BY DEF Remaining
<1> HIDE DEF rest
<1>3. events[e].to \subseteq People
    BY <1>1 DEF Event
<1>4. /\ v \in Event /\ v.actor = events[e].actor /\ v.got = events[e].got \cup U
      /\ v.may = events[e].may /\ v.must = events[e].must /\ v.missed = events[e].missed
      /\ v.sources = events[e].sources /\ v.type = events[e].type
      /\ v.by = events[e].by
      /\ v.to = rest /\ v.step = IF rest = {} THEN "done" ELSE "create"
    BY <1>1, <1>2, <1>3 DEF Event
<1>5. EventOK(v, follows, registered)
    <2> HIDE DEF v
    <2>1. \A m \in v.must :
             \/ m[1] \in v.got \cup v.missed \cup v.to
             \/ m \in follows /\ m[2] \in v.sources /\ m[1] # v.actor
        BY <1>1, <1>2, <1>4 DEF EventOK
    <2>2. v.actor \notin v.to /\ v.got \cup v.to \subseteq v.may /\ v.got \cap v.to = {}
        BY <1>1, <1>2, <1>4 DEF EventOK
    <2> QED
        BY <1>1, <1>4, <2>1, <2>2 DEF EventOK
<1> QED
    BY <1>4, <1>5 DEF rest

\* The rows of a batch.
LEMMA RowTypes ==
    ASSUME Typed, NEW e \in DOMAIN events, NEW U \in SUBSET events[e].to
    PROVE  \A n \in Rows(e, U) :
              /\ n \in Notice /\ n.event = e /\ n.user \in U
              /\ n.id = serial + 1 /\ n.at = now /\ n.isRead = FALSE
              /\ n.type = events[e].type /\ n.actor = events[e].actor
              /\ n.entity = events[e].entity
<1>1. events[e] \in Event /\ serial \in Nat /\ now \in Nat /\ e \in Nat
    BY EventTyped DEF Typed, TypeOK, EventsOK
<1>2. U \subseteq People
    BY <1>1 DEF Event
<1>3. events[e].type \in Told /\ events[e].actor \in People \cup {None}
      /\ events[e].entity \in Targets \cup {Blog}
    BY <1>1 DEF Event
<1> SUFFICES ASSUME NEW u \in U
             PROVE  [id |-> serial + 1, event |-> e, user |-> u, type |-> events[e].type,
                     actor |-> events[e].actor, entity |-> events[e].entity,
                     isRead |-> FALSE, at |-> now] \in Notice
    BY DEF Rows
<1> QED
    BY <1>1, <1>2, <1>3 DEF Notice

\* A batch is of people who are still to be told.
LEMMA BatchOfTo ==
    ASSUME NEW e, NEW U \in Batches(e)
    PROVE  U \in SUBSET events[e].to
BY DEF Batches

\* Writing a batch moves it from those to be told to those told.
LEMMA CreateOK ==
    ASSUME Typed, NEW e \in DOMAIN events, NEW U \in Batches(e), Create(e)!(U)
    PROVE  Typed' /\ EventsGrow /\ e \in DOMAIN events' /\ U \subseteq events'[e].got
<1>1. U \in SUBSET events[e].to /\ events[e].step = "create"
    BY BatchOfTo
<1> DEFINE v == [events[e] EXCEPT !.to = Remaining(e, U), !.got = @ \cup U,
                    !.step = IF Remaining(e, U) = {} THEN "done" ELSE "create"]
<1>2. /\ v \in Event /\ EventOK(v, follows, registered)
      /\ v.actor = events[e].actor /\ v.by = events[e].by
      /\ v.got = events[e].got \cup U
    BY <1>1, BatchTold
<1>3. events' = [events EXCEPT ![e] = v]
    OBVIOUS
<1>4. RestTyped'
    <2>1. Rows(e, U) \subseteq Notice
        BY <1>1, RowTypes
    <2>2. serial' \in Nat /\ notices' \subseteq Notice /\ anomalies' \subseteq Anomaly
        BY <2>1 DEF Typed, TypeOK, Anomaly
    <2> QED
        BY <2>2 DEF Typed, TypeOK, RestTyped, envVars
<1> HIDE DEF v
<1>5. Typed' /\ EventsGrow
    BY <1>2, <1>3, <1>4, ListenerOK
<1>6. e \in DOMAIN events' /\ events'[e] = v
    BY <1>3 DEF Typed, EventsOK
<1> QED
    BY <1>2, <1>5, <1>6

-----------------------------------------------------------------------------
(* Failures, crashes, time *)

\* A request that fails writes nothing.
LEMMA FailsOK ==
    ASSUME Typed, NEW c \in Clients, Fails(c)
    PROVE  Typed' /\ EventsGrow
<1>1. task' \in [Clients -> Task \cup {Idle}] /\ TasksOK'
    BY DoneOK DEF Fails
<1>2. RestTyped' /\ EventsOK' /\ EventsGrow
    BY DEF Fails, Fault, Typed, TypeOK, RestTyped, EventsOK, EventsGrow
<1> QED
    BY <1>1, <1>2, TypedFromParts

\* What is left of an event that is lost.
LEMMA LostOK ==
    ASSUME Typed, NEW e \in DOMAIN events
    PROVE  /\ Lost(e) \in Event /\ EventOK(Lost(e), follows, registered)
           /\ Lost(e).actor = events[e].actor /\ Lost(e).by = events[e].by
           /\ Lost(e).got = events[e].got
<1> DEFINE v == Lost(e)
<1>1. events[e] \in Event /\ EventOK(events[e], follows, registered)
    BY EventTyped DEF Typed
<1>2. /\ v \in Event /\ v.actor = events[e].actor /\ v.got = events[e].got
      /\ v.may = events[e].may /\ v.must = events[e].must /\ v.to = {} /\ v.sources = {}
      /\ v.missed = People \ events[e].got /\ v.step = "done"
      /\ v.type = events[e].type /\ v.by = events[e].by
    BY <1>1 DEF Lost, Event
<1>3. \A m \in v.must : m[1] \in People
    BY <1>2 DEF Event
<1> HIDE DEF v
<1>4. \A m \in v.must : m[1] \in v.got \cup v.missed
    BY <1>2, <1>3
<1> QED
    BY <1>1, <1>2, <1>4 DEF EventOK, v

\* A listener that fails is lost: nobody has to be told of it any more.
LEMMA ListenerFailsOK ==
    ASSUME Typed, NEW e \in DOMAIN events, ListenerFails(e)
    PROVE  Typed' /\ EventsGrow
<1>1. events[e] \in Event /\ EventOK(events[e], follows, registered)
    BY EventTyped DEF Typed
<1>2. RestTyped' /\ UNCHANGED <<follows, registered, task>>
    <2>1. UNCHANGED <<follows, registered, notices, serial, task, now, requests, anomalies>>
          /\ faults' = faults + 1
        BY DEF ListenerFails, Fault
    <2> QED
        BY <2>1 DEF Typed, TypeOK, RestTyped
<1>3. CASE events[e].step = "create" /\ ~IsFanOut(e)
    <2>1. PICK u \in events[e].to : events' = [events EXCEPT
                  ![e].to = @ \ {u}, ![e].missed = @ \cup {u},
                  ![e].step = IF events[e].to = {u} THEN "done" ELSE "create"]
        BY <1>3 DEF ListenerFails
    <2> DEFINE v == [events[e] EXCEPT !.to = @ \ {u}, !.missed = @ \cup {u},
                        !.step = IF events[e].to = {u} THEN "done" ELSE "create"]
    <2>2. events' = [events EXCEPT ![e] = v]
        BY <2>1
    <2>3. /\ v \in Event /\ v.actor = events[e].actor /\ v.got = events[e].got
          /\ v.may = events[e].may /\ v.must = events[e].must
          /\ v.missed = events[e].missed \cup {u} /\ v.to = events[e].to \ {u}
          /\ v.by = events[e].by
          /\ v.sources = events[e].sources /\ v.type = events[e].type
          /\ v.step = IF events[e].to = {u} THEN "done" ELSE "create"
        BY <1>1 DEF Event
    <2> HIDE DEF v
    <2>4. \A m \in v.must :
             \/ m[1] \in v.got \cup v.missed \cup v.to
             \/ m \in follows /\ m[2] \in v.sources /\ m[1] # v.actor
        BY <1>1, <2>3 DEF EventOK
    <2>5. EventOK(v, follows, registered)
        BY <1>1, <1>3, <2>3, <2>4 DEF EventOK
    <2> QED
        BY <1>2, <2>2, <2>3, <2>5, ListenerOK
<1>4. CASE ~(events[e].step = "create" /\ ~IsFanOut(e))
    <2>1. events' = [events EXCEPT ![e] = Lost(e)]
        BY <1>4 DEF ListenerFails
    <2> QED
        BY <1>2, <2>1, LostOK, ListenerOK
<1> QED
    BY <1>3, <1>4

\* A crash loses every event in hand.
LEMMA CrashOK ==
    ASSUME Typed, Crash
    PROVE  Typed' /\ EventsGrow
<1>1. \A e \in DOMAIN events : events'[e] = IF Open(e) THEN Lost(e) ELSE events[e]
    BY DEF Crash
<1>2. \A e \in DOMAIN events :
         /\ events'[e] \in Event /\ EventOK(events'[e], follows', registered')
         /\ events'[e].actor = events[e].actor /\ events'[e].by = events[e].by
         /\ events'[e].got = events[e].got
    BY <1>1, LostOK, EventTyped DEF Typed, Crash
<1>3. events' \in [DOMAIN events -> Event]
    BY <1>2 DEF Crash
<1>4. EventsOK' /\ DOMAIN events' = DOMAIN events
    BY <1>2, <1>3, ChangeAllOK DEF Typed
<1>5. EventsGrow
    BY <1>2, <1>4 DEF EventsGrow
<1>6. task' \in [Clients -> Task \cup {Idle}] /\ TasksOK'
    BY DEF Crash, TasksOK
<1>7. RestTyped'
    BY DEF Crash, Fault, Typed, TypeOK, RestTyped
<1> QED
    BY <1>4, <1>5, <1>6, <1>7, TypedFromParts

\* Time touches no event.
LEMMA TickOK ==
    ASSUME Typed, Tick
    PROVE  Typed' /\ EventsGrow
<1>1. RestTyped' /\ EventsOK' /\ EventsGrow
    BY DEF Tick, Typed, TypeOK, RestTyped, EventsOK, EventsGrow
<1>2. task' \in [Clients -> Task \cup {Idle}] /\ TasksOK'
    BY DEF Tick, Typed, TypeOK, TasksOK
<1> QED
    BY <1>1, <1>2, TypedFromParts

-----------------------------------------------------------------------------
(* Rows *)

RowsOK == NoticesOK /\ NotNamed /\ OncePerEvent /\ ReactionToldOnce

\* Rows stay right while events go on, time passes and rows are deleted.
LEMMA FewerRows ==
    ASSUME IInv, Typed', EventsGrow, notices' \subseteq notices, serial' = serial,
           now' >= now, anomalies' = anomalies
    PROVE  RowsOK'
<1>1. NoticesOK'
    <2> SUFFICES ASSUME NEW n \in notices'
                 PROVE  NoticeOK(n)'
        BY DEF NoticesOK
    <2>1. n \in Notice /\ NoticeOK(n) /\ now \in Nat /\ now' \in Nat
        BY DEF IInv, NoticesOK, Typed, TypeOK
    <2> QED
        BY <2>1 DEF NoticeOK, EventsGrow, Notice
<1>2. NotNamed' /\ OncePerEvent' /\ ReactionToldOnce'
    BY DEF IInv, NotNamed, OncePerEvent, ReactionToldOnce
<1> QED
    BY <1>1, <1>2 DEF RowsOK

Marked(n, S) == IF n \in S THEN [n EXCEPT !.isRead = TRUE] ELSE n

\* Rows stay right when some are marked as read.
LEMMA MarkedRows ==
    ASSUME IInv, NEW S, notices' = {Marked(n, S) : n \in notices},
           UNCHANGED <<events, serial, now, anomalies>>
    PROVE  RowsOK' /\ notices' \subseteq Notice
<1>1. ASSUME NEW n \in notices
      PROVE  LET k == Marked(n, S)
             IN  /\ k \in Notice /\ k.event = n.event /\ k.user = n.user
                 /\ k.type = n.type /\ k.actor = n.actor /\ k.entity = n.entity
                 /\ k.id = n.id /\ k.at = n.at /\ (n.isRead => k.isRead)
    <2>1. n \in Notice
        BY DEF IInv, Typed, TypeOK
    <2> QED
        BY <2>1 DEF Marked, Notice
<1>2. \A k \in notices' : \E n \in notices : k = Marked(n, S)
    OBVIOUS
<1>3. NoticesOK'
    <2> SUFFICES ASSUME NEW k \in notices'
                 PROVE  NoticeOK(k)'
        BY DEF NoticesOK
    <2>1. PICK n \in notices : k = Marked(n, S)
        BY <1>2
    <2>2. NoticeOK(n)
        BY DEF IInv, NoticesOK
    <2> QED
        BY <1>1, <2>1, <2>2 DEF NoticeOK
<1>4. NotNamed'
    BY <1>1, <1>2 DEF IInv, NotNamed
<1>5. OncePerEvent'
    BY <1>1, <1>2 DEF IInv, OncePerEvent
<1>6. ReactionToldOnce'
    <2> SUFFICES ASSUME "parallel_reaction" \notin anomalies, NEW j \in notices', NEW k \in notices',
                        j.id < k.id, j.type = k.type, j.type \in {"blog_liked", "blog_saved"},
                        j.user = k.user, j.actor = k.actor, j.entity = k.entity,
                        k.at - j.at <= Hour
                 PROVE  j.isRead
        BY DEF ReactionToldOnce
    <2>1. PICK m \in notices, n \in notices : j = Marked(m, S) /\ k = Marked(n, S)
        BY <1>2
    <2> QED
        BY <1>1, <2>1 DEF IInv, ReactionToldOnce
<1>7. notices' \subseteq Notice
    BY <1>1, <1>2
<1> QED
    BY <1>3, <1>4, <1>5, <1>6, <1>7 DEF RowsOK

\* The requests of NotificationsController.
LEMMA RequestsOK ==
    ASSUME IInv, ReadOne \/ ReadAll \/ Delete
    PROVE  IInv'
<1>1. UNCHANGED <<follows, registered, serial, task, events, now, faults, anomalies>>
      /\ requests' = requests + 1
    BY DEF ReadOne, ReadAll, Delete, Counted
<1>2. EventsOK' /\ TasksOK' /\ EventsGrow
    BY <1>1 DEF IInv, Typed, EventsOK, TasksOK, EventsGrow
<1>3. now \in Nat
    BY DEF IInv, Typed, TypeOK
<1>4. notices' \subseteq Notice /\ RowsOK'
    <2>1. CASE ReadOne
        <3>1. PICK n \in notices :
                 notices' = (notices \ {n}) \cup {[n EXCEPT !.isRead = TRUE]}
            BY <2>1 DEF ReadOne
        <3>2. notices' = {Marked(m, {n}) : m \in notices}
            BY <3>1 DEF Marked
        <3> QED
            BY <1>1, <3>2, MarkedRows
    <2>2. CASE ReadAll
        <3>1. PICK p \in People :
                 notices' = {IF n.user = p THEN [n EXCEPT !.isRead = TRUE] ELSE n : n \in notices}
            BY <2>2 DEF ReadAll
        <3> DEFINE S == {n \in notices : n.user = p}
        <3>2. notices' = {Marked(n, S) : n \in notices}
            BY <3>1 DEF Marked
        <3> QED
            BY <1>1, <3>2, MarkedRows
    <2>3. CASE Delete
        <3>1. notices' \subseteq notices
            BY <2>3 DEF Delete
        <3>2. notices' \subseteq Notice
            BY <3>1 DEF IInv, Typed, TypeOK
        <3>3. Typed'
            BY <1>1, <1>2, <3>2 DEF IInv, Typed, TypeOK
        <3> QED
            BY <1>1, <1>2, <1>3, <3>1, <3>2, <3>3, FewerRows
    <2> QED
        BY <2>1, <2>2, <2>3
<1>5. Typed'
    BY <1>1, <1>2, <1>4 DEF IInv, Typed, TypeOK
<1> QED
    BY <1>4, <1>5 DEF IInv, RowsOK

\* A batch of rows is written: to people not yet told of this event, and of a
\* like only if there is no unread row like it, or in a race.
LEMMA CreateRows ==
    ASSUME IInv, LooksOK, NEW e \in DOMAIN events, Create(e)
    PROVE  IInv'
<1>1. PICK U \in Batches(e) : Create(e)!(U)
    BY DEF Create
<1>2. Typed /\ Typed' /\ EventsGrow /\ e \in DOMAIN events' /\ U \subseteq events'[e].got
    BY <1>1, CreateOK DEF IInv
<1>3. U \in SUBSET events[e].to /\ EventOK(events[e], follows, registered)
    BY <1>1, <1>2, BatchOfTo, EventTyped DEF Typed
<1> DEFINE New == Rows(e, U)
<1>4. \A n \in New : /\ n \in Notice /\ n.event = e /\ n.user \in U
                     /\ n.id = serial + 1 /\ n.at = now /\ n.isRead = FALSE
                     /\ n.type = events[e].type /\ n.actor = events[e].actor
                     /\ n.entity = events[e].entity
    BY <1>2, <1>3, RowTypes
<1>5. notices' = notices \cup New /\ serial' = serial + 1 /\ now' = now
      /\ serial \in Nat /\ now \in Nat /\ Hour \in Nat
    BY <1>1, <1>2, NotificationsAssumption DEF envVars, Typed, TypeOK
<1> DEFINE Row(u) == [id |-> serial + 1, event |-> e, user |-> u, type |-> events[e].type,
                      actor |-> events[e].actor, entity |-> events[e].entity,
                      isRead |-> FALSE, at |-> now]
<1>6. \A m, n \in New : m.user = n.user => m = n
    <2>1. \A m \in New : \E u \in U : m = Row(u)
        BY DEF Rows
    <2>2. \A u : Row(u).user = u
        OBVIOUS
    <2> HIDE DEF Row
    <2> QED
        BY <2>1, <2>2
<1>7. \A n \in notices : n \in Notice /\ NoticeOK(n)
    BY DEF IInv, NoticesOK, Typed, TypeOK
<1> HIDE DEF New
<1>8. NoticesOK'
    <2>1. \A n \in notices : NoticeOK(n)'
        BY <1>2, <1>5, <1>7 DEF NoticeOK, EventsGrow, Notice
    <2>2. \A n \in New : NoticeOK(n)'
        BY <1>2, <1>3, <1>4, <1>5 DEF NoticeOK, EventsGrow, EventOK
    <2> QED
        BY <1>5, <2>1, <2>2 DEF NoticesOK
<1>9. NotNamed'
    BY <1>3, <1>4, <1>5 DEF IInv, NotNamed, EventOK
<1>10. OncePerEvent'
    <2>1. \A m \in notices, n \in New : ~(m.event = n.event /\ m.user = n.user)
        BY <1>3, <1>4, <1>7 DEF NoticeOK, EventOK
    <2> QED
        BY <1>5, <1>6, <2>1 DEF IInv, OncePerEvent
<1>11. ReactionToldOnce'
    <2> SUFFICES ASSUME "parallel_reaction" \notin anomalies', NEW m \in notices', NEW n \in notices',
                        m.id < n.id, m.type = n.type, m.type \in {"blog_liked", "blog_saved"},
                        m.user = n.user, m.actor = n.actor, m.entity = n.entity,
                        n.at - m.at <= Hour
                 PROVE  m.isRead
        BY DEF ReactionToldOnce
    <2>1. CASE m \in notices /\ n \in notices
        BY <1>1, <2>1 DEF IInv, ReactionToldOnce
    <2>2. CASE m \in New
        BY <1>4, <1>5, <1>7, <2>2 DEF NoticeOK, Notice
    <2>3. CASE m \in notices /\ n \in New
        <3>1. ~(m.id > events[e].looked /\ Alike(e, m))
            BY <1>1, <1>4, <2>3
        <3>3. m.id <= events[e].looked => ~Alike(e, m)
            BY <1>1, <1>4, <2>3 DEF LooksOK, Looked, Reactions
        <3>4. m.id \in Nat /\ events[e].looked \in Nat
            BY <1>2, <1>7, <2>3, EventTyped DEF Notice, Event, Typed
        <3>2. m.at >= now - Hour
            BY <1>4, <1>5, <1>7, <2>3 DEF Notice
        <3> QED
            BY <1>3, <1>4, <2>3, <3>1, <3>2, <3>3, <3>4 DEF Alike
    <2> QED
        BY <1>5, <2>1, <2>2, <2>3
<1> QED
    BY <1>2, <1>8, <1>9, <1>10, <1>11 DEF IInv

-----------------------------------------------------------------------------
(* The invariant and the theorems *)

\* Initially nothing has happened.
LEMMA InitOK == Init => IInv
<1> SUFFICES ASSUME Init
             PROVE  IInv
    OBVIOUS
<1>1. TypeOK
    BY NotificationsAssumption DEF Init, TypeOK
<1>2. EventsOK /\ TasksOK
    BY DEF Init, EventsOK, TasksOK
<1> QED
    BY <1>1, <1>2 DEF Init, IInv, Typed, NoticesOK, NotNamed, OncePerEvent, ReactionToldOnce

\* Every step preserves the invariant.
LEMMA StepOK == IInv /\ LooksOK /\ [Next]_vars => IInv'
<1> SUFFICES ASSUME IInv, LooksOK, [Next]_vars
             PROVE  IInv'
    OBVIOUS
<1>0. Typed /\ now \in Nat
    BY DEF IInv, Typed, TypeOK
<1>1. ASSUME Typed' /\ EventsGrow, UNCHANGED <<notices, serial, anomalies>>, now' >= now
      PROVE  IInv'
    BY <1>1, FewerRows DEF IInv, RowsOK
<1>2. CASE UNCHANGED vars
    BY <1>2 DEF vars, envVars, IInv, Typed, TypeOK, EventsOK, TasksOK, NoticesOK, NoticeOK,
                NotNamed, OncePerEvent, ReactionToldOnce
<1>3. ASSUME NEW c \in Clients, StartFollow(c) \/ Handle(c) \/ Fails(c)
      PROVE  IInv'
    <2>1. Typed' /\ EventsGrow
        BY <1>0, <1>3, StartFollowOK, LookOK, FollowStepOK, UnfollowOK, AnnounceFollowOK,
           FailsOK DEF Handle
    <2>2. UNCHANGED <<notices, serial, anomalies, now>>
        BY <1>3 DEF StartFollow, Handle, Look, Follow, Unfollow, AnnounceFollow, Fails, envVars
    <2> QED
        BY <1>0, <1>1, <2>1, <2>2
<1>4. ASSUME NEW e \in DOMAIN events, LookUp(e) \/ ReadFollowers(e) \/ ListenerFails(e)
      PROVE  IInv'
    <2>1. Typed' /\ EventsGrow
        BY <1>0, <1>4, LookUpOK, ReadFollowersOK, ListenerFailsOK
    <2>2. UNCHANGED <<notices, serial, anomalies, now>>
        BY <1>4 DEF LookUp, ReadFollowers, ListenerFails, envVars
    <2> QED
        BY <1>0, <1>1, <2>1, <2>2
<1>5. ASSUME NEW e \in DOMAIN events, Create(e)
      PROVE  IInv'
    BY <1>5, CreateRows
<1>6. CASE Reacts \/ Publishes \/ AddsMilestone \/ Invites \/ Responds
    <2>1. UNCHANGED <<notices, serial, anomalies, now>>
        BY <1>6 DEF Reacts, Publishes, AddsMilestone, Invites, Responds, Elsewhere
    <2> QED
        BY <1>0, <1>1, <1>6, <2>1, ServicesOK
<1>7. CASE Register
    BY <1>0, <1>1, <1>7, RegisterOK DEF Register
<1>8. CASE ReadOne \/ ReadAll \/ Delete
    BY <1>8, RequestsOK
<1>9. CASE Crash
    BY <1>0, <1>1, <1>9, CrashOK DEF Crash
<1>10. CASE Tick
    BY <1>0, <1>1, <1>10, TickOK DEF Tick
<1> QED
    BY <1>2, <1>3, <1>4, <1>5, <1>6, <1>7, <1>8, <1>9, <1>10 DEF Next, Listen

\* Where a listener of a like or save is about to write, it has just looked, or
\* it was about to before, for no fewer people.
Same(v, u)  == /\ v.type = u.type /\ v.actor = u.actor /\ v.entity = u.entity
               /\ v.looked = u.looked
Later(v, u) == /\ Same(v, u)
               /\ v.type \in Reactions /\ v.step = "create" =>
                     u.step = "create" /\ v.to \subseteq u.to
New(v)      == v.looked = 0 /\ (v.type \in Reactions => v.step # "create")

\* An event is new, or it goes on as the same, in one of these two ways.
LEMMA EventsMove ==
    ASSUME Typed, [Next]_vars, NEW e \in DOMAIN events'
    PROVE  \/ e \in DOMAIN events /\ (LookUp(e) \/ Later(events'[e], events[e]))
           \/ New(events'[e])
<1> DEFINE Moved(d) == \/ d \in DOMAIN events /\ (LookUp(d) \/ Later(events'[d], events[d]))
                       \/ New(events'[d])
<1>1. events \in Seq(Event) /\ \A d \in DOMAIN events : events[d] \in Event
    BY DEF Typed, EventsOK
<1>2. CASE events' = events
    BY <1>2 DEF Later, Same
<1>3. ASSUME NEW v, Emit(v), New(v) PROVE Moved(e)
    <2>1. \/ e \in DOMAIN events /\ events'[e] = events[e]
          \/ events'[e] = v
        BY <1>1, <1>3 DEF Emit
    <2> QED
        BY <1>3, <2>1 DEF Later, Same
<1>4. ASSUME NEW c \in Clients, StartFollow(c) \/ Handle(c) \/ Fails(c) PROVE Moved(e)
    <2>1. CASE StartFollow(c) \/ Look(c) \/ Fails(c)
        BY <1>2, <2>1 DEF StartFollow, Look, Fails
    <2>2. CASE Follow(c)
        <3>1. events' = events \/ events' = Joined(Pair(c))
            BY <2>2 DEF Follow
        <3>2. ASSUME events' = Joined(Pair(c)) PROVE Moved(e)
            BY <1>1, <3>2 DEF Joined, Later, Same, Event
        <3> QED
            BY <1>2, <3>1, <3>2
    <2>3. CASE Unfollow(c)
        BY <1>1, <2>3 DEF Unfollow, Left, Later, Same, Event
    <2>4. CASE AnnounceFollow(c)
        <3>1. \A type, actor, entity, to :
                 type \notin Reactions => New(Direct(type, actor, entity, to))
            BY DEF New, Direct
        <3> QED
            BY <1>2, <1>3, <2>4, <3>1
               DEF AnnounceFollow, handleAuthorFollowed, handleCompanyFollowed, Reactions
    <2> QED
        BY <1>4, <2>1, <2>2, <2>3, <2>4 DEF Handle
<1>5. ASSUME NEW d \in DOMAIN events, Listen(d) \/ ListenerFails(d) PROVE Moved(e)
    <2>0. events[d] \in Event
        BY <1>1
    <2>1. ASSUME NEW v, events' = [events EXCEPT ![d] = v], Later(v, events[d]) PROVE Moved(e)
        <3>1. e \in DOMAIN events /\ events'[e] = IF e = d THEN v ELSE events[e]
            BY <1>1, <2>1
        <3> QED
            BY <2>1, <3>1 DEF Later, Same
    <2>2. CASE LookUp(d)
        <3>1. e \in DOMAIN events /\ (e # d => events'[e] = events[e])
            BY <1>1, <2>2 DEF LookUp
        <3> QED
            BY <2>2, <3>1 DEF Later, Same
    <2>3. CASE ReadFollowers(d)
        <3>1. PICK s \in events[d].sources : ReadFollowers(d)!(s)
            BY <2>3 DEF ReadFollowers
        <3> DEFINE rest == events[d].sources \ {s}
                   to   == events[d].to \cup Recipients(d, Followers({s}))
                   step == AfterRead(rest, to)
                   v == [events[d] EXCEPT !.sources = rest, !.to = to, !.step = step]
        <3>2. events[d].type \notin Reactions
            BY <2>3, EventTyped DEF ReadFollowers, Typed, EventOK, FansOut, Reactions
        <3>3. Same(v, events[d])
            BY <2>0 DEF Same, Event
        <3>4. events' = [events EXCEPT ![d] = v]
            BY <3>1
        <3> HIDE DEF v
        <3> QED
            BY <2>1, <3>2, <3>3, <3>4 DEF Later, Same
    <2>4. CASE Create(d)
        <3>1. PICK U \in Batches(d) : Create(d)!(U)
            BY <2>4 DEF Create
        <3> DEFINE v == [events[d] EXCEPT !.to = Remaining(d, U), !.got = @ \cup U,
                            !.step = IF Remaining(d, U) = {} THEN "done" ELSE "create"]
        <3>2. events' = [events EXCEPT ![d] = v]
            BY <3>1
        <3>3. Same(v, events[d]) /\ v.to = events[d].to \ U
            BY <2>0 DEF Same, Event, Remaining
        <3> HIDE DEF v
        <3> QED
            BY <2>1, <3>1, <3>2, <3>3 DEF Later
    <2>5. CASE ListenerFails(d)
        <3>1. CASE events[d].step = "create" /\ ~IsFanOut(d)
            <4>1. PICK u \in events[d].to : events' = [events EXCEPT
                          ![d].to = @ \ {u}, ![d].missed = @ \cup {u},
                          ![d].step = IF events[d].to = {u} THEN "done" ELSE "create"]
                BY <2>5, <3>1 DEF ListenerFails
            <4> DEFINE v == [events[d] EXCEPT !.to = @ \ {u}, !.missed = @ \cup {u},
                                !.step = IF events[d].to = {u} THEN "done" ELSE "create"]
            <4>2. events' = [events EXCEPT ![d] = v]
                BY <4>1
            <4>3. Same(v, events[d]) /\ v.to = events[d].to \ {u}
                BY <2>0 DEF Same, Event
            <4> HIDE DEF v
            <4> QED
                BY <2>1, <3>1, <4>2, <4>3 DEF Later
        <3>2. CASE ~(events[d].step = "create" /\ ~IsFanOut(d))
            <4>1. events' = [events EXCEPT ![d] = Lost(d)]
                BY <2>5, <3>2 DEF ListenerFails
            <4>2. Later(Lost(d), events[d])
                BY <2>0 DEF Lost, Later, Same, Event
            <4> QED
                BY <2>1, <4>1, <4>2
        <3> QED
            BY <3>1, <3>2
    <2> QED
        BY <1>5, <2>2, <2>3, <2>4, <2>5 DEF Listen
<1>6. CASE Reacts \/ Publishes \/ AddsMilestone \/ Invites \/ Responds
    <2>1. \A type, actor, entity, to : New(Lookup(type, actor, entity, to))
        BY DEF New, Lookup, Direct
    <2>2. \A type, actor, entity, to :
             type \notin Reactions => New(Direct(type, actor, entity, to))
        BY DEF New, Direct
    <2>3. \A type, by, actor, entity, sources : New(FanOut(type, by, actor, entity, sources))
        BY DEF New, FanOut, Direct
    <2>4. \A p, q : New(handleCompanyInviteReceived(p, q))
        BY DEF handleCompanyInviteReceived, New, Lookup, Direct
    <2>5. CASE Reacts
        BY <1>3, <2>1, <2>5 DEF Reacts, handleBlogLiked, handleBlogSaved
    <2>6. CASE Publishes
        BY <1>3, <2>3, <2>6 DEF Publishes, handleBlogPublished
    <2>7. CASE AddsMilestone
        BY <1>3, <2>3, <2>7 DEF AddsMilestone, handleCompanyMilestone
    <2>8. CASE Invites
        BY <1>3, <2>4, <2>8 DEF Invites
    <2>9. CASE Responds
        BY <1>3, <2>2, <2>9 DEF Responds, handleCompanyInviteResponded, Reactions
    <2> QED
        BY <1>6, <2>5, <2>6, <2>7, <2>8, <2>9
<1>7. CASE Register \/ ReadOne \/ ReadAll \/ Delete \/ Tick \/ UNCHANGED vars
    BY <1>2, <1>7 DEF Register, ReadOne, ReadAll, Delete, Tick, vars
<1>8. CASE Crash
    <2>1. e \in DOMAIN events /\ events'[e] = IF Open(e) THEN Lost(e) ELSE events[e]
        BY <1>8 DEF Crash
    <2>2. Later(Lost(e), events[e])
        BY <1>1, <2>1 DEF Lost, Later, Same, Event
    <2> QED
        BY <2>1, <2>2 DEF Later, Same
<1> QED
    BY <1>4, <1>5, <1>6, <1>7, <1>8 DEF Next

\* Every row was there before, perhaps unread, or is the newest.
LEMMA RowsMove ==
    ASSUME IInv, [Next]_vars, NEW k \in notices'
    PROVE  \/ k.id = serial + 1 /\ serial' = serial + 1
           \/ \E n \in notices :
                 /\ k.id = n.id /\ k.user = n.user /\ k.type = n.type /\ k.actor = n.actor
                 /\ k.entity = n.entity /\ k.at = n.at /\ (n.isRead => k.isRead)
<1>0. \A n \in notices : n \in Notice
    BY DEF IInv, Typed, TypeOK
<1>1. CASE notices' \subseteq notices
    BY <1>1
<1>2. ASSUME NEW c \in Clients, StartFollow(c) \/ Handle(c) \/ Fails(c)
      PROVE  notices' = notices
    BY <1>2 DEF StartFollow, Handle, Look, Follow, Unfollow, AnnounceFollow, Fails
<1>3. ASSUME NEW e \in DOMAIN events, LookUp(e) \/ ReadFollowers(e) \/ ListenerFails(e)
      PROVE  notices' = notices
    BY <1>3 DEF LookUp, ReadFollowers, ListenerFails
<1>4. ASSUME NEW e \in DOMAIN events, Create(e), k \notin notices
      PROVE  k.id = serial + 1 /\ serial' = serial + 1
    BY <1>4 DEF Create, Rows
<1>5. CASE Reacts \/ Publishes \/ AddsMilestone \/ Invites \/ Responds
    BY <1>1, <1>5 DEF Reacts, Publishes, AddsMilestone, Invites, Responds, Elsewhere
<1>6. CASE Register \/ Delete \/ Crash \/ Tick \/ UNCHANGED vars
    BY <1>1, <1>6 DEF Register, Delete, Crash, Tick, vars
<1>7. CASE ReadOne
    BY <1>0, <1>7 DEF ReadOne, Notice
<1>8. CASE ReadAll
    BY <1>0, <1>8 DEF ReadAll, Notice
<1> QED
    BY <1>1, <1>2, <1>3, <1>4, <1>5, <1>6, <1>7, <1>8 DEF Next, Listen

\* Time and the count of inserts only grow.
LEMMA Onwards ==
    ASSUME IInv, [Next]_vars
    PROVE  serial' >= serial /\ now' >= now
<1>0. serial \in Nat /\ now \in Nat
    BY DEF IInv, Typed, TypeOK
<1>1. ASSUME NEW c \in Clients, StartFollow(c) \/ Handle(c) \/ Fails(c)
      PROVE  UNCHANGED <<serial, now>>
    BY <1>1 DEF StartFollow, Handle, Look, Follow, Unfollow, AnnounceFollow, Fails, envVars
<1>2. ASSUME NEW e \in DOMAIN events, Listen(e) \/ ListenerFails(e)
      PROVE  serial' \in {serial, serial + 1} /\ now' = now
    BY <1>2 DEF Listen, LookUp, ReadFollowers, Create, ListenerFails, envVars
<1>3. CASE Reacts \/ Publishes \/ AddsMilestone \/ Invites \/ Responds
    BY <1>0, <1>3 DEF Reacts, Publishes, AddsMilestone, Invites, Responds, Elsewhere
<1>4. CASE Register \/ ReadOne \/ ReadAll \/ Delete \/ Crash \/ Tick \/ UNCHANGED vars
    BY <1>0, <1>4 DEF Register, ReadOne, ReadAll, Delete, Crash, Tick, vars, envVars
<1> QED
    BY <1>0, <1>1, <1>2, <1>3, <1>4 DEF Next

\* What a listener found stays true until it writes.
LEMMA LooksStep == IInv /\ LooksOK /\ [Next]_vars => LooksOK'
<1> SUFFICES ASSUME IInv, LooksOK, [Next]_vars, NEW e \in DOMAIN events' PROVE Looked(e)'
    BY DEF LooksOK
<1>0. /\ Typed /\ Typed' /\ serial \in Nat /\ now \in Nat /\ serial' \in Nat /\ now' \in Nat
      /\ serial' >= serial /\ now' >= now /\ Hour \in Nat
    BY StepOK, Onwards, NotificationsAssumption DEF IInv, Typed, TypeOK
<1>1. CASE New(events'[e])
    BY <1>0, <1>1 DEF New, Looked
<1>2. CASE e \in DOMAIN events /\ LookUp(e)
    <2>1. events[e] \in Event
        BY <1>0, <1>2, EventTyped DEF Typed
    <2>2. /\ events'[e].looked = serial /\ events'[e].type = events[e].type
          /\ events'[e].actor = events[e].actor /\ events'[e].entity = events[e].entity
          /\ events'[e].to \subseteq events[e].to
          /\ events'[e].step = "create" /\ events[e].type \in Reactions =>
                \A n \in notices : ~Alike(e, n)
          /\ notices' = notices /\ now' = now /\ serial' = serial
        BY <1>0, <1>2, <2>1 DEF LookUp, Event, Reactions, Typed, EventsOK, envVars
    <2> QED
        BY <1>0, <2>2 DEF Looked, Alike
<1>3. CASE e \in DOMAIN events /\ Later(events'[e], events[e])
    <2>1. /\ Looked(e) /\ events[e] \in Event /\ events[e].looked \in Nat
        BY <1>0, <1>3, EventTyped DEF LooksOK, Typed, Event
    <2>2. events'[e].looked <= serial'
        BY <1>0, <1>3, <2>1 DEF Later, Same, Looked
    <2>3. ASSUME events'[e].type \in Reactions, events'[e].step = "create",
                 NEW k \in notices', k.id <= events'[e].looked
          PROVE  ~Alike(e, k)'
        <3>1. PICK n \in notices :
                 /\ k.id = n.id /\ k.user = n.user /\ k.type = n.type /\ k.actor = n.actor
                 /\ k.entity = n.entity /\ k.at = n.at /\ (n.isRead => k.isRead)
            BY <1>0, <1>3, <2>1, <2>3, RowsMove DEF Later, Same, Looked
        <3>2. ~Alike(e, n)
            BY <1>3, <2>1, <2>3, <3>1 DEF Later, Same, Looked
        <3>3. n.at \in Nat
            BY DEF IInv, Typed, TypeOK, Notice
        <3> QED
            BY <1>0, <1>3, <2>3, <3>1, <3>2, <3>3 DEF Alike, Later, Same
    <2> QED
        BY <2>2, <2>3 DEF Looked
<1> QED
    BY <1>0, <1>1, <1>2, <1>3, EventsMove

\* The invariant holds throughout.
LEMMA Always == Spec => []IInv
<1>1. Init => LooksOK
    BY DEF Init, LooksOK
<1> QED
    BY <1>1, InitOK, StepOK, LooksStep, PTL DEF Spec

\* Follows, rows, requests and events keep their types.
THEOREM NoticesTyped == Spec => []TypeOK
<1>1. IInv => TypeOK
    BY DEF IInv, Typed
<1> QED
    BY <1>1, Always, PTL

\* No listener tells a person of something that person did, but for a milestone
\* to a follower who posted it and a publication to a follower, not its author,
\* who published it; for every other event the services that emit see to it.
THEOREM NobodyToldOfOwn == Spec => []NotOwnAct
<1>1. IInv => NotOwnAct
    BY DEF IInv, NotNamed, NoticesOK, NoticeOK, FansOut, NotOwnAct
<1> QED
    BY <1>1, Always, PTL

\* Whoever follows the author and the company is told once of a publication,
\* and every recipient of any other event is told once.
THEOREM ToldOnce == Spec => []OncePerEvent
<1>1. IInv => OncePerEvent
    BY DEF IInv
<1> QED
    BY <1>1, Always, PTL

\* Taking a like back and liking again within the window leaves one unread
\* row, unless another one came between a listener's look and its write.
THEOREM ReactionsDeduplicated == Spec => []ReactionToldOnce
<1>1. IInv => ReactionToldOnce
    BY DEF IInv
<1> QED
    BY <1>1, Always, PTL

\* A listener tells only whom the event was meant for, or who followed some
\* time before it read.
THEOREM OnlyTheMeantAreTold == Spec => []OnlyThoseMeant
<1>1. IInv => OnlyThoseMeant
    BY DEF IInv, Typed, EventsOK, EventOK, OnlyThoseMeant
<1> QED
    BY <1>1, Always, PTL

\* However followers come and go while a listener reads, it has missed nobody
\* who followed all along, but for those whom a fault kept from it.
THEOREM NobodyForgotten == Spec => []EveryoneTold
<1>1. IInv => EveryoneTold
    BY DEF IInv, Typed, EventsOK, EventOK, EveryoneTold
<1> QED
    BY <1>1, Always, PTL
=============================================================================
