--------------------------- MODULE CompanyInvites ---------------------------
(***************************************************************************)
(* The team of one company: CompaniesService's handlers that invite,       *)
(* resend, revoke, accept, decline and remove, statement by statement.     *)
(* Companies do not interact, so one stands for all of them.               *)
(*                                                                         *)
(* A handler reads invites and memberships in statements of their own and  *)
(* writes in later ones, with nothing locked; a task notes in its fields   *)
(* "saw..." what it read, which may have changed by the time it writes.    *)
(***************************************************************************)
EXTENDS Integers, FiniteSets

CONSTANTS Users,        \* persons, known by their email address
          Invites,      \* identifiers (and tokens) that invites may get
          Creator,      \* who created the company: its owner for good
          None,         \* the addressee of an invite that was never sent
          Admins,       \* platform administrators
          Profiled,     \* persons with an author profile
          Clients,      \* slots for HTTP requests in progress
          Lifetime,     \* how long an invite can be answered: seven days
          MaxTime, MaxRequests, MaxFaults  \* bounds

ASSUME InvitesAssumption ==
    /\ Creator \in Users /\ None \notin Users \cup Invites
    /\ Admins \subseteq Users /\ Profiled \subseteq Users
    /\ {Lifetime, MaxTime, MaxRequests, MaxFaults} \subseteq Nat

VARIABLES
    \* the database
    role,       \* company_memberships: each person's role, or "none"
    status,     \* company_invites.status, or whether the row is there
    invited,    \* company_invites.invitedEmail
    inviter,    \* company_invites.invitedByUserId
    expires,    \* company_invites.expiresAt
    \* the server processes
    task,       \* what each client's request is doing
    queue,      \* setImmediate callbacks waiting, per kind and invite
    told,       \* the notification events emitted: kinds and invites
    \* the environment
    now, requests, faults,
    \* history
    withdrawn,  \* the invites deleted while they could still be answered
    joined,     \* the invites by which somebody became a member
    anomalies   \* what has gone wrong so far

inviteVars == <<status, invited, inviter, expires>>
eventVars  == <<queue, told>>
envVars    == <<now, requests, faults>>
history    == <<withdrawn, joined, anomalies>>
vars == <<role, inviteVars, task, eventVars, envVars, history>>

Roles    == {"none", "author", "owner"}
Statuses == {"absent", "pending", "accepted", "declined", "deleted"}
Kinds    == {"received", "accepted", "declined"}
Anomaly  == {"stale_write",  \* what the writer had read no longer held, or it
                             \* had read the invite of a half-written acceptance
             "lost_join"}    \* an invite was accepted, the membership never written

Task == [op : {"invite", "resend", "revoke", "accept", "decline", "remove"},
         step : {"member", "pending", "create", "write", "join", "delete"},
         by : Users,       \* the requester
         user : Users,     \* whom the request is about
         invite : Invites \cup {None},
         fresh : Invites \cup {None},    \* the invite to create
         sawRole : Roles, sawStatus : Statuses, sawPending : SUBSET Invites]
Idle == [step |-> "idle"]

TypeOK ==
    /\ role \in [Users -> Roles]
    /\ status \in [Invites -> Statuses]
    /\ invited \in [Invites -> Users \cup {None}]
    /\ inviter \in [Invites -> Users \cup {None}]
    /\ expires \in [Invites -> Nat]
    /\ task \in [Clients -> Task \cup {Idle}]
    /\ queue \in [Kinds \X Invites -> Nat]
    /\ told \subseteq Kinds \X Invites
    /\ now \in Nat /\ requests \in Nat /\ faults \in Nat
    /\ withdrawn \subseteq Invites /\ joined \subseteq Invites
    /\ anomalies \subseteq Anomaly

Init ==
    /\ role = [u \in Users |-> IF u = Creator THEN "owner" ELSE "none"]
    /\ status = [i \in Invites |-> "absent"]
    /\ invited = [i \in Invites |-> None]
    /\ inviter = [i \in Invites |-> None]
    /\ expires = [i \in Invites |-> 0]
    /\ task = [c \in Clients |-> Idle]
    /\ queue = [n \in Kinds \X Invites |-> 0]
    /\ told = {}
    /\ now = 0 /\ requests = 0 /\ faults = 0
    /\ withdrawn = {} /\ joined = {} /\ anomalies = {}

-----------------------------------------------------------------------------
Exists(i) == status[i] \notin {"absent", "deleted"}

\* findPendingInvite: an expired invite still counts as pending.
PendingFor(u) == {i \in Invites : status[i] = "pending" /\ invited[i] = u}

\* permissionChecker.canInviteAuthors and canRemoveAuthors.  The only owner
\* is the creator, who cannot be removed: what was read here stays true.
Manages(u) == u \in Admins \/ role[u] = "owner"

\* The roles once the acceptances that are half written are through.
SettledRole == [u \in Users |->
    IF role[u] = "none" /\ \E c \in Clients : task[c].step = "join" /\ task[c].user = u
    THEN "author" ELSE role[u]]

\* A random token and a new row: never used before, nor held by another task.
Fresh == {i \in Invites : /\ status[i] = "absent"
                          /\ \A c \in Clients : task[c] = Idle \/ task[c].fresh # i}

\* Mutant: the status of the invite is not checked.
UsableAgain(i, u) == Exists(i) /\ now <= expires[i] /\ invited[i] = u

\* assertInviteUsable
Usable(i, u) == status[i] = "pending" /\ now <= expires[i] /\ invited[i] = u

At(c, op, step) == task[c].step = step /\ task[c].op = op

Fault == faults < MaxFaults /\ faults' = faults + 1

Blame(why, cond) == anomalies' = IF cond THEN anomalies \cup {why} ELSE anomalies

Defer(kind, i) == queue' = [queue EXCEPT ![<<kind, i>>] = @ + 1]

\* A request of person r about person u and invite i passes its first checks.
Begin(c, op, step, r, u, i, fresh) ==
    /\ task[c] = Idle
    /\ requests < MaxRequests
    /\ requests' = requests + 1
    /\ task' = [task EXCEPT ![c] =
                  [op |-> op, step |-> step, by |-> r, user |-> u, invite |-> i, fresh |-> fresh,
                   sawRole |-> role[u], sawPending |-> PendingFor(u),
                   sawStatus |-> IF i = None THEN "absent" ELSE status[i]]]
    /\ UNCHANGED <<role, inviteVars, eventVars, now, faults, history>>

\* Task c only reads, and goes on as next.
Proceed(c, next) ==
    /\ task' = [task EXCEPT ![c] = next]
    /\ UNCHANGED <<role, inviteVars, eventVars, envVars, history>>

-----------------------------------------------------------------------------
(* inviteAuthor *)

StartInvite(c) == \E r, u \in Users, i \in Fresh :
    /\ Manages(r) /\ u # r
    /\ Begin(c, "invite", "member", r, u, None, i)

\* findMembershipByEmail
InviteMember(c) ==
    LET u == task[c].user
    IN  /\ At(c, "invite", "member")
        /\ Proceed(c, IF role[u] # "none" THEN Idle
                      ELSE [task[c] EXCEPT !.step = "pending", !.sawRole = role[u]])

\* Mutant: several pending invites are fine.
InvitePendingIgnored(c) ==
    /\ At(c, "invite", "pending")
    /\ Proceed(c, [task[c] EXCEPT !.step = "create", !.sawPending = PendingFor(task[c].user)])

\* findPendingInvite
InvitePending(c) ==
    LET mine == PendingFor(task[c].user)
    IN  /\ At(c, "invite", "pending")
        /\ Proceed(c, IF mine # {} THEN Idle
                      ELSE [task[c] EXCEPT !.step = "create", !.sawPending = mine])

\* createInvite, the last statement of inviteAuthor and of resendInvite; only
\* the former announces the invite in the app.
CreateInvite(c) ==
    LET t == task[c]
    IN  /\ t.step = "create"
        /\ status' = [status EXCEPT ![t.fresh] = "pending"]
        /\ invited' = [invited EXCEPT ![t.fresh] = t.user]
        /\ inviter' = [inviter EXCEPT ![t.fresh] = t.by]
        /\ expires' = [expires EXCEPT ![t.fresh] = now + Lifetime]
        /\ IF t.op = "invite" THEN Defer("received", t.fresh) ELSE UNCHANGED queue
        /\ task' = [task EXCEPT ![c] = Idle]
        /\ Blame("stale_write", SettledRole[t.user] # t.sawRole
                                  \/ PendingFor(t.user) # t.sawPending)
        /\ UNCHANGED <<role, told, envVars, withdrawn, joined>>

(* revokeInvite, resendInvite *)

\* Any invite of the company can be revoked, answered or not.
StartRevoke(c) == \E r \in Users, i \in Invites :
    /\ Manages(r) /\ Exists(i)
    /\ Begin(c, "revoke", "delete", r, invited[i], i, None)

StartResend(c) == \E r \in Users, i \in Invites, j \in Fresh :
    /\ Manages(r) /\ status[i] = "pending"
    /\ Begin(c, "resend", "delete", r, invited[i], i, j)

\* deleteInvite, whatever the status of the invite is by now.
DeleteInvite(c) ==
    LET t == task[c]  i == t.invite
    IN  /\ t.step = "delete" /\ t.op \in {"revoke", "resend"}
        /\ Exists(i)
        /\ status' = [status EXCEPT ![i] = "deleted"]
        /\ withdrawn' = IF status[i] = "pending" THEN withdrawn \cup {i} ELSE withdrawn
        /\ task' = [task EXCEPT ![c] =
                      IF t.op = "revoke" THEN Idle
                      ELSE [t EXCEPT !.step = "create", !.sawRole = role[t.user],
                                     !.sawPending = PendingFor(t.user) \ {i}]]
        /\ Blame("stale_write", t.op = "resend" /\ status[i] # t.sawStatus)
        /\ UNCHANGED <<role, invited, inviter, expires, eventVars, envVars, joined>>

(* acceptInvite, declineInvite *)

StartAccept(c) == \E u \in Users, i \in Invites :
    Usable(i, u) /\ Begin(c, "accept", "member", u, u, i, None)

StartDecline(c) == \E u \in Users, i \in Invites :
    Usable(i, u) /\ Begin(c, "decline", "write", u, u, i, None)

\* findMembership
AcceptMember(c) ==
    LET u == task[c].user
    IN  /\ At(c, "accept", "member")
        /\ Proceed(c, IF role[u] # "none" THEN Idle
                      ELSE [task[c] EXCEPT !.step = "write", !.sawRole = role[u]])

\* updateInviteStatus overwrites the status, but needs the row.
Answer(c, answer, next) ==
    LET t == task[c]
    IN  /\ Exists(t.invite)
        /\ status' = [status EXCEPT ![t.invite] = answer]
        /\ task' = [task EXCEPT ![c] = next]
        /\ Blame("stale_write", status[t.invite] # t.sawStatus
                                  \/ SettledRole[t.user] # t.sawRole)
        /\ UNCHANGED <<role, invited, inviter, expires, told, envVars, withdrawn, joined>>

\* Mutant: updateMany, which does not mind that the row is gone.
AcceptAnyway(c) ==
    LET t == task[c]
    IN  /\ At(c, "accept", "write")
        /\ status' = [status EXCEPT ![t.invite] = IF Exists(t.invite) THEN "accepted" ELSE @]
        /\ task' = [task EXCEPT ![c].step = "join"]
        /\ Blame("stale_write", status[t.invite] # t.sawStatus)
        /\ UNCHANGED <<role, invited, inviter, expires, eventVars, envVars, withdrawn, joined>>

\* Mutant: the event is queued before the membership is written.
AcceptAnnounced(c) ==
    /\ At(c, "accept", "write")
    /\ Answer(c, "accepted", [task[c] EXCEPT !.step = "join"])
    /\ Defer("accepted", task[c].invite)

AcceptWrite(c) ==
    /\ At(c, "accept", "write")
    /\ Answer(c, "accepted", [task[c] EXCEPT !.step = "join"])
    /\ UNCHANGED queue

DeclineWrite(c) ==
    /\ At(c, "decline", "write")
    /\ Answer(c, "declined", Idle)
    /\ Defer("declined", task[c].invite)

\* createMembership: unique per company and user.
Join(c) ==
    LET t == task[c]
    IN  /\ t.step = "join"
        /\ role[t.user] = "none"
        /\ role' = [role EXCEPT ![t.user] = "author"]
        /\ joined' = joined \cup {t.invite}
        /\ Defer("accepted", t.invite)
        /\ task' = [task EXCEPT ![c] = Idle]
        /\ UNCHANGED <<inviteVars, told, envVars, withdrawn, anomalies>>

(* removeMember *)

\* Mutant: the creator is not spared.
StartRemoveAnybody(c) == \E r, u \in Users :
    /\ Manages(r) /\ role[u] # "none"
    /\ Begin(c, "remove", "delete", r, u, None, None)

StartRemove(c) == \E r, u \in Users :
    /\ Manages(r) /\ role[u] # "none"
    /\ ~(role[u] = "owner" /\ u = Creator)
    /\ Begin(c, "remove", "delete", r, u, None, None)

DeleteMember(c) ==
    LET u == task[c].user
    IN  /\ At(c, "remove", "delete")
        /\ role[u] # "none"
        /\ role' = [role EXCEPT ![u] = "none"]
        /\ task' = [task EXCEPT ![c] = Idle]
        /\ UNCHANGED <<inviteVars, eventVars, envVars, history>>

-----------------------------------------------------------------------------
(* Failures, callbacks, crashes, time *)

\* The row to write is gone (P2025) or, for a membership, there (P2002).
Conflict(t) ==
    \/ t.op \in {"revoke", "resend"} /\ t.step = "delete" /\ ~Exists(t.invite)
    \/ t.step = "write" /\ ~Exists(t.invite)
    \/ t.step = "join" /\ role[t.user] # "none"
    \/ t.op = "remove" /\ role[t.user] = "none"

\* An error response; what earlier statements wrote stays.
Fails(c) ==
    /\ task[c] # Idle
    /\ \/ Conflict(task[c]) /\ UNCHANGED faults
       \/ Fault
    /\ task' = [task EXCEPT ![c] = Idle]
    /\ Blame("lost_join", task[c].step = "join" /\ role[task[c].user] = "none")
    /\ UNCHANGED <<role, inviteVars, eventVars, now, requests, withdrawn, joined>>

\* Mutant: a callback that nothing queued.
CallbackUnasked(kind, i) ==
    /\ Exists(i)
    /\ queue' = [queue EXCEPT ![<<kind, i>>] = @ - 1]
    /\ told' = told \cup {<<kind, i>>}
    /\ UNCHANGED <<role, inviteVars, task, envVars, history>>

\* The setImmediate callback: the inviter's or the invitee's profile is
\* needed; an answer goes to the owners but the invitee.
Actor(kind, i) == IF kind = "received" THEN inviter[i] ELSE invited[i]

Callback(kind, i) ==
    LET a == Actor(kind, i)
        heard == a \in Profiled /\ (kind = "received" \/ \E o \in Users \ {a} : role[o] = "owner")
    IN  /\ queue[<<kind, i>>] > 0
        /\ queue' = [queue EXCEPT ![<<kind, i>>] = @ - 1]
        /\ told' = IF heard THEN told \cup {<<kind, i>>} ELSE told
        /\ UNCHANGED <<role, inviteVars, task, envVars, history>>

\* The process dies: whatever was in memory is gone, the rows stay.
Crash ==
    /\ Fault
    /\ task' = [c \in Clients |-> Idle]
    /\ queue' = [n \in Kinds \X Invites |-> 0]
    /\ Blame("lost_join",
             \E c \in Clients : task[c].step = "join" /\ role[task[c].user] = "none")
    /\ UNCHANGED <<role, inviteVars, told, now, requests, withdrawn, joined>>

Tick == /\ now < MaxTime
        /\ now' = now + 1
        /\ UNCHANGED <<role, inviteVars, task, eventVars, requests, faults, history>>

Next ==
    \/ \E c \in Clients :
          \/ StartInvite(c) \/ InviteMember(c) \/ InvitePending(c) \/ CreateInvite(c)
          \/ StartRevoke(c) \/ StartResend(c) \/ DeleteInvite(c)
          \/ StartAccept(c) \/ AcceptMember(c) \/ AcceptWrite(c) \/ Join(c)
          \/ StartDecline(c) \/ DeclineWrite(c)
          \/ StartRemove(c) \/ DeleteMember(c)
          \/ Fails(c)
    \/ \E kind \in Kinds, i \in Invites : Callback(kind, i)
    \/ Crash
    \/ Tick

Spec == Init /\ [][Next]_vars

-----------------------------------------------------------------------------
(* Properties *)

\* An invite that was revoked, or replaced by resending it, while it could
\* still be answered never makes anybody a member, even if an acceptance had
\* already passed its checks (acceptInvite writes the invite before the
\* membership, and the write needs the row).
WithdrawnStaysOut == joined \cap withdrawn = {}

\* The owners are told of an acceptance, or are about to be, only when the
\* person did become a member (the event is queued after the last write).
AcceptanceIsTrue ==
    \A i \in Invites : queue[<<"accepted", i>>] > 0 \/ <<"accepted", i>> \in told => i \in joined

\* Whatever owners and administrators remove, and whoever they are, the
\* company keeps an owner: its creator.
OwnerStays == role[Creator] = "owner"

Team == INSTANCE CompanyTeam WITH role <- SettledRole

\* Until the first anomaly the handlers are atomic: each write is one
\* operation of the team, admissible in the state it finds.
AtomicUntilAnomaly ==
    Team!TeamInit /\ [][anomalies' # {} \/ Team!TeamNext]_(Team!teamVars)

\* Until then nobody has two invites to answer, or one while a member.
TidyUntilAnomaly == anomalies = {} => Team!Tidy

-----------------------------------------------------------------------------
(* What the documents say and the code does not do; see the findings. *)

\* docs/PRODUCT_README.md, the table of aggregates: an invite "creates
\* membership on accept".
AcceptedMadeMember ==
    (\A c \in Clients : task[c] = Idle) =>
        \A i \in Invites : status[i] = "accepted" => i \in joined
=============================================================================
