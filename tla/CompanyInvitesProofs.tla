------------------------ MODULE CompanyInvitesProofs ------------------------
(***************************************************************************)
(* Theorems about CompanyInvites, for any persons, invites, requests in    *)
(* progress and bounds.                                                    *)
(***************************************************************************)
EXTENDS CompanyInvites, TLAPS

-----------------------------------------------------------------------------
(* Type correctness *)

Ops   == {"invite", "resend", "revoke", "accept", "decline", "remove"}
Steps == {"member", "pending", "create", "write", "join", "delete"}

\* An invite that was sent has an addressee, for good.
Addressed == \A i \in Invites : status[i] # "absent" => invited[i] \in Users

\* A request about an invite names one.
AimedTask(x) ==
    x.step # "idle" =>
        /\ x.op \notin {"invite", "remove"} => x.invite \in Invites
        /\ x.step \in {"write", "join"} => x.op \in {"accept", "decline"}
Aimed == \A c \in Clients : AimedTask(task[c])

TypeInv == TypeOK /\ Addressed /\ Aimed

\* What a busy task holds.
LEMMA Busy ==
    ASSUME TypeOK, NEW c \in Clients, task[c].step # "idle"
    PROVE  /\ task[c] \in Task
           /\ task[c].op \in Ops /\ task[c].step \in Steps
           /\ task[c].by \in Users /\ task[c].user \in Users
           /\ task[c].invite \in Invites \cup {None}
           /\ task[c].fresh \in Invites \cup {None}
           /\ task[c].sawRole \in Roles /\ task[c].sawStatus \in Statuses
           /\ task[c].sawPending \in SUBSET Invites
BY DEF TypeOK, Task, Idle, Ops, Steps

\* A person's pending invites are invites.
LEMMA PendingTypes == ASSUME NEW u PROVE PendingFor(u) \in SUBSET Invites
BY DEF PendingFor

\* What the reads of a handler make of its task.
LEMMA TaskEdits ==
    ASSUME NEW x \in Task, NEW s \in Steps
    PROVE  /\ [x EXCEPT !.step = s] \in Task
           /\ \A r \in Roles : [x EXCEPT !.step = s, !.sawRole = r] \in Task
           /\ \A P \in SUBSET Invites : [x EXCEPT !.step = s, !.sawPending = P] \in Task
           /\ \A r \in Roles, P \in SUBSET Invites :
                 [x EXCEPT !.step = s, !.sawRole = r, !.sawPending = P] \in Task
BY ZenonT(60) DEF Task, Steps

\* ... its operation and its invite stay what they were.
LEMMA TaskAims ==
    ASSUME NEW x \in Task, NEW s, NEW r, NEW P, AimedTask(x), x.step # "idle",
           s \in {"write", "join"} => x.op \in {"accept", "decline"}
    PROVE  /\ AimedTask([x EXCEPT !.step = s])
           /\ AimedTask([x EXCEPT !.step = s, !.sawRole = r])
           /\ AimedTask([x EXCEPT !.step = s, !.sawPending = P])
           /\ AimedTask([x EXCEPT !.step = s, !.sawRole = r, !.sawPending = P])
BY DEF Task, AimedTask

\* A task that goes on as a task that names its invite, or ends.
LEMMA TaskTypes ==
    ASSUME TypeInv, NEW c \in Clients, NEW x \in Task \cup {Idle},
           task' = [task EXCEPT ![c] = x], x = Idle \/ AimedTask(x)
    PROVE  task' \in [Clients -> Task \cup {Idle}] /\ Aimed'
BY DEF TypeInv, TypeOK, Aimed, AimedTask, Idle

\* No row is created, and none changes its addressee.
LEMMA RowsStay ==
    ASSUME Addressed, UNCHANGED invited,
           \A i \in Invites : status[i] = "absent" => status'[i] = "absent"
    PROVE  Addressed'
BY DEF Addressed

\* Blaming names an anomaly.
LEMMA BlameTypes ==
    ASSUME TypeOK, NEW why \in Anomaly, NEW cond, Blame(why, cond)
    PROVE  anomalies' \subseteq Anomaly
BY DEF TypeOK, Blame

\* One more callback waits.
LEMMA DeferTypes ==
    ASSUME TypeOK, NEW kind, NEW i, Defer(kind, i)
    PROVE  queue' \in [Kinds \X Invites -> Nat]
<1>1. queue \in [Kinds \X Invites -> Nat]
    BY DEF TypeOK
<1>2. \A n \in Kinds \X Invites : queue'[n] = queue[n] \/ queue'[n] = queue[n] + 1
    BY <1>1 DEF Defer
<1>3. queue' = [n \in Kinds \X Invites |-> queue'[n]]
    BY <1>1 DEF Defer
<1> QED
    BY <1>1, <1>2, <1>3

\* A new request is a task.
LEMMA BeginTypes ==
    ASSUME TypeInv, NEW c \in Clients, NEW op \in Ops, NEW step \in Steps,
           NEW r \in Users, NEW u \in Users, NEW i \in Invites \cup {None},
           NEW fresh \in Invites \cup {None}, Begin(c, op, step, r, u, i, fresh),
           op \notin {"invite", "remove"} => i \in Invites,
           step = "write" => op = "decline", step # "join"
    PROVE  TypeInv'
<1> DEFINE x == [op |-> op, step |-> step, by |-> r, user |-> u, invite |-> i,
                 fresh |-> fresh, sawRole |-> role[u], sawPending |-> PendingFor(u),
                 sawStatus |-> IF i = None THEN "absent" ELSE status[i]]
<1>1. x \in Task
    BY PendingTypes DEF TypeInv, TypeOK, Statuses, Task, Ops, Steps
<1>2. AimedTask(x)
    BY DEF AimedTask
<1>3. task' = [task EXCEPT ![c] = x]
    BY DEF Begin
<1> HIDE DEF x
<1>4. task' \in [Clients -> Task \cup {Idle}] /\ Aimed'
    BY <1>1, <1>2, <1>3, TaskTypes
<1> QED
    BY <1>4 DEF TypeInv, TypeOK, Addressed, Begin, inviteVars, eventVars, history

\* A task that only reads.
LEMMA ProceedTypes ==
    ASSUME TypeInv, NEW c \in Clients, NEW next \in Task \cup {Idle},
           Proceed(c, next), next = Idle \/ AimedTask(next)
    PROVE  TypeInv'
<1>1. task' \in [Clients -> Task \cup {Idle}] /\ Aimed'
    BY TaskTypes DEF Proceed
<1> QED
    BY <1>1 DEF TypeInv, TypeOK, Addressed, Proceed, inviteVars, eventVars, envVars, history

\* No rows, no tasks.
LEMMA TypeInit == Init => TypeInv
<1>1. Init => TypeOK
    BY InvitesAssumption DEF Init, TypeOK, Roles, Statuses
<1>2. Init => Addressed /\ Aimed
    BY DEF Init, Addressed, Aimed, AimedTask, Idle
<1> QED
    BY <1>1, <1>2 DEF TypeInv

\* Every step keeps the types.
LEMMA TypeStep == TypeInv /\ [Next]_vars => TypeInv'
<1> SUFFICES ASSUME TypeInv, [Next]_vars PROVE TypeInv'
    OBVIOUS
<1> USE InvitesAssumption
<1>0. TypeOK /\ Addressed /\ Aimed /\ Idle \in Task \cup {Idle}
    BY DEF TypeInv
<1>1. ASSUME NEW c \in Clients, StartInvite(c) PROVE TypeInv'
    BY <1>1, BeginTypes DEF StartInvite, Fresh, Ops, Steps
<1>2. ASSUME NEW c \in Clients, InviteMember(c) PROVE TypeInv'
    <2> DEFINE x == [task[c] EXCEPT !.step = "pending", !.sawRole = role[task[c].user]]
    <2>1. /\ task[c] \in Task /\ role[task[c].user] \in Roles
          /\ AimedTask(task[c]) /\ task[c].step = "member"
        BY <1>0, <1>2, Busy DEF InviteMember, At, Aimed, TypeOK
    <2>2. x \in Task
        BY <2>1, TaskEdits DEF Steps
    <2>3. AimedTask(x)
        BY <2>1, TaskAims
    <2> QED
        BY <1>0, <1>2, <2>2, <2>3, ProceedTypes DEF InviteMember
<1>3. ASSUME NEW c \in Clients, InvitePending(c) PROVE TypeInv'
    <2> DEFINE P == PendingFor(task[c].user)
               x == [task[c] EXCEPT !.step = "create", !.sawPending = P]
    <2>1. /\ task[c] \in Task /\ P \in SUBSET Invites
          /\ AimedTask(task[c]) /\ task[c].step = "pending"
        BY <1>0, <1>3, Busy, PendingTypes DEF InvitePending, At, Aimed
    <2>2. x \in Task
        BY <2>1, TaskEdits DEF Steps
    <2>3. AimedTask(x)
        BY <2>1, TaskAims
    <2> QED
        BY <1>0, <1>3, <2>2, <2>3, ProceedTypes DEF InvitePending
<1>4. ASSUME NEW c \in Clients, CreateInvite(c) PROVE TypeInv'
    <2>1. task[c].user \in Users /\ task[c].by \in Users
        BY <1>0, <1>4, Busy DEF CreateInvite
    <2>2. /\ status' \in [Invites -> Statuses] /\ invited' \in [Invites -> Users \cup {None}]
          /\ inviter' \in [Invites -> Users \cup {None}] /\ expires' \in [Invites -> Nat]
        <3>1. now + Lifetime \in Nat
            BY <1>0 DEF TypeOK
        <3> QED
            BY <1>0, <1>4, <2>1, <3>1 DEF CreateInvite, TypeOK, Statuses
    <2>3. queue' \in [Kinds \X Invites -> Nat]
        BY <1>0, <1>4, DeferTypes DEF CreateInvite, TypeOK
    <2>4. anomalies' \subseteq Anomaly
        BY <1>0, <1>4, BlameTypes DEF CreateInvite, Anomaly
    <2>5. task' \in [Clients -> Task \cup {Idle}] /\ Aimed'
        BY <1>0, <1>4, TaskTypes DEF CreateInvite
    <2>6. Addressed'
        BY <1>0, <1>4, <2>1 DEF CreateInvite, Addressed, TypeOK
    <2> QED
        BY <1>0, <1>4, <2>2, <2>3, <2>4, <2>5, <2>6 DEF CreateInvite, TypeInv, TypeOK, envVars
<1>5. ASSUME NEW c \in Clients, StartRevoke(c) \/ StartResend(c) PROVE TypeInv'
    BY <1>0, <1>5, BeginTypes DEF StartRevoke, StartResend, Exists, Addressed, Fresh, Ops, Steps
<1>6. ASSUME NEW c \in Clients, DeleteInvite(c) PROVE TypeInv'
    <2> DEFINE P == PendingFor(task[c].user) \ {task[c].invite}
               x == [task[c] EXCEPT !.step = "create", !.sawRole = role[task[c].user],
                                    !.sawPending = P]
    <2>1. /\ task[c] \in Task /\ task[c].user \in Users /\ task[c].invite \in Invites
          /\ P \in SUBSET Invites /\ AimedTask(task[c]) /\ task[c].step # "idle"
        BY <1>0, <1>6, Busy, PendingTypes DEF DeleteInvite, Aimed, AimedTask
    <2>2. x \in Task /\ AimedTask(x)
        BY <1>0, <1>6, <2>1, TaskEdits, TaskAims DEF TypeOK, Steps
    <2>3. task' \in [Clients -> Task \cup {Idle}] /\ Aimed'
        BY <1>0, <1>6, <2>2, TaskTypes DEF DeleteInvite
    <2>4. anomalies' \subseteq Anomaly
        BY <1>0, <1>6, BlameTypes DEF DeleteInvite, Anomaly
    <2>5. status' \in [Invites -> Statuses] /\ withdrawn' \subseteq Invites
        BY <1>0, <1>6, <2>1 DEF DeleteInvite, TypeOK, Statuses
    <2>6. Addressed'
        BY <1>0, <1>6, RowsStay DEF DeleteInvite, TypeOK, Exists
    <2> QED
        BY <1>0, <1>6, <2>3, <2>4, <2>5, <2>6
           DEF DeleteInvite, TypeInv, TypeOK, eventVars, envVars
<1>7. ASSUME NEW c \in Clients, StartAccept(c) \/ StartDecline(c) PROVE TypeInv'
    BY <1>7, BeginTypes DEF StartAccept, StartDecline, Ops, Steps
<1>8. ASSUME NEW c \in Clients, AcceptMember(c) PROVE TypeInv'
    <2> DEFINE x == [task[c] EXCEPT !.step = "write", !.sawRole = role[task[c].user]]
    <2>1. /\ task[c] \in Task /\ role[task[c].user] \in Roles
          /\ AimedTask(task[c]) /\ task[c].step = "member" /\ task[c].op = "accept"
        BY <1>0, <1>8, Busy DEF AcceptMember, At, Aimed, TypeOK
    <2>2. x \in Task
        BY <2>1, TaskEdits DEF Steps
    <2>3. AimedTask(x)
        BY <2>1, TaskAims
    <2> QED
        BY <1>0, <1>8, <2>2, <2>3, ProceedTypes DEF AcceptMember
<1>9. ASSUME NEW c \in Clients, AcceptWrite(c) \/ DeclineWrite(c) PROVE TypeInv'
    <2> DEFINE x == [task[c] EXCEPT !.step = "join"]
    <2>1. /\ task[c] \in Task /\ AimedTask(task[c])
          /\ task[c].op \in {"accept", "decline"} /\ task[c].step = "write"
        BY <1>0, <1>9, Busy DEF AcceptWrite, DeclineWrite, At, Aimed
    <2>2. x \in Task /\ AimedTask(x)
        <3>1. x \in Task
            BY <2>1, TaskEdits DEF Steps
        <3>2. AimedTask(x)
            BY <2>1, TaskAims
        <3> QED
            BY <3>1, <3>2
    <2>3. task' \in [Clients -> Task \cup {Idle}] /\ Aimed'
        BY <1>0, <1>9, <2>2, TaskTypes DEF AcceptWrite, DeclineWrite, Answer
    <2>4. queue' \in [Kinds \X Invites -> Nat]
        BY <1>0, <1>9, DeferTypes DEF AcceptWrite, DeclineWrite, TypeOK
    <2>5. anomalies' \subseteq Anomaly
        BY <1>0, <1>9, BlameTypes DEF AcceptWrite, DeclineWrite, Answer, Anomaly
    <2>6. /\ status' \in [Invites -> Statuses]
          /\ \A i \in Invites : status[i] = "absent" => status'[i] = "absent"
        BY <1>0, <1>9 DEF AcceptWrite, DeclineWrite, Answer, Exists, TypeOK, Statuses
    <2>7. Addressed'
        BY <1>0, <1>9, <2>6, RowsStay DEF AcceptWrite, DeclineWrite, Answer
    <2> QED
        BY <1>0, <1>9, <2>3, <2>4, <2>5, <2>6, <2>7
           DEF AcceptWrite, DeclineWrite, Answer, TypeInv, TypeOK, envVars
<1>10. ASSUME NEW c \in Clients, Join(c) PROVE TypeInv'
    <2>1. task[c].user \in Users /\ task[c].invite \in Invites
        BY <1>0, <1>10, Busy DEF Join, Aimed, AimedTask
    <2>2. role' \in [Users -> Roles] /\ joined' \subseteq Invites
        BY <1>0, <1>10, <2>1 DEF Join, TypeOK, Roles
    <2>3. queue' \in [Kinds \X Invites -> Nat]
        BY <1>0, <1>10, DeferTypes DEF Join
    <2>4. task' \in [Clients -> Task \cup {Idle}] /\ Aimed'
        BY <1>0, <1>10, TaskTypes DEF Join
    <2> QED
        BY <1>0, <1>10, <2>2, <2>3, <2>4
           DEF Join, TypeInv, TypeOK, Addressed, inviteVars, envVars
<1>11. ASSUME NEW c \in Clients, StartRemove(c) PROVE TypeInv'
    BY <1>11, BeginTypes DEF StartRemove, Ops, Steps
<1>12. ASSUME NEW c \in Clients, DeleteMember(c) PROVE TypeInv'
    <2>1. task' \in [Clients -> Task \cup {Idle}] /\ Aimed'
        BY <1>0, <1>12, TaskTypes DEF DeleteMember
    <2>2. role' \in [Users -> Roles]
        BY <1>0, <1>12 DEF DeleteMember, TypeOK, Roles
    <2> QED
        BY <1>0, <1>12, <2>1, <2>2
           DEF DeleteMember, TypeInv, TypeOK, Addressed, inviteVars, eventVars, envVars, history
<1>13. ASSUME NEW c \in Clients, Fails(c) PROVE TypeInv'
    <2>1. task' \in [Clients -> Task \cup {Idle}] /\ Aimed'
        BY <1>0, <1>13, TaskTypes DEF Fails
    <2>2. anomalies' \subseteq Anomaly /\ faults' \in Nat
        BY <1>0, <1>13, BlameTypes DEF Fails, Fault, Anomaly, TypeOK
    <2> QED
        BY <1>0, <1>13, <2>1, <2>2 DEF Fails, TypeInv, TypeOK, Addressed, inviteVars, eventVars
<1>14. ASSUME NEW kind \in Kinds, NEW i \in Invites, Callback(kind, i) PROVE TypeInv'
    <2>1. queue' \in [Kinds \X Invites -> Nat] /\ told' \subseteq Kinds \X Invites
        BY <1>0, <1>14 DEF Callback, TypeOK
    <2> QED
        BY <1>0, <1>14, <2>1
           DEF Callback, TypeInv, TypeOK, Addressed, Aimed, inviteVars, envVars, history
<1>15. ASSUME Crash PROVE TypeInv'
    <2>1. anomalies' \subseteq Anomaly /\ faults' \in Nat
        <3>1. anomalies' \subseteq Anomaly
            BY <1>0, <1>15, BlameTypes DEF Crash, Anomaly
        <3>2. faults' \in Nat
            BY <1>0, <1>15 DEF Crash, Fault, TypeOK
        <3> QED
            BY <3>1, <3>2
    <2>2. task' \in [Clients -> Task \cup {Idle}] /\ Aimed'
        BY <1>15 DEF Crash, Aimed, AimedTask, Idle
    <2> QED
        BY <1>0, <1>15, <2>1, <2>2 DEF Crash, TypeInv, TypeOK, Addressed, inviteVars
<1>16. ASSUME Tick PROVE TypeInv'
    BY <1>0, <1>16 DEF Tick, TypeInv, TypeOK, Addressed, Aimed, inviteVars, eventVars, history
<1>17. CASE UNCHANGED vars
    BY <1>0, <1>17
       DEF vars, TypeInv, TypeOK, Addressed, Aimed, inviteVars, eventVars, envVars, history
<1> QED
    BY <1>1, <1>2, <1>3, <1>4, <1>5, <1>6, <1>7, <1>8, <1>9, <1>10, <1>11, <1>12, <1>13,
       <1>14, <1>15, <1>16, <1>17 DEF Next

\* In every reachable state rows, tasks and callbacks have the values their
\* columns and fields allow.
THEOREM InvitesTyped == Spec => []TypeOK
<1>1. TypeInv => TypeOK
    BY DEF TypeInv
<1> QED
    BY <1>1, TypeInit, TypeStep, PTL DEF Spec

-----------------------------------------------------------------------------
(* The steps of requests *)

\* A statement of the request in c, up to where it leaves its task.
Goes(c, x) ==
    /\ task' = [task EXCEPT ![c] = x]
    /\ task[c].step # "idle"
    /\ \/ x = Idle
       \/ /\ x \in Task
          /\ x.op = task[c].op /\ x.user = task[c].user
          /\ x.invite = task[c].invite /\ x.fresh = task[c].fresh
          /\ x.step = "join" => AcceptWrite(c)

\* A read, or a write that leaves something to do, changes neither what the
\* request is about nor what it has reserved.
LEMMA EditGoes ==
    ASSUME NEW c \in Clients, task[c] \in Task, NEW s \in Steps,
           task[c].step # "idle", s = "join" => AcceptWrite(c)
    PROVE  /\ task' = [task EXCEPT ![c] = [task[c] EXCEPT !.step = s]]
                 => \E x : Goes(c, x)
           /\ \A r \in Roles :
                 task' = [task EXCEPT ![c] = [task[c] EXCEPT !.step = s, !.sawRole = r]]
                 => \E x : Goes(c, x)
           /\ \A P \in SUBSET Invites :
                 task' = [task EXCEPT ![c] = [task[c] EXCEPT !.step = s, !.sawPending = P]]
                 => \E x : Goes(c, x)
           /\ \A r \in Roles, P \in SUBSET Invites :
                 task' = [task EXCEPT ![c] = [task[c] EXCEPT !.step = s, !.sawRole = r,
                                                             !.sawPending = P]]
                 => \E x : Goes(c, x)
<1> DEFINE x1 == [task[c] EXCEPT !.step = s]
           x2(r) == [task[c] EXCEPT !.step = s, !.sawRole = r]
           x3(P) == [task[c] EXCEPT !.step = s, !.sawPending = P]
           x4(r, P) == [task[c] EXCEPT !.step = s, !.sawRole = r, !.sawPending = P]
<1>1. task' = [task EXCEPT ![c] = x1] => Goes(c, x1)
    BY TaskEdits, ZenonT(60) DEF Goes, Task
<1>2. ASSUME NEW r \in Roles, task' = [task EXCEPT ![c] = x2(r)] PROVE Goes(c, x2(r))
    BY <1>2, TaskEdits, ZenonT(60) DEF Goes, Task
<1>3. ASSUME NEW P \in SUBSET Invites, task' = [task EXCEPT ![c] = x3(P)]
      PROVE  Goes(c, x3(P))
    BY <1>3, TaskEdits, ZenonT(60) DEF Goes, Task
<1>4. ASSUME NEW r \in Roles, NEW P \in SUBSET Invites, task' = [task EXCEPT ![c] = x4(r, P)]
      PROVE  Goes(c, x4(r, P))
    BY <1>4, TaskEdits, ZenonT(60) DEF Goes, Task
<1> QED
    BY <1>1, <1>2, <1>3, <1>4

\* Every statement of a request in progress.
Statement(c) ==
    \/ InviteMember(c) \/ InvitePending(c) \/ AcceptMember(c)
    \/ CreateInvite(c) \/ DeleteInvite(c) \/ AcceptWrite(c) \/ DeclineWrite(c)
    \/ Join(c) \/ DeleteMember(c) \/ Fails(c)

\* ... goes somewhere.
LEMMA StatementGoes ==
    ASSUME TypeInv, NEW c \in Clients, Statement(c)
    PROVE  \E x : Goes(c, x)
<1>0. TypeOK /\ (task[c].step # "idle" => task[c] \in Task)
    BY Busy DEF TypeInv
<1>1. task' = [task EXCEPT ![c] = Idle] /\ task[c].step # "idle" => Goes(c, Idle)
    BY DEF Goes
<1>2. task[c].step # "idle"
    BY <1>0 DEF Statement, InviteMember, InvitePending, AcceptMember, CreateInvite,
                DeleteInvite, AcceptWrite, DeclineWrite, Join, DeleteMember, Fails, At,
                TypeOK, Idle, Task
<1>3. CASE InviteMember(c) \/ AcceptMember(c)
    <2>1. role[task[c].user] \in Roles
        BY <1>0, <1>2, Busy DEF TypeOK
    <2> QED
        BY <1>0, <1>1, <1>2, <1>3, <2>1, EditGoes
           DEF InviteMember, AcceptMember, Proceed, Steps
<1>4. CASE InvitePending(c)
    BY <1>0, <1>1, <1>2, <1>4, EditGoes, PendingTypes DEF InvitePending, Proceed, Steps
<1>5. CASE DeleteInvite(c)
    <2>1. /\ role[task[c].user] \in Roles
          /\ PendingFor(task[c].user) \ {task[c].invite} \in SUBSET Invites
        BY <1>0, <1>2, Busy, PendingTypes DEF TypeOK
    <2> QED
        BY <1>0, <1>1, <1>2, <1>5, <2>1, EditGoes DEF DeleteInvite, Steps
<1>6. CASE AcceptWrite(c)
    <2>1. task' = [task EXCEPT ![c] = [task[c] EXCEPT !.step = "join"]]
        BY <1>6 DEF AcceptWrite, Answer
    <2> QED
        BY <1>0, <1>2, <1>6, <2>1, EditGoes DEF Steps
<1>7. CASE CreateInvite(c) \/ DeclineWrite(c) \/ Join(c) \/ DeleteMember(c) \/ Fails(c)
    BY <1>1, <1>2, <1>7 DEF CreateInvite, DeclineWrite, Answer, Join, DeleteMember, Fails
<1> QED
    BY <1>3, <1>4, <1>5, <1>6, <1>7 DEF Statement

-----------------------------------------------------------------------------
(* The owner *)

\* A removal in progress passed the check that spares the creator.
SparesCreator ==
    \A c \in Clients : task[c].step # "idle" /\ task[c].op = "remove" =>
        task[c].user # Creator

\* Nobody runs, the creator owns.
LEMMA OwnerInit == Init => OwnerStays /\ SparesCreator
BY InvitesAssumption DEF Init, OwnerStays, SparesCreator, Idle

\* No removal aims at the creator, and no acceptance makes an author of a
\* member.
LEMMA OwnerStep ==
    TypeInv /\ OwnerStays /\ SparesCreator /\ [Next]_vars => OwnerStays' /\ SparesCreator'
<1> SUFFICES ASSUME TypeInv, OwnerStays, SparesCreator, [Next]_vars
             PROVE  OwnerStays' /\ SparesCreator'
    OBVIOUS
<1> USE InvitesAssumption
<1>0. /\ role \in [Users -> Roles] /\ task \in [Clients -> Task \cup {Idle}]
      /\ Idle.step = "idle"
      /\ \A c \in Clients : task[c].step # "idle" => task[c] \in Task
    BY Busy DEF TypeInv, TypeOK, Idle
<1>1. ASSUME NEW c \in Clients, NEW op, NEW step, NEW r, NEW u, NEW i, NEW fresh,
             Begin(c, op, step, r, u, i, fresh), op = "remove" => u # Creator
      PROVE  OwnerStays' /\ SparesCreator'
    BY <1>0, <1>1 DEF Begin, OwnerStays, SparesCreator
<1>2. ASSUME NEW c \in Clients, Statement(c) PROVE SparesCreator'
    <2>1. PICK x : Goes(c, x)
        BY <1>2, StatementGoes
    <2> QED
        BY <1>0, <2>1 DEF Goes, SparesCreator
<1>3. ASSUME NEW c \in Clients,
             StartInvite(c) \/ StartRevoke(c) \/ StartResend(c) \/ StartAccept(c)
                \/ StartDecline(c) \/ StartRemove(c)
      PROVE  OwnerStays' /\ SparesCreator'
    <2>1. CASE StartRemove(c)
        BY <1>1, <2>1 DEF StartRemove, OwnerStays
    <2> QED
        BY <1>1, <1>3, <2>1
           DEF StartInvite, StartRevoke, StartResend, StartAccept, StartDecline
<1>4. ASSUME NEW c \in Clients, InviteMember(c) \/ InvitePending(c) \/ AcceptMember(c)
      PROVE  OwnerStays' /\ SparesCreator'
    BY <1>2, <1>4 DEF Statement, InviteMember, InvitePending, AcceptMember, Proceed, OwnerStays
<1>5. ASSUME NEW c \in Clients,
             CreateInvite(c) \/ DeleteInvite(c) \/ AcceptWrite(c) \/ DeclineWrite(c) \/ Fails(c)
      PROVE  OwnerStays' /\ SparesCreator'
    BY <1>2, <1>5 DEF Statement, CreateInvite, DeleteInvite, AcceptWrite, DeclineWrite,
                      Answer, Fails, OwnerStays
<1>6. ASSUME NEW c \in Clients, Join(c) PROVE OwnerStays' /\ SparesCreator'
    <2>1. SparesCreator'
        BY <1>2, <1>6 DEF Statement
    <2> QED
        BY <1>0, <1>6, <2>1 DEF Join, OwnerStays
<1>7. ASSUME NEW c \in Clients, DeleteMember(c) PROVE OwnerStays' /\ SparesCreator'
    <2>1. task[c].user # Creator
        BY <1>7 DEF DeleteMember, At, SparesCreator
    <2>2. SparesCreator'
        BY <1>2, <1>7 DEF Statement
    <2> QED
        BY <1>0, <1>7, <2>1, <2>2 DEF DeleteMember, OwnerStays
<1>8. ASSUME Crash PROVE OwnerStays' /\ SparesCreator'
    BY <1>0, <1>8 DEF Crash, OwnerStays, SparesCreator
<1>9. ASSUME \/ \E kind \in Kinds, i \in Invites : Callback(kind, i)
             \/ Tick \/ UNCHANGED vars
      PROVE  OwnerStays' /\ SparesCreator'
    BY <1>9 DEF Callback, Tick, vars, OwnerStays, SparesCreator
<1> QED
    BY <1>3, <1>4, <1>5, <1>6, <1>7, <1>8, <1>9 DEF Next

\* However many administrators and members act at once, the company keeps its
\* creator as owner: removeMember spares the creator, and createMembership
\* cannot turn an existing membership into another role.
THEOREM OwnerKept == Spec => []OwnerStays
<1>1. Init => TypeInv /\ OwnerStays /\ SparesCreator
    BY TypeInit, OwnerInit
<1>2. TypeInv /\ OwnerStays /\ SparesCreator /\ [Next]_vars
          => (TypeInv /\ OwnerStays /\ SparesCreator)'
    BY TypeStep, OwnerStep
<1> QED
    BY <1>1, <1>2, PTL DEF Spec

-----------------------------------------------------------------------------
(* The news of an acceptance *)

\* Nothing waits to be told.
LEMMA NewsInit == Init => AcceptanceIsTrue
BY DEF Init, AcceptanceIsTrue, Kinds

\* Only the write of a membership queues the event.
LEMMA NewsStep == TypeInv /\ AcceptanceIsTrue /\ [Next]_vars => AcceptanceIsTrue'
<1> SUFFICES ASSUME TypeInv, AcceptanceIsTrue, [Next]_vars, NEW i \in Invites,
                    queue'[<<"accepted", i>>] > 0 \/ <<"accepted", i>> \in told'
             PROVE  i \in joined'
    BY DEF AcceptanceIsTrue
<1> DEFINE n == <<"accepted", i>>
<1>0. /\ queue \in [Kinds \X Invites -> Nat] /\ n \in Kinds \X Invites
      /\ queue[n] > 0 \/ n \in told => i \in joined
    BY DEF TypeInv, TypeOK, AcceptanceIsTrue, Kinds
<1>1. ASSUME queue'[n] = queue[n], told' = told, joined \subseteq joined'
      PROVE  i \in joined'
    BY <1>0, <1>1
<1>2. ASSUME NEW c \in Clients, CreateInvite(c) PROVE i \in joined'
    BY <1>0, <1>1, <1>2 DEF CreateInvite, Defer
<1>3. ASSUME NEW c \in Clients, DeclineWrite(c) PROVE i \in joined'
    BY <1>0, <1>1, <1>3 DEF DeclineWrite, Answer, Defer
<1>4. ASSUME NEW c \in Clients, Join(c) PROVE i \in joined'
    <2>1. CASE i = task[c].invite
        BY <1>4, <2>1 DEF Join
    <2>2. CASE i # task[c].invite
        BY <1>0, <1>1, <1>4, <2>2 DEF Join, Defer
    <2> QED
        BY <2>1, <2>2
<1>5. ASSUME NEW kind \in Kinds, NEW j \in Invites, Callback(kind, j) PROVE i \in joined'
    <2>1. CASE <<kind, j>> = n
        BY <1>0, <1>5, <2>1 DEF Callback, history
    <2>2. CASE <<kind, j>> # n
        BY <1>0, <1>5, <2>2 DEF Callback, history
    <2> QED
        BY <2>1, <2>2
<1>6. ASSUME Crash PROVE i \in joined'
    BY <1>0, <1>6 DEF Crash
<1>7. ASSUME NEW c \in Clients,
             \/ StartInvite(c) \/ StartRevoke(c) \/ StartResend(c)
             \/ StartAccept(c) \/ StartDecline(c) \/ StartRemove(c)
      PROVE  i \in joined'
    BY <1>1, <1>7 DEF StartInvite, StartRevoke, StartResend, StartAccept, StartDecline,
                      StartRemove, Begin, eventVars, history
<1>8. ASSUME NEW c \in Clients, InviteMember(c) \/ InvitePending(c) \/ AcceptMember(c)
      PROVE  i \in joined'
    BY <1>1, <1>8 DEF InviteMember, InvitePending, AcceptMember, Proceed, eventVars, history
<1>9. ASSUME NEW c \in Clients,
             DeleteInvite(c) \/ AcceptWrite(c) \/ DeleteMember(c) \/ Fails(c)
      PROVE  i \in joined'
    BY <1>1, <1>9 DEF DeleteInvite, AcceptWrite, Answer, DeleteMember, Fails, eventVars, history
<1>10. ASSUME Tick \/ UNCHANGED vars PROVE i \in joined'
    BY <1>1, <1>10 DEF Tick, vars, eventVars, history
<1> QED
    BY <1>2, <1>3, <1>4, <1>5, <1>6, <1>7, <1>8, <1>9, <1>10 DEF Next

\* The owners are never told of an acceptance that made nobody a member.
THEOREM NewsIsTrue == Spec => []AcceptanceIsTrue
<1>1. Init => TypeInv /\ AcceptanceIsTrue
    BY TypeInit, NewsInit
<1>2. TypeInv /\ AcceptanceIsTrue /\ [Next]_vars => (TypeInv /\ AcceptanceIsTrue)'
    BY TypeStep, NewsStep
<1> QED
    BY <1>1, <1>2, PTL DEF Spec

-----------------------------------------------------------------------------
(* Withdrawn invites *)

\* The row a request is going to create is not there yet, and nobody else is
\* going to create it.
Reserved ==
    \A c \in Clients : task[c].step # "idle" /\ task[c].fresh \in Invites =>
        /\ status[task[c].fresh] = "absent"
        /\ \A d \in Clients \ {c} :
              task[d].step # "idle" => task[d].fresh # task[c].fresh

\* Invite i is past answering, and was not withdrawn before that.
Past(i) == status[i] \in {"accepted", "declined", "deleted"} /\ i \notin withdrawn

\* ... and still is after this step.
PastAfter(i) ==
    status'[i] \in {"accepted", "declined", "deleted"} /\ i \notin withdrawn'

\* What acceptances, done and half done, and withdrawals left behind.
Answered ==
    /\ \A c \in Clients : task[c].step = "join" => Past(task[c].invite)
    /\ \A i \in joined : Past(i)
    /\ \A i \in withdrawn : status[i] = "deleted"

\* How the invites of the database change: one is created where nobody else
\* is, or one that exists is answered or deleted.
RowStep ==
    \/ UNCHANGED <<status, withdrawn>>
    \/ \E c \in Clients : /\ CreateInvite(c) /\ UNCHANGED withdrawn
                          /\ status' = [status EXCEPT ![task[c].fresh] = "pending"]
    \/ \E i \in Invites : /\ Exists(i)
                          /\ \/ /\ status' = [status EXCEPT ![i] = "deleted"]
                                /\ withdrawn' = IF status[i] = "pending"
                                                THEN withdrawn \cup {i} ELSE withdrawn
                             \/ /\ \E a \in {"accepted", "declined"} :
                                      status' = [status EXCEPT ![i] = a]
                                /\ UNCHANGED withdrawn

\* Every step changes the invites in one of these ways.
LEMMA RowsChange == ASSUME TypeInv, [Next]_vars PROVE RowStep
<1>1. ASSUME NEW c \in Clients, DeleteInvite(c) PROVE RowStep
    <2>1. task[c].invite \in Invites
        BY <1>1 DEF DeleteInvite, TypeInv, Aimed, AimedTask
    <2> QED
        BY <1>1, <2>1 DEF DeleteInvite, RowStep
<1>2. ASSUME NEW c \in Clients, AcceptWrite(c) \/ DeclineWrite(c) PROVE RowStep
    <2>1. task[c].invite \in Invites
        BY <1>2 DEF AcceptWrite, DeclineWrite, At, TypeInv, Aimed, AimedTask
    <2> QED
        BY <1>2, <2>1 DEF AcceptWrite, DeclineWrite, Answer, RowStep
<1>3. ASSUME NEW c \in Clients, CreateInvite(c) PROVE RowStep
    BY <1>3 DEF CreateInvite, RowStep
<1>4. ASSUME NEW c \in Clients,
             \/ StartInvite(c) \/ StartRevoke(c) \/ StartResend(c)
             \/ StartAccept(c) \/ StartDecline(c) \/ StartRemove(c)
      PROVE  RowStep
    BY <1>4 DEF StartInvite, StartRevoke, StartResend, StartAccept, StartDecline,
                StartRemove, Begin, inviteVars, history, RowStep
<1>5. ASSUME NEW c \in Clients,
             \/ InviteMember(c) \/ InvitePending(c) \/ AcceptMember(c)
             \/ Join(c) \/ DeleteMember(c) \/ Fails(c)
      PROVE  RowStep
    BY <1>5 DEF InviteMember, InvitePending, AcceptMember, Proceed, Join, DeleteMember,
                Fails, inviteVars, history, RowStep
<1>6. ASSUME \/ \E kind \in Kinds, i \in Invites : Callback(kind, i)
             \/ Crash \/ Tick \/ UNCHANGED vars
      PROVE  RowStep
    BY <1>6 DEF Callback, Crash, Tick, vars, inviteVars, history, RowStep
<1> QED
    BY <1>1, <1>2, <1>3, <1>4, <1>5, <1>6 DEF Next

\* A client's task only changes by a statement, by a request that starts where
\* nothing runs, or by a crash.
LEMMA TasksChange ==
    ASSUME TypeInv, [Next]_vars
    PROVE  \/ UNCHANGED task
           \/ task' = [c \in Clients |-> Idle]
           \/ \E c \in Clients : Statement(c) /\ \E x : Goes(c, x)
           \/ \E c \in Clients, f \in Fresh \cup {None} :
                 \E x : /\ task' = [task EXCEPT ![c] = x] /\ UNCHANGED status
                        /\ x.fresh = f /\ x.step \in Steps \ {"join"}
<1> DEFINE Begins(c) == \E f \in Fresh \cup {None} : \E x :
                          /\ task' = [task EXCEPT ![c] = x] /\ UNCHANGED status
                          /\ x.fresh = f /\ x.step \in Steps \ {"join"}
<1>1. ASSUME NEW c \in Clients, NEW op, NEW step \in Steps \ {"join"}, NEW r, NEW u, NEW i,
             NEW f \in Fresh \cup {None}, Begin(c, op, step, r, u, i, f)
      PROVE  Begins(c)
    <2> DEFINE x == [op |-> op, step |-> step, by |-> r, user |-> u, invite |-> i,
                     fresh |-> f, sawRole |-> role[u], sawPending |-> PendingFor(u),
                     sawStatus |-> IF i = None THEN "absent" ELSE status[i]]
    <2>1. x.fresh = f /\ x.step = step
        OBVIOUS
    <2>2. task' = [task EXCEPT ![c] = x] /\ UNCHANGED status
        BY <1>1 DEF Begin, inviteVars
    <2> HIDE DEF x
    <2> QED
        BY <2>1, <2>2
<1>2. ASSUME NEW c \in Clients,
             \/ StartInvite(c) \/ StartRevoke(c) \/ StartResend(c)
             \/ StartAccept(c) \/ StartDecline(c) \/ StartRemove(c)
      PROVE  Begins(c)
    <2> HIDE DEF Begins
    <2> QED
        BY <1>1, <1>2 DEF StartInvite, StartRevoke, StartResend, StartAccept,
                          StartDecline, StartRemove, Steps
<1>3. ASSUME NEW c \in Clients, Statement(c) PROVE \E x : Goes(c, x)
    BY <1>3, StatementGoes
<1>4. \/ UNCHANGED task
      \/ task' = [c \in Clients |-> Idle]
      \/ \E c \in Clients : Statement(c)
      \/ \E c \in Clients : \/ StartInvite(c) \/ StartRevoke(c) \/ StartResend(c)
                            \/ StartAccept(c) \/ StartDecline(c) \/ StartRemove(c)
    BY DEF Next, Statement, Crash, Tick, Callback, vars
<1> QED
    BY <1>2, <1>3, <1>4

\* No rows and no tasks.
LEMMA WithdrawnInit == Init => Reserved /\ Answered
BY DEF Init, Reserved, Answered, Idle

\* A reserved identifier stays unused until its request uses it.
LEMMA ReservedStep == TypeInv /\ Reserved /\ [Next]_vars => Reserved'
<1> SUFFICES ASSUME TypeInv, Reserved, [Next]_vars PROVE Reserved'
    OBVIOUS
<1> USE InvitesAssumption
<1>0. /\ task \in [Clients -> Task \cup {Idle}] /\ status \in [Invites -> Statuses]
      /\ Idle.step = "idle" /\ None \notin Invites
    BY DEF TypeInv, TypeOK, Idle
<1>1. ASSUME NEW c \in Clients, task[c].step # "idle", task[c].fresh \in Invites,
             task'[c].step # "idle"
      PROVE  status'[task[c].fresh] = "absent"
    <2>1. status[task[c].fresh] = "absent"
        BY <1>1 DEF Reserved
    <2>2. ASSUME NEW d \in Clients, CreateInvite(d),
                 status' = [status EXCEPT ![task[d].fresh] = "pending"]
          PROVE  status'[task[c].fresh] = "absent"
        <3>1. d # c /\ task[d].step # "idle"
            BY <1>0, <1>1, <2>2 DEF CreateInvite
        <3>2. task[d].fresh # task[c].fresh
            BY <1>1, <3>1 DEF Reserved
        <3> QED
            BY <1>0, <1>1, <2>1, <2>2, <3>2
    <2>3. RowStep
        BY RowsChange
    <2> QED
        BY <1>0, <1>1, <2>1, <2>2, <2>3 DEF RowStep, Exists
<1>2. CASE UNCHANGED task
    BY <1>1, <1>2 DEF Reserved
<1>3. CASE task' = [c \in Clients |-> Idle]
    BY <1>0, <1>3 DEF Reserved
<1>4. ASSUME NEW c \in Clients, NEW x, Goes(c, x) PROVE Reserved'
    <2>1. \A d \in Clients : task'[d].step # "idle" =>
              task[d].step # "idle" /\ task'[d].fresh = task[d].fresh
        BY <1>0, <1>4 DEF Goes
    <2> QED
        BY <1>1, <2>1 DEF Reserved
<1>5. ASSUME NEW c \in Clients, NEW f \in Fresh \cup {None}, NEW x,
             task' = [task EXCEPT ![c] = x], UNCHANGED status, x.fresh = f
      PROVE  Reserved'
    <2>1. /\ task'[c].fresh = f
          /\ \A d \in Clients \ {c} : task'[d] = task[d]
        BY <1>0, <1>5
    <2>2. f \in Invites => /\ status[f] = "absent"
                           /\ \A d \in Clients : task[d].step # "idle" => task[d].fresh # f
        BY <1>0 DEF Fresh
    <2> QED
        BY <1>5, <2>1, <2>2 DEF Reserved
<1> QED
    BY <1>2, <1>3, <1>4, <1>5, TasksChange

\* An answered or deleted invite stays so, and is not withdrawn any more.
LEMMA PastStays ==
    ASSUME TypeInv, Reserved, RowStep, NEW i \in Invites, Past(i)
    PROVE  PastAfter(i)
<1>0. status \in [Invites -> Statuses]
    BY DEF TypeInv, TypeOK
<1>1. ASSUME NEW c \in Clients, CreateInvite(c)
      PROVE  task[c].fresh # i
    BY <1>1 DEF CreateInvite, Reserved, Past
<1> QED
    BY <1>0, <1>1 DEF RowStep, Past, PastAfter, Exists

\* A person joins by the last write of an acceptance only.
LEMMA JoinedChange ==
    ASSUME [Next]_vars
    PROVE  UNCHANGED joined \/ \E c \in Clients : /\ task[c].step = "join"
                                                  /\ joined' = joined \cup {task[c].invite}
<1>1. ASSUME NEW c \in Clients,
             \/ StartInvite(c) \/ StartRevoke(c) \/ StartResend(c)
             \/ StartAccept(c) \/ StartDecline(c) \/ StartRemove(c)
      PROVE  UNCHANGED joined
    BY <1>1 DEF StartInvite, StartRevoke, StartResend, StartAccept, StartDecline,
                StartRemove, Begin, history
<1>2. ASSUME NEW c \in Clients,
             \/ InviteMember(c) \/ InvitePending(c) \/ AcceptMember(c)
             \/ CreateInvite(c) \/ DeleteInvite(c) \/ AcceptWrite(c) \/ DeclineWrite(c)
             \/ DeleteMember(c) \/ Fails(c)
      PROVE  UNCHANGED joined
    BY <1>2 DEF InviteMember, InvitePending, AcceptMember, Proceed, CreateInvite,
                DeleteInvite, AcceptWrite, DeclineWrite, Answer, DeleteMember, Fails, history
<1>3. ASSUME \/ \E kind \in Kinds, i \in Invites : Callback(kind, i)
             \/ Crash \/ Tick \/ UNCHANGED vars
      PROVE  UNCHANGED joined
    BY <1>3 DEF Callback, Crash, Tick, vars, history
<1> QED
    BY <1>1, <1>2, <1>3 DEF Next, Join

\* Acceptances go through invites that were not withdrawn.
LEMMA AnsweredStep ==
    TypeInv /\ Reserved /\ Answered /\ [Next]_vars => Answered'
<1> SUFFICES ASSUME TypeInv, Reserved, Answered, [Next]_vars PROVE Answered'
    OBVIOUS
<1>0. /\ task \in [Clients -> Task \cup {Idle}] /\ status \in [Invites -> Statuses]
      /\ Idle.step = "idle" /\ withdrawn \subseteq Invites /\ joined \subseteq Invites
    BY DEF TypeInv, TypeOK, Idle
<1>1. RowStep
    BY RowsChange
<1>2. ASSUME NEW c \in Clients, task[c].step = "join"
      PROVE  task[c].invite \in Invites /\ Past(task[c].invite) /\ PastAfter(task[c].invite)
    <2>1. task[c].invite \in Invites
        BY <1>2 DEF TypeInv, Aimed, AimedTask
    <2>2. Past(task[c].invite)
        BY <1>2 DEF Answered
    <2> QED
        BY <1>1, <2>1, <2>2, PastStays
<1>3. \A i \in joined' : PastAfter(i)
    <2>1. \A i \in joined : PastAfter(i)
        BY <1>0, <1>1, PastStays DEF Answered
    <2> QED
        BY <1>2, <2>1, JoinedChange
<1>4. \A i \in withdrawn' : status'[i] = "deleted"
    <2>1. ASSUME NEW c \in Clients, CreateInvite(c), NEW i \in withdrawn
          PROVE  task[c].fresh # i
        BY <1>0, <2>1 DEF CreateInvite, Reserved, Answered
    <2> QED
        BY <1>0, <1>1, <2>1 DEF RowStep, Answered, Exists
<1>5. ASSUME NEW c \in Clients, AcceptWrite(c) PROVE PastAfter(task[c].invite)
    <2>1. task[c].invite \in Invites
        BY <1>5 DEF AcceptWrite, At, TypeInv, Aimed, AimedTask
    <2> QED
        BY <1>0, <1>5, <2>1 DEF AcceptWrite, Answer, Exists, PastAfter, Answered
<1>6. ASSUME NEW c \in Clients, task'[c].step = "join" PROVE PastAfter(task'[c].invite)
    <2>1. CASE UNCHANGED task
        BY <1>2, <1>6, <2>1
    <2>2. CASE task' = [d \in Clients |-> Idle]
        BY <1>0, <1>6, <2>2
    <2>3. ASSUME NEW d \in Clients, NEW x, Goes(d, x) PROVE PastAfter(task'[c].invite)
        <3>1. CASE c = d
            <4>1. AcceptWrite(c) /\ task'[c].invite = task[c].invite
                BY <1>0, <1>6, <2>3, <3>1 DEF Goes
            <4> QED
                BY <1>5, <4>1
        <3>2. CASE c # d
            <4>1. task'[c] = task[c]
                BY <1>0, <2>3, <3>2 DEF Goes
            <4> QED
                BY <1>2, <1>6, <4>1
        <3> QED
            BY <3>1, <3>2
    <2>4. ASSUME NEW d \in Clients, NEW x, task' = [task EXCEPT ![d] = x],
                 x.step \in Steps \ {"join"}
          PROVE  PastAfter(task'[c].invite)
        <3>1. task'[c] = task[c]
            BY <1>0, <1>6, <2>4
        <3> QED
            BY <1>2, <1>6, <3>1
    <2> QED
        BY <2>1, <2>2, <2>3, <2>4, TasksChange
<1> QED
    BY <1>3, <1>4, <1>6 DEF Answered, Past, PastAfter

\* An owner who revokes or resends an invite before it is answered can rely on
\* it: no acceptance already under way turns the old invite into a membership.
THEOREM WithdrawnIsOut == Spec => []WithdrawnStaysOut
<1> DEFINE Inv == TypeInv /\ Reserved /\ Answered
<1>1. Init => Inv
    BY TypeInit, WithdrawnInit
<1>2. Inv /\ [Next]_vars => Inv'
    BY TypeStep, ReservedStep, AnsweredStep
<1>3. Inv => WithdrawnStaysOut
    BY DEF Answered, Past, WithdrawnStaysOut
<1> QED
    BY <1>1, <1>2, <1>3, PTL DEF Spec

-----------------------------------------------------------------------------
(* A tidy team *)

\* Person u is neither a member nor about to become one.
Outside(u) == /\ role[u] = "none"
              /\ \A c \in Clients : task[c].step = "join" => task[c].user # u

\* An invite to answer is its addressee's only one, who is outside.
TidyTeam ==
    \A i \in Invites : status[i] = "pending" =>
        /\ Outside(invited[i])
        /\ \A j \in Invites : status[j] = "pending" /\ invited[j] = invited[i] => j = i

\* What a request x knows when S and I are the invites' statuses and
\* addressees: an invite to come, the addressee of the one it is about, and, as
\* long as all is clean, that whom it will invite is outside and not invited.
Knows(x, S, I, clean) ==
    x.step # "idle" =>
        /\ x.op \in {"invite", "resend"} => x.fresh \in Invites
        /\ x.op \in {"accept", "decline", "resend"} =>
              S[x.invite] # "absent" /\ I[x.invite] = x.user /\ x.sawStatus = "pending"
        /\ x.op = "invite" /\ x.step = "pending" => x.sawRole = "none"
        /\ x.step = "create" =>
              /\ x.op \in {"invite", "resend"}
              /\ clean => x.sawRole = "none" /\ x.sawPending = {}
Knowing == \A c \in Clients : Knows(task[c], status, invited, anomalies = {})

TidyInv == /\ TypeInv /\ Reserved /\ Knowing
           /\ anomalies = {} => TidyTeam

\* What SettledRole and PendingFor say of a person outside.
LEMMA SettledNone ==
    ASSUME TypeInv, NEW u \in Users
    PROVE  SettledRole[u] = "none" <=> Outside(u)
BY DEF TypeInv, TypeOK, Roles, SettledRole, Outside

\* What the runs check of the team follows from its form used here.
LEMMA TidyMeans ==
    ASSUME TypeInv, TidyTeam
    PROVE  Team!Tidy
<1> SUFFICES ASSUME NEW u \in Users, NEW i \in Invites, status[i] = "pending", invited[i] = u
             PROVE  /\ \A j \in Invites : status[j] = "pending" /\ invited[j] = u => j = i
                    /\ SettledRole[u] = "none"
    BY DEF Team!Tidy, Team!PendingFor
<1> QED
    BY SettledNone DEF TidyTeam

\* No step clears an anomaly, unsends an invite or changes its addressee.
LEMMA SentStays ==
    ASSUME TypeInv, Reserved, Knowing, [Next]_vars
    PROVE  /\ anomalies' = {} => anomalies = {}
           /\ \A i \in Invites : status[i] # "absent" =>
                 status'[i] # "absent" /\ invited'[i] = invited[i]
<1>0. status \in [Invites -> Statuses] /\ invited \in [Invites -> Users \cup {None}]
    BY DEF TypeInv, TypeOK
<1>1. ASSUME NEW c \in Clients, CreateInvite(c)
      PROVE  /\ anomalies' = {} => anomalies = {}
             /\ \A i \in Invites : status[i] # "absent" =>
                 status'[i] # "absent" /\ invited'[i] = invited[i]
    <2>1. task[c].step # "idle" /\ task[c].fresh \in Invites
        BY <1>1 DEF CreateInvite, Knowing, Knows
    <2>2. status[task[c].fresh] = "absent"
        BY <2>1 DEF Reserved
    <2> QED
        BY <1>0, <1>1, <2>1, <2>2 DEF CreateInvite, Blame
<1>2. ASSUME NEW c \in Clients,
             \/ StartInvite(c) \/ StartRevoke(c) \/ StartResend(c)
             \/ StartAccept(c) \/ StartDecline(c) \/ StartRemove(c)
             \/ InviteMember(c) \/ InvitePending(c) \/ AcceptMember(c)
             \/ Join(c) \/ DeleteMember(c) \/ Fails(c)
      PROVE  (anomalies' = {} => anomalies = {}) /\ UNCHANGED <<status, invited>>
    BY <1>2 DEF StartInvite, StartRevoke, StartResend, StartAccept, StartDecline, StartRemove,
                Begin, InviteMember, InvitePending, AcceptMember, Proceed, Join, DeleteMember,
                Fails, Blame, inviteVars, history
<1>3. ASSUME NEW c \in Clients, DeleteInvite(c) \/ AcceptWrite(c) \/ DeclineWrite(c)
      PROVE  /\ anomalies' = {} => anomalies = {}
             /\ UNCHANGED invited
             /\ \E a \in {"deleted", "accepted", "declined"} :
                    status' = [status EXCEPT ![task[c].invite] = a]
    BY <1>3 DEF DeleteInvite, AcceptWrite, DeclineWrite, Answer, Blame
<1>4. ASSUME \/ \E kind \in Kinds, i \in Invites : Callback(kind, i)
             \/ Crash \/ Tick \/ UNCHANGED vars
      PROVE  (anomalies' = {} => anomalies = {}) /\ UNCHANGED <<status, invited>>
    BY <1>4 DEF Callback, Crash, Tick, Blame, vars, inviteVars, history
<1> QED
    BY <1>0, <1>1, <1>2, <1>3, <1>4 DEF Next

\* A task that waits goes on knowing what it knows.
LEMMA KnowsStays ==
    ASSUME TypeInv, Reserved, Knowing, [Next]_vars, NEW x \in Task, AimedTask(x), Knows(x, status, invited, anomalies = {})
    PROVE  Knows(x, status', invited', anomalies' = {})
<1>1. x.step # "idle" /\ x.op \in {"accept", "decline", "resend"} => x.invite \in Invites
    BY DEF AimedTask
<1> QED
    BY <1>1, SentStays DEF Knows

\* One request goes on with what it knows, the others wait.
LEMMA KnowingGoesOn ==
    ASSUME TypeInv, Reserved, Knowing, [Next]_vars, NEW c \in Clients, NEW x,
           task' = [task EXCEPT ![c] = x], x = Idle \/ Knows(x, status', invited', anomalies' = {})
    PROVE  Knowing'
<1>1. task'[c] = x /\ \A d \in Clients \ {c} : task'[d] = task[d]
    BY DEF TypeInv, TypeOK
<1>2. \A d \in Clients : task[d].step # "idle" => Knows(task[d], status', invited', anomalies' = {})
    BY KnowsStays, Busy DEF TypeInv, Aimed, Knowing
<1>3. \A d \in Clients : task'[d].step # "idle" => Knows(task'[d], status', invited', anomalies' = {})
    BY <1>1, <1>2 DEF Idle
<1> QED
    BY <1>3 DEF Knowing, Knows

\* A request that starts knows whom its invite is for.
LEMMA KnowingStart ==
    ASSUME TypeInv, Reserved, Knowing, [Next]_vars, NEW c \in Clients,
           \/ StartInvite(c) \/ StartRevoke(c) \/ StartResend(c)
           \/ StartAccept(c) \/ StartDecline(c) \/ StartRemove(c)
    PROVE  Knowing'
<1>0. None \notin Invites /\ Fresh \subseteq Invites
    BY InvitesAssumption DEF Fresh
<1>1. ASSUME NEW op, NEW step \in Steps \ {"create", "pending"}, NEW r, NEW u, NEW i, NEW f,
             Begin(c, op, step, r, u, i, f),
             op \in {"invite", "resend"} => f \in Invites,
             op \in {"accept", "decline", "resend"} =>
                 i \in Invites /\ status[i] = "pending" /\ invited[i] = u
      PROVE  Knowing'
    <2> DEFINE x == [op |-> op, step |-> step, by |-> r, user |-> u, invite |-> i,
                     fresh |-> f, sawRole |-> role[u], sawPending |-> PendingFor(u),
                     sawStatus |-> IF i = None THEN "absent" ELSE status[i]]
    <2>1. task' = [task EXCEPT ![c] = x] /\ UNCHANGED <<status, invited>>
        BY <1>1 DEF Begin, inviteVars
    <2>2. /\ x.op = op /\ x.step = step /\ x.user = u /\ x.invite = i /\ x.fresh = f
          /\ i \in Invites => x.sawStatus = status[i]
        BY <1>0
    <2> HIDE DEF x
    <2>3. Knows(x, status', invited', anomalies' = {})
        BY <1>1, <2>1, <2>2 DEF Knows, Steps
    <2> QED
        BY <2>1, <2>3, KnowingGoesOn
<1> QED
    BY <1>0, <1>1 DEF StartInvite, StartRevoke, StartResend, StartAccept, StartDecline,
                      StartRemove, Usable, Steps

\* The statements that read, or leave something to do.
LEMMA KnowingEdits ==
    ASSUME TidyInv, [Next]_vars, NEW c \in Clients,
           \/ InviteMember(c) \/ InvitePending(c) \/ AcceptMember(c)
           \/ DeleteInvite(c) \/ AcceptWrite(c)
    PROVE  Knowing'
<1> DEFINE t == task[c]
<1>0. TypeInv /\ TypeOK /\ Reserved /\ Knowing
    BY DEF TidyInv, TypeInv
<1>1. t.step # "idle"
    BY DEF InviteMember, InvitePending, AcceptMember, DeleteInvite, AcceptWrite, At
<1>2. t \in Task /\ t.user \in Users /\ AimedTask(t) /\ Knows(t, status, invited, anomalies = {}) /\ Knows(t, status', invited', anomalies' = {})
    BY <1>0, <1>1, Busy, KnowsStays DEF TypeInv, Aimed, Knowing
<1>3. CASE InviteMember(c) \/ AcceptMember(c)
    <2> DEFINE x == [t EXCEPT !.step = IF InviteMember(c) THEN "pending" ELSE "write",
                              !.sawRole = role[t.user]]
    <2>1. /\ x.op = t.op /\ x.invite = t.invite /\ x.fresh = t.fresh /\ x.user = t.user
          /\ x.sawStatus = t.sawStatus /\ x.sawRole = role[t.user]
          /\ x.step \in {"pending", "write"}
        BY <1>2 DEF Task
    <2>2. \/ task' = [task EXCEPT ![c] = Idle]
          \/ task' = [task EXCEPT ![c] = x] /\ role[t.user] = "none"
        BY <1>3 DEF InviteMember, AcceptMember, At, Proceed
    <2> HIDE DEF x
    <2>3. role[t.user] = "none" => Knows(x, status', invited', anomalies' = {})
        BY <1>1, <1>2, <2>1 DEF Knows
    <2> QED
        BY <1>0, <2>2, <2>3, KnowingGoesOn
<1>4. CASE InvitePending(c)
    <2> DEFINE x == [t EXCEPT !.step = "create", !.sawPending = {}]
    <2>1. /\ x.op = t.op /\ x.invite = t.invite /\ x.fresh = t.fresh /\ x.user = t.user
          /\ x.sawStatus = t.sawStatus /\ x.sawRole = t.sawRole /\ x.sawPending = {}
          /\ x.step = "create"
        BY <1>2 DEF Task
    <2>2. \/ task' = [task EXCEPT ![c] = Idle]
          \/ task' = [task EXCEPT ![c] = x]
        BY <1>4 DEF InvitePending, Proceed
    <2> HIDE DEF x
    <2>3. t.op = "invite" /\ t.step = "pending"
        BY <1>4 DEF InvitePending, At
    <2>4. Knows(x, status', invited', anomalies' = {})
        BY <1>2, <2>1, <2>3 DEF Knows
    <2> QED
        BY <1>0, <2>2, <2>4, KnowingGoesOn
<1>5. CASE DeleteInvite(c)
    <2> DEFINE i == t.invite
               P == PendingFor(t.user) \ {i}
               x == [t EXCEPT !.step = "create", !.sawRole = role[t.user], !.sawPending = P]
    <2>1. /\ x.op = t.op /\ x.invite = t.invite /\ x.fresh = t.fresh /\ x.user = t.user
          /\ x.sawStatus = t.sawStatus /\ x.sawRole = role[t.user] /\ x.sawPending = P
          /\ x.step = "create"
        BY <1>2 DEF Task
    <2>2. \/ task' = [task EXCEPT ![c] = Idle]
          \/ task' = [task EXCEPT ![c] = x] /\ t.op = "resend"
        BY <1>5 DEF DeleteInvite
    <2>3. ASSUME t.op = "resend", anomalies' = {}
          PROVE  role[t.user] = "none" /\ P = {}
        <3>1. i \in Invites /\ invited[i] = t.user /\ t.sawStatus = "pending"
            BY <1>1, <1>2, <2>3 DEF AimedTask, Knows
        <3>2. anomalies = {} /\ status[i] = t.sawStatus
            BY <1>5, <2>3 DEF DeleteInvite, Blame
        <3>3. Outside(t.user) /\ \A j \in Invites :
                  status[j] = "pending" /\ invited[j] = t.user => j = i
            BY <3>1, <3>2 DEF TidyInv, TidyTeam
        <3> QED
            BY <3>3 DEF Outside, PendingFor
    <2> HIDE DEF x, P
    <2>4. t.op = "resend" => Knows(x, status', invited', anomalies' = {})
        BY <1>1, <1>2, <2>1, <2>3 DEF Knows
    <2> QED
        BY <1>0, <2>2, <2>4, KnowingGoesOn
<1>6. CASE AcceptWrite(c)
    <2> DEFINE x == [t EXCEPT !.step = "join"]
    <2>1. /\ x.op = t.op /\ x.invite = t.invite /\ x.fresh = t.fresh /\ x.user = t.user
          /\ x.sawStatus = t.sawStatus /\ x.step = "join"
        BY <1>2 DEF Task
    <2>2. task' = [task EXCEPT ![c] = x]
        BY <1>6 DEF AcceptWrite, Answer
    <2> HIDE DEF x
    <2>3. Knows(x, status', invited', anomalies' = {})
        BY <1>1, <1>2, <2>1 DEF Knows
    <2> QED
        BY <1>0, <2>2, <2>3, KnowingGoesOn
<1> QED
    BY <1>3, <1>4, <1>5, <1>6

\* Every step keeps what requests know.
LEMMA KnowingStep == TidyInv /\ [Next]_vars => Knowing'
<1> SUFFICES ASSUME TidyInv, [Next]_vars PROVE Knowing'
    OBVIOUS
<1>0. TypeInv /\ Reserved /\ Knowing
    BY DEF TidyInv
<1>1. ASSUME NEW c \in Clients, task' = [task EXCEPT ![c] = Idle] PROVE Knowing'
    BY <1>0, <1>1, KnowingGoesOn
<1>2. ASSUME NEW c \in Clients,
             \/ CreateInvite(c) \/ DeclineWrite(c) \/ Join(c) \/ DeleteMember(c) \/ Fails(c)
      PROVE  Knowing'
    BY <1>1, <1>2 DEF CreateInvite, DeclineWrite, Answer, Join, DeleteMember, Fails
<1>3. CASE UNCHANGED task
    <2>1. \A d \in Clients : task[d].step # "idle" => Knows(task[d], status', invited', anomalies' = {})
        BY <1>0, KnowsStays, Busy DEF TypeInv, Aimed, Knowing
    <2>2. \A d \in Clients : task'[d].step # "idle" => Knows(task'[d], status', invited', anomalies' = {})
        BY <1>3, <2>1
    <2> QED
        BY <2>2 DEF Knowing, Knows
<1>4. CASE Crash
    BY <1>4 DEF Crash, Knowing, Knows, Idle
<1> QED
    BY <1>0, <1>2, <1>3, <1>4, KnowingStart, KnowingEdits DEF Next, Callback, Tick, vars

\* Whoever is outside stays so unless an acceptance for that person is written.
LEMMA OutsideStays ==
    ASSUME TypeInv, [Next]_vars, NEW u \in Users, Outside(u),
           \A c \in Clients : AcceptWrite(c) => task[c].user # u
    PROVE  Outside(u)'
<1>0. /\ task \in [Clients -> Task \cup {Idle}] /\ role \in [Users -> Roles]
      /\ Idle.step = "idle"
    BY DEF TypeInv, TypeOK, Idle
<1>1. role'[u] = "none"
    <2>1. ASSUME NEW c \in Clients, Join(c) PROVE role'[u] = "none"
        BY <1>0, <2>1 DEF Join, Outside
    <2>2. ASSUME NEW c \in Clients, DeleteMember(c) PROVE role'[u] = "none"
        BY <1>0, <2>2 DEF DeleteMember, Outside
    <2>3. ASSUME NEW c \in Clients,
                 \/ StartInvite(c) \/ StartRevoke(c) \/ StartResend(c)
                 \/ StartAccept(c) \/ StartDecline(c) \/ StartRemove(c)
                 \/ InviteMember(c) \/ InvitePending(c) \/ AcceptMember(c)
                 \/ CreateInvite(c) \/ DeleteInvite(c) \/ AcceptWrite(c) \/ DeclineWrite(c)
                 \/ Fails(c)
          PROVE  UNCHANGED role
        BY <2>3 DEF StartInvite, StartRevoke, StartResend, StartAccept, StartDecline,
                    StartRemove, Begin, InviteMember, InvitePending, AcceptMember, Proceed,
                    CreateInvite, DeleteInvite, AcceptWrite, DeclineWrite, Answer, Fails
    <2>4. ASSUME \/ \E kind \in Kinds, i \in Invites : Callback(kind, i)
                 \/ Crash \/ Tick \/ UNCHANGED vars
          PROVE  UNCHANGED role
        BY <2>4 DEF Callback, Crash, Tick, vars
    <2> QED
        BY <2>1, <2>2, <2>3, <2>4 DEF Next, Outside
<1>2. ASSUME NEW c \in Clients, task'[c].step = "join" PROVE task'[c].user # u
    <2>1. CASE UNCHANGED task
        BY <1>2, <2>1 DEF Outside
    <2>2. CASE task' = [d \in Clients |-> Idle]
        BY <1>0, <1>2, <2>2
    <2>3. ASSUME NEW d \in Clients, NEW x, Goes(d, x) PROVE task'[c].user # u
        BY <1>0, <1>2, <2>3 DEF Goes, Outside
    <2>4. ASSUME NEW d \in Clients, NEW x, task' = [task EXCEPT ![d] = x],
                 x.step \in Steps \ {"join"}
          PROVE  task'[c].user # u
        BY <1>0, <1>2, <2>4 DEF Outside
    <2> QED
        BY <2>1, <2>2, <2>3, <2>4, TasksChange
<1> QED
    BY <1>1, <1>2 DEF Outside

\* A step that sends no invite, and after which nobody has one to answer whose
\* acceptance it writes.
LEMMA FewerPending ==
    ASSUME TypeInv, TidyTeam, [Next]_vars,
           \A i \in Invites : status'[i] = "pending" =>
               status[i] = "pending" /\ invited'[i] = invited[i],
           \A c \in Clients : AcceptWrite(c) =>
               \A i \in Invites : status'[i] = "pending" => invited[i] # task[c].user
    PROVE  TidyTeam'
<1>1. ASSUME NEW i \in Invites, status'[i] = "pending", NEW u \in Users, invited[i] = u
      PROVE  Outside(u)'
    <2>1. Outside(u)
        BY <1>1 DEF TidyTeam
    <2>2. \A c \in Clients : AcceptWrite(c) => task[c].user # u
        BY <1>1
    <2> QED
        BY <2>1, <2>2, OutsideStays
<1>2. \A i \in Invites : status'[i] = "pending" =>
          invited[i] \in Users /\ invited'[i] = invited[i]
    BY DEF TypeInv, Addressed
<1> QED
    BY <1>1, <1>2 DEF TidyTeam, Outside

\* Until the first anomaly every step keeps the team tidy.
LEMMA TidyStep == TidyInv /\ [Next]_vars /\ anomalies' = {} => TidyTeam'
<1> SUFFICES ASSUME TidyInv, [Next]_vars, anomalies' = {} PROVE TidyTeam'
    OBVIOUS
<1>0. /\ TypeInv /\ TypeOK /\ Reserved /\ Knowing
      /\ status \in [Invites -> Statuses] /\ invited \in [Invites -> Users \cup {None}]
    BY DEF TidyInv, TypeInv, TypeOK
<1>1. anomalies = {} /\ TidyTeam
    BY <1>0, SentStays DEF TidyInv
<1>2. ASSUME NEW c \in Clients, CreateInvite(c) PROVE TidyTeam'
    <2> DEFINE u == task[c].user
               f == task[c].fresh
    <2>1. task[c].step = "create" /\ u \in Users
        BY <1>0, <1>2, Busy DEF CreateInvite
    <2>2. f \in Invites /\ task[c].sawRole = "none" /\ task[c].sawPending = {}
        BY <1>0, <1>1, <2>1 DEF Knowing, Knows
    <2>3. SettledRole[u] = "none" /\ PendingFor(u) = {}
        BY <1>2, <2>2 DEF CreateInvite, Blame
    <2>4. Outside(u) /\ \A j \in Invites : status[j] = "pending" => invited[j] # u
        BY <1>0, <2>1, <2>3, SettledNone DEF PendingFor
    <2>5. /\ status' = [status EXCEPT ![f] = "pending"]
          /\ invited' = [invited EXCEPT ![f] = u]
          /\ UNCHANGED role
          /\ task' = [task EXCEPT ![c] = Idle]
        BY <1>2 DEF CreateInvite
    <2>6. \A d \in Clients : task'[d].step = "join" =>
              task[d].step = "join" /\ task'[d].user = task[d].user
        BY <1>0, <2>5 DEF TypeOK, Idle
    <2>7. \A v : Outside(v) => role'[v] = "none" /\ \A d \in Clients :
              task'[d].step = "join" => task'[d].user # v
        BY <2>5, <2>6 DEF Outside
    <2>8. \A i \in Invites : status'[i] = "pending" => Outside(invited'[i])
        BY <1>0, <1>1, <2>2, <2>4, <2>5 DEF TidyTeam
    <2>9. \A i, j \in Invites :
              status'[i] = "pending" /\ status'[j] = "pending" /\ invited'[j] = invited'[i] => j = i
        BY <1>0, <1>1, <2>2, <2>4, <2>5 DEF TidyTeam
    <2> QED
        BY <2>7, <2>8, <2>9 DEF TidyTeam, Outside
<1>3. ASSUME NEW c \in Clients, AcceptWrite(c) PROVE TidyTeam'
    <2> DEFINE i == task[c].invite
    <2>1. /\ i \in Invites /\ invited[i] = task[c].user /\ task[c].sawStatus = "pending"
        BY <1>0, <1>3 DEF AcceptWrite, At, TypeInv, Aimed, AimedTask, Knowing, Knows
    <2>2. /\ status[i] = "pending"
          /\ status' = [status EXCEPT ![i] = "accepted"] /\ UNCHANGED invited
        BY <1>3, <2>1 DEF AcceptWrite, Answer, Blame
    <2>3. \A j \in Invites : status'[j] = "pending" =>
              status[j] = "pending" /\ j # i /\ invited[j] # invited[i]
        BY <1>0, <1>1, <2>1, <2>2 DEF TidyTeam
    <2>4. ASSUME NEW d \in Clients, AcceptWrite(d) PROVE task[d].user = task[c].user
        <3>1. task'[c].step = "join" /\ task[c].step = "write"
            BY <1>0, <1>3, Busy DEF AcceptWrite, At, Answer, TypeOK, Task
        <3>2. c # d => task'[c] = task[c]
            BY <1>0, <2>4 DEF AcceptWrite, Answer, TypeOK
        <3> QED
            BY <3>1, <3>2
    <2> QED
        BY <1>0, <1>1, <2>1, <2>2, <2>3, <2>4, FewerPending
<1>4. ASSUME \A c \in Clients : ~AcceptWrite(c),
             UNCHANGED invited,
             \A i \in Invites : status'[i] = "pending" => status[i] = "pending"
      PROVE  TidyTeam'
    BY <1>0, <1>1, <1>4, FewerPending
<1>5. ASSUME \A c \in Clients : ~AcceptWrite(c) /\ ~CreateInvite(c)
      PROVE  UNCHANGED invited /\ \A i \in Invites : status'[i] = "pending" => status[i] = "pending"
    <2>1. ASSUME NEW c \in Clients, DeleteInvite(c) \/ DeclineWrite(c)
          PROVE  UNCHANGED invited /\ \A i \in Invites : status'[i] = "pending" => status[i] = "pending"
        BY <1>0, <2>1 DEF DeleteInvite, DeclineWrite, Answer
    <2>2. ASSUME NEW c \in Clients,
                 \/ StartInvite(c) \/ StartRevoke(c) \/ StartResend(c)
                 \/ StartAccept(c) \/ StartDecline(c) \/ StartRemove(c)
                 \/ InviteMember(c) \/ InvitePending(c) \/ AcceptMember(c)
                 \/ Join(c) \/ DeleteMember(c) \/ Fails(c)
          PROVE  UNCHANGED <<status, invited>>
        BY <2>2 DEF StartInvite, StartRevoke, StartResend, StartAccept, StartDecline,
                    StartRemove, Begin, InviteMember, InvitePending, AcceptMember, Proceed,
                    Join, DeleteMember, Fails, inviteVars
    <2>3. ASSUME \/ \E kind \in Kinds, i \in Invites : Callback(kind, i)
                 \/ Crash \/ Tick \/ UNCHANGED vars
          PROVE  UNCHANGED <<status, invited>>
        BY <2>3 DEF Callback, Crash, Tick, vars, inviteVars
    <2> QED
        BY <1>5, <2>1, <2>2, <2>3 DEF Next
<1> QED
    BY <1>2, <1>3, <1>4, <1>5

\* No team but its creator, and no invites.
LEMMA TidyInit == Init => TidyInv
<1> SUFFICES ASSUME Init PROVE Knowing /\ TidyTeam
    BY TypeInit, WithdrawnInit DEF TidyInv
<1> QED
    BY DEF Init, Knowing, Knows, TidyTeam, Idle

\* Until two requests act on what no longer holds, or an acceptance stays
\* half written, nobody has two invites to answer, or one while a member or
\* about to be: for any number of administrators, owners and invites.
THEOREM TeamStaysTidy == Spec => []TidyUntilAnomaly
<1>1. TidyInv /\ [Next]_vars => TidyInv'
    BY TypeStep, ReservedStep, KnowingStep, TidyStep DEF TidyInv
<1>2. TidyInv => TidyUntilAnomaly
    BY TidyMeans DEF TidyInv, TidyUntilAnomaly
<1> QED
    BY <1>1, <1>2, TidyInit, PTL DEF Spec

-----------------------------------------------------------------------------
(* The handlers implement the atomic operations of CompanyTeam *)

OneOwner == \A u \in Users : role[u] = "owner" => u = Creator

TeamInv == TidyInv /\ OwnerStays /\ SparesCreator /\ OneOwner

\* Only joining makes members, and it makes authors.
LEMMA OneOwnerStep == TypeInv /\ OneOwner /\ [Next]_vars => OneOwner'
<1> SUFFICES ASSUME TypeInv, OneOwner, [Next]_vars PROVE OneOwner'
    OBVIOUS
<1>0. role \in [Users -> Roles]
    BY DEF TypeInv, TypeOK
<1>1. ASSUME NEW c \in Clients, Join(c) \/ DeleteMember(c) PROVE OneOwner'
    BY <1>0, <1>1 DEF Join, DeleteMember, OneOwner
<1>2. ASSUME NEW c \in Clients,
             \/ StartInvite(c) \/ StartRevoke(c) \/ StartResend(c)
             \/ StartAccept(c) \/ StartDecline(c) \/ StartRemove(c)
             \/ InviteMember(c) \/ InvitePending(c) \/ AcceptMember(c)
             \/ CreateInvite(c) \/ DeleteInvite(c) \/ AcceptWrite(c) \/ DeclineWrite(c)
             \/ Fails(c)
      PROVE  UNCHANGED role
    BY <1>2 DEF StartInvite, StartRevoke, StartResend, StartAccept, StartDecline,
                StartRemove, Begin, InviteMember, InvitePending, AcceptMember, Proceed,
                CreateInvite, DeleteInvite, AcceptWrite, DeclineWrite, Answer, Fails
<1>3. ASSUME \/ \E kind \in Kinds, i \in Invites : Callback(kind, i)
             \/ Crash \/ Tick \/ UNCHANGED vars
      PROVE  UNCHANGED role
    BY <1>3 DEF Callback, Crash, Tick, vars
<1> QED
    BY <1>1, <1>2, <1>3 DEF Next, OneOwner

\* A role is settled by the memberships and by the acceptances half written.
Joining(u) == \E c \in Clients : task[c].step = "join" /\ task[c].user = u

\* The settled role, now and after a step.
LEMMA SettledIs ==
    /\ SettledRole = [u \in Users |-> IF role[u] = "none" /\ Joining(u) THEN "author" ELSE role[u]]
    /\ SettledRole' = [u \in Users |-> IF role'[u] = "none" /\ Joining(u)' THEN "author" ELSE role'[u]]
BY DEF SettledRole, Joining

\* A step that neither writes a role nor starts or ends a join settles nothing.
LEMMA SettledStays ==
    ASSUME TypeInv, UNCHANGED role, NEW c \in Clients, NEW x, task' = [task EXCEPT ![c] = x],
           task[c].step # "join", x.step # "join"
    PROVE  UNCHANGED SettledRole
<1>1. \A d \in Clients : IF d = c THEN task'[d] = x ELSE task'[d] = task[d]
    BY DEF TypeInv, TypeOK
<1>2. \A u \in Users : Joining(u)' <=> Joining(u)
    BY <1>1 DEF Joining
<1> QED
    BY <1>2, SettledIs

TeamStep == Team!TeamNext \/ UNCHANGED Team!teamVars

\* The writes of invites.
LEMMA InviteWrites ==
    ASSUME TeamInv, [Next]_vars, anomalies' = {}, NEW c \in Clients,
           CreateInvite(c) \/ DeleteInvite(c) \/ DeclineWrite(c)
    PROVE  TeamStep
<1> DEFINE t == task[c]
           u == t.user
           i == t.invite
<1>0. /\ TypeInv /\ TypeOK /\ Reserved /\ Knowing /\ Idle.step # "join"
      /\ status \in [Invites -> Statuses]
    BY DEF TeamInv, TidyInv, TypeInv, TypeOK, Idle
<1>1. anomalies = {}
    BY <1>0, SentStays
<1>2. t.step # "idle" /\ t.step # "join"
    BY DEF CreateInvite, DeleteInvite, DeclineWrite, At
<1>3. t \in Task /\ u \in Users /\ Knows(t, status, invited, TRUE) /\ AimedTask(t)
    BY <1>0, <1>1, <1>2, Busy DEF Knowing, TypeInv, Aimed
<1>4. CASE CreateInvite(c)
    <2>1. t.fresh \in Invites /\ t.sawRole = "none" /\ t.sawPending = {}
        BY <1>3, <1>4 DEF CreateInvite, Knows
    <2>2. status[t.fresh] = "absent"
        BY <1>0, <1>2, <2>1 DEF Reserved
    <2>3. SettledRole[u] = "none" /\ PendingFor(u) = {}
        BY <1>4, <2>1 DEF CreateInvite, Blame
    <2>4. /\ status' = [status EXCEPT ![t.fresh] = "pending"]
          /\ invited' = [invited EXCEPT ![t.fresh] = u]
          /\ task' = [task EXCEPT ![c] = Idle] /\ UNCHANGED role
        BY <1>4 DEF CreateInvite
    <2>5. UNCHANGED SettledRole
        BY <1>0, <1>2, <2>4, SettledStays
    <2>6. Team!Invite(u, t.fresh)
        BY <2>2, <2>3, <2>4, <2>5 DEF Team!Invite, Team!PendingFor, PendingFor
    <2> QED
        BY <1>3, <2>1, <2>6 DEF TeamStep, Team!TeamNext
<1>5. CASE DeleteInvite(c)
    <2>1. i \in Invites
        BY <1>2, <1>3, <1>5 DEF DeleteInvite, AimedTask
    <2>2. PICK x : task' = [task EXCEPT ![c] = x] /\ x.step # "join"
        <3>1. [t EXCEPT !.step = "create", !.sawRole = role[t.user],
                        !.sawPending = PendingFor(t.user) \ {i}].step = "create"
            BY <1>3 DEF Task
        <3> QED
            BY <1>0, <1>5, <3>1 DEF DeleteInvite
    <2>3. /\ status' = [status EXCEPT ![i] = "deleted"] /\ Exists(i)
          /\ UNCHANGED <<role, invited>>
        BY <1>5 DEF DeleteInvite
    <2>4. UNCHANGED SettledRole
        BY <1>0, <1>2, <2>2, <2>3, SettledStays
    <2>5. Team!Withdraw(i)
        BY <2>3, <2>4 DEF Team!Withdraw, Exists
    <2> QED
        BY <2>1, <2>5 DEF TeamStep, Team!TeamNext
<1>6. CASE DeclineWrite(c)
    <2>1. i \in Invites /\ t.sawStatus = "pending"
        BY <1>2, <1>3, <1>6 DEF DeclineWrite, At, AimedTask, Knows
    <2>2. /\ status[i] = "pending" /\ status' = [status EXCEPT ![i] = "declined"]
          /\ task' = [task EXCEPT ![c] = Idle]
          /\ UNCHANGED <<role, invited>>
        BY <1>6, <2>1 DEF DeclineWrite, Answer, Blame
    <2>3. UNCHANGED SettledRole
        BY <1>0, <1>2, <2>2, SettledStays
    <2>4. Team!Decline(i)
        BY <2>2, <2>3 DEF Team!Decline
    <2> QED
        BY <2>1, <2>4 DEF TeamStep, Team!TeamNext
<1> QED
    BY <1>4, <1>5, <1>6

\* An acceptance happens with its first write; the second is invisible.
LEMMA AcceptanceWrites ==
    ASSUME TeamInv, [Next]_vars, anomalies' = {}, NEW c \in Clients, AcceptWrite(c) \/ Join(c)
    PROVE  TeamStep
<1> DEFINE t == task[c]
           u == t.user
           i == t.invite
<1>0. /\ TypeInv /\ TypeOK /\ Reserved /\ Knowing /\ Idle.step # "join"
      /\ status \in [Invites -> Statuses] /\ role \in [Users -> Roles]
    BY DEF TeamInv, TidyInv, TypeInv, TypeOK, Idle
<1>1. anomalies = {} /\ TidyTeam
    BY <1>0, SentStays DEF TeamInv, TidyInv
<1>2. t.step # "idle"
    BY DEF AcceptWrite, Join, At
<1>3. t \in Task /\ u \in Users /\ Knows(t, status, invited, TRUE) /\ AimedTask(t)
    BY <1>0, <1>1, <1>2, Busy DEF Knowing, TypeInv, Aimed
<1>4. CASE AcceptWrite(c)
    <2> DEFINE x == [t EXCEPT !.step = "join"]
    <2>1. x.step = "join" /\ x.user = u
        BY <1>3 DEF Task
    <2>2. task' = [task EXCEPT ![c] = x] /\ t.step = "write" /\ UNCHANGED <<role, invited>>
        BY <1>4 DEF AcceptWrite, Answer, At
    <2> HIDE DEF x
    <2>3. i \in Invites /\ invited[i] = u /\ t.sawStatus = "pending"
        BY <1>2, <1>3, <1>4 DEF AcceptWrite, At, AimedTask, Knows
    <2>4. status[i] = "pending" /\ status' = [status EXCEPT ![i] = "accepted"]
        BY <1>4, <2>3 DEF AcceptWrite, Answer, Blame
    <2>5. Outside(u)
        BY <1>1, <2>3, <2>4 DEF TidyTeam
    <2>6. \A v \in Users : Joining(v)' <=> Joining(v) \/ v = u
        <3>1. \A d \in Clients : IF d = c THEN task'[d] = x ELSE task'[d] = task[d]
            BY <1>0, <2>2 DEF TypeOK
        <3> QED
            BY <2>1, <2>2, <3>1 DEF Joining
    <2>7. SettledRole' = [SettledRole EXCEPT ![u] = "author"]
        BY <1>3, <2>2, <2>5, <2>6, SettledIs DEF Outside, Joining
    <2>8. SettledRole[u] = "none"
        BY <1>0, <1>3, <2>5, SettledNone
    <2>9. Team!Accept(i)
        BY <2>2, <2>3, <2>4, <2>7, <2>8 DEF Team!Accept
    <2> QED
        BY <2>3, <2>9 DEF TeamStep, Team!TeamNext
<1>5. CASE Join(c)
    <2>1. /\ t.step = "join" /\ role[u] = "none" /\ role' = [role EXCEPT ![u] = "author"]
          /\ task' = [task EXCEPT ![c] = Idle] /\ UNCHANGED <<status, invited>>
        BY <1>5 DEF Join, inviteVars
    <2>2. \A v \in Users \ {u} : Joining(v)' <=> Joining(v)
        <3>1. \A d \in Clients : IF d = c THEN task'[d] = Idle ELSE task'[d] = task[d]
            BY <1>0, <2>1 DEF TypeOK
        <3> QED
            BY <1>0, <2>1, <3>1 DEF Joining
    <2>3. Joining(u)
        BY <2>1 DEF Joining
    <2>4. UNCHANGED SettledRole
        BY <1>0, <1>3, <2>1, <2>2, <2>3, SettledIs
    <2> QED
        BY <2>1, <2>4 DEF TeamStep, Team!teamVars
<1> QED
    BY <1>4, <1>5

\* A removal is one, unless an acceptance half written makes it none.
LEMMA RemovalWrites ==
    ASSUME TeamInv, NEW c \in Clients, DeleteMember(c)
    PROVE  TeamStep
<1> DEFINE u == task[c].user
<1>0. /\ TypeInv /\ TypeOK /\ Idle.step # "join" /\ role \in [Users -> Roles]
    BY DEF TeamInv, TidyInv, TypeInv, TypeOK, Idle
<1>1. /\ task[c].step = "delete" /\ task[c].op = "remove" /\ role[u] # "none"
      /\ role' = [role EXCEPT ![u] = "none"] /\ task' = [task EXCEPT ![c] = Idle]
      /\ UNCHANGED <<status, invited>>
    BY DEF DeleteMember, At, inviteVars
<1>2. u \in Users /\ u # Creator
    BY <1>0, <1>1, Busy DEF TeamInv, SparesCreator
<1>3. role[u] = "author"
    BY <1>0, <1>1, <1>2 DEF TeamInv, OneOwner, Roles
<1>4. \A v \in Users : Joining(v)' <=> Joining(v)
    <2>1. \A d \in Clients : IF d = c THEN task'[d] = Idle ELSE task'[d] = task[d]
        BY <1>0, <1>1 DEF TypeOK
    <2> QED
        BY <1>0, <1>1, <2>1 DEF Joining
<1>5. SettledRole[u] = "author"
    BY <1>2, <1>3, SettledIs
<1>6. CASE Joining(u)
    <2>1. UNCHANGED SettledRole
        BY <1>0, <1>1, <1>2, <1>3, <1>4, <1>6, SettledIs
    <2> QED
        BY <1>1, <2>1 DEF TeamStep, Team!teamVars
<1>7. CASE ~Joining(u)
    <2>1. SettledRole' = [SettledRole EXCEPT ![u] = "none"]
        BY <1>0, <1>1, <1>2, <1>4, <1>7, SettledIs
    <2>2. Team!Remove(u)
        BY <1>1, <1>5, <2>1 DEF Team!Remove
    <2> QED
        BY <1>2, <2>2 DEF TeamStep, Team!TeamNext
<1> QED
    BY <1>6, <1>7

\* Checks, reads and failures that lose nothing are invisible.
LEMMA SilentSteps ==
    ASSUME TeamInv, NEW c \in Clients, anomalies' = {},
           \/ StartInvite(c) \/ StartRevoke(c) \/ StartResend(c)
           \/ StartAccept(c) \/ StartDecline(c) \/ StartRemove(c)
           \/ InviteMember(c) \/ InvitePending(c) \/ AcceptMember(c) \/ Fails(c)
    PROVE  TeamStep
<1>0. /\ TypeInv /\ TypeOK /\ Idle.step # "join" /\ Idle.step = "idle"
    BY DEF TeamInv, TidyInv, TypeInv, TypeOK, Idle
<1>1. UNCHANGED <<role, status, invited>>
    BY DEF StartInvite, StartRevoke, StartResend, StartAccept, StartDecline, StartRemove,
           Begin, InviteMember, InvitePending, AcceptMember, Proceed, Fails, inviteVars
<1>2. UNCHANGED SettledRole
    <2>1. ASSUME NEW op, NEW step \in Steps \ {"join"}, NEW r, NEW u, NEW i, NEW f,
                 Begin(c, op, step, r, u, i, f)
          PROVE  UNCHANGED SettledRole
        <3> DEFINE x == [op |-> op, step |-> step, by |-> r, user |-> u, invite |-> i,
                         fresh |-> f, sawRole |-> role[u], sawPending |-> PendingFor(u),
                         sawStatus |-> IF i = None THEN "absent" ELSE status[i]]
        <3>1. task' = [task EXCEPT ![c] = x] /\ task[c] = Idle
            BY <2>1 DEF Begin
        <3>2. x.step # "join"
            OBVIOUS
        <3> HIDE DEF x
        <3> QED
            BY <1>0, <1>1, <3>1, <3>2, SettledStays
    <2>2. CASE \/ StartInvite(c) \/ StartRevoke(c) \/ StartResend(c)
               \/ StartAccept(c) \/ StartDecline(c) \/ StartRemove(c)
        BY <2>1, <2>2 DEF StartInvite, StartRevoke, StartResend, StartAccept, StartDecline,
                          StartRemove, Steps
    <2>3. CASE InviteMember(c) \/ InvitePending(c) \/ AcceptMember(c)
        <3>1. task[c].step \in {"member", "pending"} /\ task[c] \in Task
            BY <1>0, <2>3, Busy DEF InviteMember, InvitePending, AcceptMember, At
        <3>2. \E x : task' = [task EXCEPT ![c] = x] /\ x.step # "join"
            <4>1. \A r : [task[c] EXCEPT !.step = "pending", !.sawRole = r].step = "pending"
                BY <3>1 DEF Task
            <4>2. \A r : [task[c] EXCEPT !.step = "write", !.sawRole = r].step = "write"
                BY <3>1 DEF Task
            <4>3. \A P : [task[c] EXCEPT !.step = "create", !.sawPending = P].step = "create"
                BY <3>1 DEF Task
            <4> QED
                BY <1>0, <2>3, <4>1, <4>2, <4>3
                   DEF InviteMember, InvitePending, AcceptMember, Proceed
        <3> QED
            BY <1>0, <1>1, <3>1, <3>2, SettledStays
    <2>4. CASE Fails(c)
        <3>1. /\ task' = [task EXCEPT ![c] = Idle]
              /\ task[c].step = "join" => role[task[c].user] # "none"
            BY <2>4 DEF Fails, Blame
        <3>2. \A d \in Clients : IF d = c THEN task'[d] = Idle ELSE task'[d] = task[d]
            BY <1>0, <3>1 DEF TypeOK
        <3>3. \A u \in Users : role[u] = "none" => (Joining(u)' <=> Joining(u))
            BY <1>0, <3>1, <3>2 DEF Joining
        <3> QED
            BY <1>1, <3>3, SettledIs
    <2> QED
        BY <2>2, <2>3, <2>4
<1> QED
    BY <1>1, <1>2 DEF TeamStep, Team!teamVars

\* Callbacks, the clock, and a crash that finds no acceptance half written.
LEMMA SilentWorld ==
    ASSUME TeamInv, anomalies' = {},
           \/ \E kind \in Kinds, i \in Invites : Callback(kind, i)
           \/ Crash \/ Tick \/ UNCHANGED vars
    PROVE  TeamStep
<1>1. UNCHANGED <<role, status, invited>>
    BY DEF Callback, Crash, Tick, vars, inviteVars
<1>2. CASE UNCHANGED task
    BY <1>1, <1>2 DEF TeamStep, Team!teamVars, SettledRole
<1>3. CASE Crash
    <2>1. \A c \in Clients : task[c].step = "join" => role[task[c].user] # "none"
        BY <1>3 DEF Crash, Blame
    <2>2. \A c \in Clients : task'[c].step # "join"
        BY <1>3 DEF Crash, Idle
    <2>3. \A u \in Users : role[u] = "none" => ~Joining(u) /\ ~Joining(u)'
        BY <2>1, <2>2 DEF Joining
    <2>4. UNCHANGED SettledRole
        BY <1>1, <2>3, SettledIs
    <2> QED
        BY <1>1, <2>4 DEF TeamStep, Team!teamVars
<1> QED
    BY <1>2, <1>3 DEF Callback, Tick, vars

\* The company starts with its creator and no invite.
LEMMA TeamInvInit == Init => TeamInv
BY TidyInit, OwnerInit, TypeInit DEF TeamInv, OneOwner, Init

\* Every step preserves the parts together.
LEMMA TeamInvStep == TeamInv /\ [Next]_vars => TeamInv'
<1>1. TidyInv /\ [Next]_vars => TidyInv'
    BY TypeStep, ReservedStep, KnowingStep, TidyStep DEF TidyInv
<1> QED
    BY <1>1, OwnerStep, OneOwnerStep DEF TeamInv, TidyInv

\* The team a company starts with.
LEMMA TeamStart == Init => Team!TeamInit
<1> SUFFICES ASSUME Init PROVE Team!TeamInit
    OBVIOUS
<1>1. \A u \in Users : ~Joining(u)
    BY DEF Init, Joining, Idle
<1>2. SettledRole = [u \in Users |-> IF u = Creator THEN "owner" ELSE "none"]
    BY <1>1, SettledIs DEF Init
<1> QED
    BY <1>2 DEF Init, Team!TeamInit

\* inviteAuthor, resendInvite, revokeInvite, acceptInvite, declineInvite and
\* removeMember take several statements each, interleaved at will: until the
\* first anomaly nobody can tell them from single steps of CompanyTeam.
THEOREM TeamImplemented == Spec => AtomicUntilAnomaly
<1>1. TeamInv /\ [Next]_vars => [anomalies' # {} \/ Team!TeamNext]_(Team!teamVars)
    <2> SUFFICES ASSUME TeamInv, [Next]_vars, anomalies' = {} PROVE TeamStep
        BY DEF TeamStep
    <2> QED
        BY InviteWrites, AcceptanceWrites, RemovalWrites, SilentSteps, SilentWorld DEF Next
<1> QED
    BY <1>1, TeamInvInit, TeamInvStep, TeamStart, PTL DEF Spec, AtomicUntilAnomaly
=============================================================================
