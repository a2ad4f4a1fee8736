--------------------------- MODULE SessionsProofs ---------------------------
(***************************************************************************)
(* Theorems about Sessions, for any tokens, links, requests in progress    *)
(* and bounds.                                                             *)
(***************************************************************************)
EXTENDS Sessions, FiniteSetTheorems, TLAPS

-----------------------------------------------------------------------------
(* Type correctness *)

\* Sessions begin with tokens that were issued.
Rooted == /\ \A t \in Issued : session[t] \in Issued
          /\ ended \subseteq Issued

\* A request that is on its way to a token has read an account not deleted;
\* what it is about to rotate was issued (I) and read as live, and what it is
\* about to use up was read as open.
AimedTask(x, I) ==
    /\ x.step \in {"clear", "link", "issue", "rotate"} => ~x.sawDeleted
    /\ x.step = "rotate" => x.token \in I /\ x.sawState = "live"
    /\ x.step = "write" /\ x.op # "change" =>
          x.link \in Links /\ x.sawLink \in {"reset", "verify"}
Aimed == \A c \in Clients : AimedTask(task[c], Issued)

TypeInv == TypeOK /\ Rooted /\ Aimed

\* What a busy task holds.
LEMMA Busy ==
    ASSUME TypeOK, NEW c \in Clients, task[c].step # "idle"
    PROVE  /\ task[c] \in Task
           /\ task[c].token \in Tokens \cup {None} /\ task[c].link \in Links \cup {None}
           /\ task[c].sawPassword \in Nat /\ task[c].sawFailed \in Nat
BY DEF TypeOK, Task, Idle

\* A task that goes on as a task that knows its aim, or ends.
LEMMA TaskTypes ==
    ASSUME TypeOK, Aimed, NEW c \in Clients, NEW x \in Task \cup {Idle},
           task' = [task EXCEPT ![c] = x],
           Issued \subseteq Issued', AimedTask(x, Issued')
    PROVE  task' \in [Clients -> Task \cup {Idle}] /\ Aimed'
BY DEF TypeOK, Aimed, AimedTask

\* A request or a step that ends.
LEMMA DoneTypes ==
    ASSUME TypeOK, Aimed, NEW c \in Clients, Done(c), Issued \subseteq Issued'
    PROVE  task' \in [Clients -> Task \cup {Idle}] /\ Aimed'
<1>1. AimedTask(Idle, Issued')
    BY DEF AimedTask, Idle
<1> QED
    BY <1>1, TaskTypes DEF Done

\* A step that goes on to another.
LEMMA GotoTypes ==
    ASSUME TypeOK, Aimed, NEW c \in Clients, NEW s \in Steps \ {"rotate", "write"},
           s \in {"clear", "link", "issue"} => ~task[c].sawDeleted,
           task[c].step # "idle", Goto(c, s), Issued \subseteq Issued'
    PROVE  task' \in [Clients -> Task \cup {Idle}] /\ Aimed'
<1> DEFINE x == [task[c] EXCEPT !.step = s]
<1>1. x \in Task /\ x.step = s /\ x.sawDeleted = task[c].sawDeleted
    BY Busy DEF Task
<1>2. task' = [task EXCEPT ![c] = x]
    BY DEF Goto
<1>3. AimedTask(x, Issued')
    BY <1>1 DEF AimedTask
<1> HIDE DEF x
<1> QED
    BY <1>1, <1>2, <1>3, TaskTypes

\* A new request is a task.
LEMMA BeginTypes ==
    ASSUME TypeInv, NEW c \in Clients, NEW op \in Operations, NEW step \in Steps,
           NEW t \in Tokens \cup {None}, NEW l \in Links \cup {None},
           Begin(c, op, step, t, l),
           step \in {"clear", "link", "issue", "rotate"} => ~deleted,
           step = "rotate" => t \in Live,
           step = "write" /\ op # "change" => l \in Links /\ link[l] \in {"reset", "verify"}
    PROVE  TypeInv'
<1> DEFINE x == [op |-> op, step |-> step, token |-> t, link |-> l,
                 sawState |-> IF t = None THEN "absent" ELSE state[t],
                 sawLink |-> IF l = None THEN "absent" ELSE link[l],
                 sawPassword |-> password, sawDeleted |-> deleted, sawFailed |-> failed]
<1>1. x \in Task
    BY SessionsAssumption DEF TypeInv, TypeOK, Task, States, LinkStates
<1>2. Issued' = Issued /\ Rooted'
    BY DEF Begin, Issued, Rooted, TypeInv, tokenVars
<1>3. AimedTask(x, Issued')
    BY <1>2, SessionsAssumption DEF AimedTask, Live, Issued
<1>4. task' = [task EXCEPT ![c] = x]
    BY DEF Begin
<1> HIDE DEF x
<1>5. task' \in [Clients -> Task \cup {Idle}] /\ Aimed'
    BY <1>1, <1>2, <1>3, <1>4, TaskTypes DEF TypeInv
<1>6. requests' \in Nat
    BY DEF Begin, Counted, TypeInv, TypeOK
<1> QED
    BY <1>2, <1>5, <1>6
       DEF Begin, TypeInv, TypeOK, userVars, tokenVars, linkVars, attemptVars

\* An account has registered and nothing runs.
LEMMA TypeInit == Init => TypeInv
<1> SUFFICES ASSUME Init PROVE TypeInv
    OBVIOUS
<1>1. TypeOK
    BY DEF Init, TypeOK, States, LinkStates
<1>2. Issued = {} /\ Rooted
    BY DEF Init, Issued, Rooted
<1>3. Aimed
    BY DEF Init, Aimed, AimedTask, Idle
<1> QED
    BY <1>1, <1>2, <1>3 DEF TypeInv

\* A token is issued in a session that exists or that it begins.
LEMMA IssueTypes ==
    ASSUME TypeInv, NEW t \in Tokens, NEW s \in Issued \cup {t}, NEW n \in Nat, NEW g \in [Tokens -> States],
           \A u \in Tokens : g[u] = "absent" <=> state[u] = "absent",
           state' = [g EXCEPT ![t] = "live"],
           expires' = [expires EXCEPT ![t] = now + TokenLife],
           session' = [session EXCEPT ![t] = s], since' = [since EXCEPT ![t] = n],
           ended' = ended
    PROVE  /\ state' \in [Tokens -> States] /\ expires' \in [Tokens -> Nat]
           /\ session' \in [Tokens -> Tokens \cup {None}] /\ since' \in [Tokens -> Nat]
           /\ Issued \subseteq Issued' /\ t \in Issued' /\ Rooted'
<1>1. /\ state' \in [Tokens -> States] /\ expires' \in [Tokens -> Nat]
      /\ session' \in [Tokens -> Tokens \cup {None}] /\ since' \in [Tokens -> Nat]
    BY SessionsAssumption DEF TypeInv, TypeOK, States, Issued
<1>2. Issued \subseteq Issued' /\ t \in Issued'
    BY DEF Issued
<1>3. s \in Issued' /\ \A u \in Issued' : u = t \/ u \in Issued
    BY <1>2 DEF Issued, TypeInv, TypeOK
<1>4. \A u \in Issued' : session'[u] \in Issued'
    BY <1>2, <1>3 DEF TypeInv, TypeOK, Rooted, Issued
<1>5. ended' \subseteq Issued'
    BY <1>2 DEF TypeInv, Rooted
<1> QED
    BY <1>1, <1>2, <1>4, <1>5 DEF Rooted

\* A step that touches no token leaves the sessions as they are.
LEMMA TokensStay ==
    ASSUME TypeInv, UNCHANGED tokenVars
    PROVE  /\ Issued' = Issued /\ Live' = Live /\ Rooted'
           /\ state' \in [Tokens -> States] /\ expires' \in [Tokens -> Nat]
           /\ replacedBy' \in [Tokens -> Tokens \cup {None}]
           /\ session' \in [Tokens -> Tokens \cup {None}] /\ since' \in [Tokens -> Nat]
           /\ ended' \subseteq Tokens
BY DEF TypeInv, TypeOK, Rooted, Issued, Live, tokenVars

\* The requests that only begin.
LEMMA StartTypes ==
    ASSUME TypeInv, NEW c \in Clients,
           \/ StartLogin(c) \/ StartGoogle(c) \/ StartRefresh(c)
           \/ StartReset(c) \/ StartVerify(c) \/ StartChange(c)
    PROVE  TypeInv'
<1>1. CASE StartLogin(c)
    BY <1>1, BeginTypes DEF StartLogin, Operations, Steps
<1>2. CASE StartGoogle(c)
    BY <1>2, BeginTypes DEF StartGoogle, Operations, Steps
<1>3. CASE StartRefresh(c)
    <2>1. PICK t \in Issued : \/ Begin(c, "refresh", "revoke", t, None)
                             \/ /\ state[t] = "live" /\ ~deleted
                                /\ Begin(c, "refresh", "rotate", t, None)
        BY <1>3 DEF StartRefresh, Refreshable
    <2>2. t \in Tokens /\ (state[t] = "live" => t \in Live)
        BY DEF Issued, Live
    <2> QED
        BY <2>1, <2>2, BeginTypes DEF Operations, Steps
<1>4. CASE StartReset(c)
    BY <1>4, BeginTypes DEF StartReset, Open, Follow, Operations, Steps
<1>5. CASE StartVerify(c)
    BY <1>5, BeginTypes DEF StartVerify, Open, Follow, Operations, Steps
<1>6. CASE StartChange(c)
    BY <1>6, BeginTypes DEF StartChange, Operations, Steps
<1> QED
    BY <1>1, <1>2, <1>3, <1>4, <1>5, <1>6

\* The steps of a login before it issues a token.
LEMMA LoginTypes ==
    ASSUME TypeInv, NEW c \in Clients,
           \/ LoginRight(c) \/ LoginWrong(c) \/ FindAttempt(c) \/ RecordAttempt(c)
           \/ ClearAttempts(c) \/ LinkGoogle(c)
    PROVE  TypeInv'
<1>1. TypeOK /\ Rooted /\ Aimed /\ UNCHANGED tokenVars /\ UNCHANGED linkVars
    BY DEF TypeInv, LoginRight, LoginWrong, FindAttempt, RecordAttempt, ClearAttempts, LinkGoogle
<1>2. Issued' = Issued /\ Issued \subseteq Issued'
    BY <1>1, TokensStay
<1>3. task[c].step # "idle" /\ task[c] \in Task
    BY <1>1, Busy DEF LoginRight, LoginWrong, FindAttempt, RecordAttempt, ClearAttempts,
                      LinkGoogle, At
<1>4. task' \in [Clients -> Task \cup {Idle}] /\ Aimed'
    <2>1. CASE LoginRight(c)
        <3> DEFINE x == IF verified THEN [task[c] EXCEPT !.step = "clear", !.sawPassword = password,
                                                         !.sawDeleted = deleted]
                        ELSE Idle
        <3>1. x \in Task \cup {Idle} /\ x.step \in {"clear", "idle"}
            BY <1>1, <1>3 DEF TypeOK, Task, Steps, Idle
        <3>2. AimedTask(x, Issued')
            BY <1>3, <2>1, <3>1 DEF AimedTask, LoginRight, Task, Idle
        <3>3. task' = [task EXCEPT ![c] = x]
            BY <2>1 DEF LoginRight
        <3> HIDE DEF x
        <3> QED
            BY <1>1, <1>2, <3>1, <3>2, <3>3, TaskTypes
    <2>2. CASE LoginWrong(c)
        BY <1>1, <1>2, <1>3, <2>2, GotoTypes DEF LoginWrong, Steps
    <2>3. CASE FindAttempt(c)
        <3> DEFINE x == [task[c] EXCEPT !.step = "record", !.sawFailed = failed]
        <3>1. x \in Task \cup {Idle} /\ x.step = "record"
            BY <1>1, <1>3 DEF TypeOK, Task, Steps
        <3>2. AimedTask(x, Issued')
            BY <3>1 DEF AimedTask
        <3>3. task' = [task EXCEPT ![c] = x]
            BY <1>1, <2>3 DEF FindAttempt, TypeOK
        <3> HIDE DEF x
        <3> QED
            BY <1>1, <1>2, <3>1, <3>2, <3>3, TaskTypes
    <2>4. CASE RecordAttempt(c)
        BY <1>1, <1>2, <2>4, DoneTypes DEF RecordAttempt
    <2>5. CASE ClearAttempts(c)
        BY <1>1, <1>2, <1>3, <2>5, GotoTypes DEF ClearAttempts, Steps, At, Aimed, AimedTask
    <2>6. CASE LinkGoogle(c)
        BY <1>1, <1>2, <1>3, <2>6, GotoTypes DEF LinkGoogle, Steps, At, Aimed, AimedTask
    <2> QED
        BY <2>1, <2>2, <2>3, <2>4, <2>5, <2>6
<1>5. /\ failed' \in Nat /\ lockedUntil' \in Nat /\ guesses' \in Nat
      /\ anomalies' \subseteq Anomaly
      /\ password' \in Nat /\ verified' \in BOOLEAN /\ linked' \in BOOLEAN /\ deleted' \in BOOLEAN
      /\ UNCHANGED envVars
    <2>1. CASE LoginRight(c) \/ LoginWrong(c) \/ FindAttempt(c)
        BY <1>1, <2>1 DEF LoginRight, LoginWrong, FindAttempt, TypeOK, userVars, attemptVars
    <2>2. CASE RecordAttempt(c)
        <3>1. task[c].sawFailed \in Nat
            BY <1>1, <1>3, Busy
        <3> QED
            BY <1>1, <2>2, <3>1, SessionsAssumption
               DEF RecordAttempt, LockDate, Blame, Anomaly, TypeOK, userVars
    <2>3. CASE ClearAttempts(c)
        BY <1>1, <2>3 DEF ClearAttempts, TypeOK, userVars
    <2>4. CASE LinkGoogle(c)
        BY <1>1, <2>4 DEF LinkGoogle, TypeOK, attemptVars
    <2> QED
        BY <2>1, <2>2, <2>3, <2>4
<1> QED
    BY <1>1, <1>4, <1>5, TokensStay DEF TypeInv, TypeOK, linkVars, envVars

\* The steps that write tokens.
LEMMA TokenTypes ==
    ASSUME TypeInv,
           \/ \E c \in Clients : Issue(c) \/ Rotate(c) \/ RevokeAll(c)
           \/ Logout
    PROVE  TypeInv'
<1>0. TypeOK /\ Rooted /\ Aimed
    BY DEF TypeInv
<1>1. ASSUME NEW c \in Clients, Issue(c) PROVE TypeInv'
    <2> DEFINE checked == IF task[c].op = "login" THEN task[c].sawPassword ELSE password
    <2>1. PICK t \in Tokens \ Issued :
            /\ state' = [state EXCEPT ![t] = "live"]
            /\ expires' = [expires EXCEPT ![t] = now + TokenLife]
            /\ session' = [session EXCEPT ![t] = t]
            /\ since' = [since EXCEPT ![t] = checked]
            /\ Done(c)
            /\ Blame("stale_password", password # checked)
            /\ UNCHANGED <<userVars, replacedBy, ended, linkVars, attemptVars, envVars>>
        BY <1>1 DEF Issue
    <2>2. checked \in Nat
        BY <1>0, <1>1, Busy DEF Issue, TypeOK
    <2>3. /\ state' \in [Tokens -> States] /\ expires' \in [Tokens -> Nat]
          /\ session' \in [Tokens -> Tokens \cup {None}] /\ since' \in [Tokens -> Nat]
          /\ Issued \subseteq Issued' /\ Rooted'
        BY <1>0, <2>1, <2>2, IssueTypes DEF TypeOK
    <2>4. task' \in [Clients -> Task \cup {Idle}] /\ Aimed'
        BY <1>0, <2>1, <2>3, DoneTypes
    <2>5. anomalies' \subseteq Anomaly
        BY <1>0, <2>1 DEF Blame, Anomaly, TypeOK
    <2>6. ended' \subseteq Tokens /\ replacedBy' \in [Tokens -> Tokens \cup {None}]
        BY <1>0, <2>1 DEF TypeOK
    <2> QED
        BY <1>0, <2>1, <2>3, <2>4, <2>5, <2>6
           DEF TypeInv, TypeOK, userVars, linkVars, attemptVars, envVars
<1>2. ASSUME NEW c \in Clients, Rotate(c) PROVE TypeInv'
    <2> DEFINE old == task[c].token
    <2>1. PICK t \in Tokens \ Issued :
            /\ state' = Rotated(old, t)
            /\ expires' = [expires EXCEPT ![t] = now + TokenLife]
            /\ replacedBy' = [replacedBy EXCEPT ![old] = t]
            /\ session' = [session EXCEPT ![t] = session[old]]
            /\ since' = [since EXCEPT ![t] = since[old]]
            /\ Done(c)
            /\ Blame("stale_rotation", state[old] # task[c].sawState)
            /\ UNCHANGED <<userVars, ended, linkVars, attemptVars, envVars>>
        BY <1>2 DEF Rotate
    <2>2. old \in Issued /\ old \in Tokens /\ old # t
        BY <1>0, <1>2, <2>1 DEF Rotate, Aimed, AimedTask, Issued
    <2> DEFINE g == [state EXCEPT ![old] = "revoked"]
    <2>3. /\ g \in [Tokens -> States] /\ state' = [g EXCEPT ![t] = "live"]
          /\ \A u \in Tokens : g[u] = "absent" <=> state[u] = "absent"
        BY <1>0, <2>1, <2>2 DEF Rotated, TypeOK, States, Issued
    <2>4. session[old] \in Issued \cup {t} /\ since[old] \in Nat /\ ended' = ended
        BY <1>0, <2>1, <2>2 DEF Rooted, TypeOK
    <2> HIDE DEF g, old
    <2>5. /\ state' \in [Tokens -> States] /\ expires' \in [Tokens -> Nat]
          /\ session' \in [Tokens -> Tokens \cup {None}] /\ since' \in [Tokens -> Nat]
          /\ Issued \subseteq Issued' /\ Rooted'
        <3>1. /\ expires' = [expires EXCEPT ![t] = now + TokenLife]
              /\ session' = [session EXCEPT ![t] = session[old]]
              /\ since' = [since EXCEPT ![t] = since[old]]
            BY <2>1
        <3> QED
            BY <2>3, <2>4, <3>1, IssueTypes
    <2>6. task' \in [Clients -> Task \cup {Idle}] /\ Aimed'
        BY <1>0, <2>1, <2>5, DoneTypes
    <2>7. anomalies' \subseteq Anomaly
        BY <1>0, <2>1 DEF Blame, Anomaly, TypeOK
    <2>8. ended' \subseteq Tokens /\ replacedBy' \in [Tokens -> Tokens \cup {None}]
        BY <1>0, <2>1, <2>2 DEF TypeOK
    <2> QED
        BY <1>0, <2>1, <2>5, <2>6, <2>7, <2>8
           DEF TypeInv, TypeOK, userVars, linkVars, attemptVars, envVars
<1>3. ASSUME Logout \/ \E c \in Clients : RevokeAll(c) PROVE TypeInv'
    <2>1. /\ state' \in [Tokens -> States] /\ Issued' = Issued
          /\ ended' \subseteq Issued
          /\ UNCHANGED <<expires, replacedBy, session, since, userVars, linkVars, attemptVars,
                         now, faults, anomalies>>
        <3>1. CASE Logout
            BY <1>0, <1>3, <3>1 DEF Logout, TypeOK, States, Issued, Live, Rooted
        <3>2. CASE \E c \in Clients : RevokeAll(c)
            BY <1>0, <1>3, <3>2 DEF RevokeAll, TypeOK, States, Issued, Rooted, envVars
        <3> QED
            BY <1>3, <3>1, <3>2
    <2>2. Rooted' /\ ended' \subseteq Tokens
        BY <1>0, <2>1 DEF Rooted, Issued
    <2>3. task' \in [Clients -> Task \cup {Idle}] /\ Aimed' /\ requests' \in Nat
        <3>1. CASE Logout
            BY <1>0, <2>1, <3>1 DEF Logout, Counted, TypeOK, Aimed
        <3>2. ASSUME NEW c \in Clients, RevokeAll(c)
              PROVE  task' \in [Clients -> Task \cup {Idle}] /\ Aimed' /\ requests' \in Nat
            BY <1>0, <2>1, <3>2, DoneTypes DEF RevokeAll, TypeOK, envVars
        <3> QED
            BY <1>3, <3>1, <3>2
    <2> QED
        BY <1>0, <2>1, <2>2, <2>3 DEF TypeInv, TypeOK, userVars, linkVars, attemptVars
<1> QED
    BY <1>1, <1>2, <1>3

\* Links that are sent, opened and used, passwords, and the end of an account.
LEMMA AccountTypes ==
    ASSUME TypeInv,
           \/ \E c \in Clients : ResetWrite(c) \/ VerifyWrite(c) \/ ChangeWrite(c)
           \/ \E kind \in {"reset", "verify"} : SendLink(kind)
           \/ DeleteAccount
    PROVE  TypeInv'
<1>0. TypeOK /\ Rooted /\ Aimed
    BY DEF TypeInv
<1>1. UNCHANGED <<tokenVars, attemptVars, now, faults, linked>>
    <2>1. ASSUME NEW c \in Clients, ResetWrite(c) \/ VerifyWrite(c) \/ ChangeWrite(c)
          PROVE  UNCHANGED <<tokenVars, attemptVars, now, faults, linked>>
        BY <2>1 DEF ResetWrite, VerifyWrite, ChangeWrite, envVars
    <2>2. ASSUME NEW kind, SendLink(kind) PROVE UNCHANGED <<tokenVars, attemptVars, now, faults, linked>>
        BY <2>2 DEF SendLink, userVars
    <2>3. CASE DeleteAccount
        BY <2>3 DEF DeleteAccount
    <2> QED
        BY <2>1, <2>2, <2>3
<1>2. /\ Issued' = Issued /\ Issued \subseteq Issued' /\ Rooted'
    BY <1>1, TokensStay
<1>3. ASSUME NEW c \in Clients, ResetWrite(c) \/ VerifyWrite(c) \/ ChangeWrite(c)
      PROVE  TypeInv'
    <2>1. /\ task[c] \in Task /\ task[c].step = "write" /\ task[c].step # "idle"
          /\ ~ChangeWrite(c) => task[c].link \in Links
        BY <1>0, <1>3, Busy DEF ResetWrite, VerifyWrite, ChangeWrite, At, Aimed, AimedTask
    <2>2. task' \in [Clients -> Task \cup {Idle}] /\ Aimed'
        <3>1. Goto(c, "revoke") \/ Done(c)
            BY <1>3 DEF ResetWrite, VerifyWrite, ChangeWrite
        <3> QED
            BY <1>0, <1>2, <2>1, <3>1, GotoTypes, DoneTypes DEF Steps
    <2>3. /\ link' \in [Links -> LinkStates] /\ linkExpires' \in [Links -> Nat]
          /\ uses' \in [Links -> Nat] /\ anomalies' \subseteq Anomaly
        <3>1. CASE ChangeWrite(c)
            BY <1>0, <3>1 DEF ChangeWrite, TypeOK, linkVars
        <3>2. CASE UseLink(c) /\ task[c].link \in Links
            <4>1. link' \in [Links -> LinkStates] /\ linkExpires' \in [Links -> Nat]
                BY <1>0, <3>2 DEF UseLink, TypeOK, LinkStates
            <4>2. uses' \in [Links -> Nat]
                <5>1. uses' = [uses EXCEPT ![task[c].link] = uses[task[c].link] + 1]
                    BY <3>2 DEF UseLink
                <5>2. uses \in [Links -> Nat]
                    BY <1>0 DEF TypeOK
                <5> QED
                    BY <3>2, <5>1, <5>2
            <4>3. anomalies' \subseteq Anomaly
                BY <1>0, <3>2 DEF UseLink, Blame, Anomaly, TypeOK
            <4> QED
                BY <4>1, <4>2, <4>3
        <3> QED
            BY <1>3, <2>1, <3>1, <3>2 DEF ResetWrite, VerifyWrite
    <2>4. /\ password' \in Nat /\ verified' \in BOOLEAN /\ deleted' \in BOOLEAN
          /\ UNCHANGED envVars
        <3>1. CASE ResetWrite(c)
            BY <1>0, <3>1 DEF ResetWrite, TypeOK
        <3>2. CASE VerifyWrite(c)
            BY <1>0, <3>2 DEF VerifyWrite, TypeOK
        <3>3. CASE ChangeWrite(c)
            BY <1>0, <3>3 DEF ChangeWrite, TypeOK
        <3> QED
            BY <1>3, <3>1, <3>2, <3>3
    <2> QED
        BY <1>0, <1>1, <1>2, <2>2, <2>3, <2>4, TokensStay DEF TypeInv, TypeOK, attemptVars, envVars
<1>4. ASSUME NEW kind \in {"reset", "verify"}, SendLink(kind) PROVE TypeInv'
    <2>1. /\ link' \in [Links -> LinkStates] /\ linkExpires' \in [Links -> Nat]
          /\ uses' \in [Links -> Nat] /\ requests' \in Nat
          /\ UNCHANGED <<userVars, task, anomalies>>
        BY <1>0, <1>4, SessionsAssumption DEF SendLink, Counted, TypeOK, LinkStates
    <2>2. Aimed'
        BY <1>0, <1>2, <2>1 DEF Aimed
    <2> QED
        BY <1>0, <1>1, <1>2, <2>1, <2>2, TokensStay DEF TypeInv, TypeOK, attemptVars, userVars
<1>5. ASSUME DeleteAccount PROVE TypeInv'
    <2>1. /\ deleted' \in BOOLEAN /\ requests' \in Nat
          /\ UNCHANGED <<password, verified, linked, linkVars, task, anomalies>>
        BY <1>0, <1>5 DEF DeleteAccount, Counted, TypeOK
    <2>2. Aimed'
        BY <1>0, <1>2, <2>1 DEF Aimed
    <2> QED
        BY <1>0, <1>1, <1>2, <2>1, <2>2, TokensStay DEF TypeInv, TypeOK, attemptVars, linkVars
<1> QED
    BY <1>3, <1>4, <1>5

\* Failures, crashes and time.
LEMMA WorldTypes ==
    ASSUME TypeInv, (\E c \in Clients : Fails(c)) \/ Crash \/ Tick
    PROVE  TypeInv'
<1>0. TypeOK /\ Rooted /\ Aimed
    BY DEF TypeInv
<1>1. UNCHANGED <<userVars, tokenVars, linkVars, failed, lockedUntil, requests>>
    BY DEF Fails, Crash, Tick, attemptVars
<1>2. Issued' = Issued /\ Issued \subseteq Issued' /\ Rooted'
    BY <1>1, TokensStay
<1>3. \A c \in Clients : Lost(task[c]) \subseteq Anomaly
    BY DEF Lost, Anomaly
<1>4. /\ task' \in [Clients -> Task \cup {Idle}] /\ Aimed'
      /\ anomalies' \subseteq Anomaly
    <2>1. ASSUME NEW c \in Clients, Fails(c)
          PROVE  /\ task' \in [Clients -> Task \cup {Idle}] /\ Aimed'
                 /\ anomalies' \subseteq Anomaly
        BY <1>0, <1>2, <1>3, <2>1, DoneTypes DEF Fails, TypeOK
    <2>2. CASE Crash
        BY <1>0, <1>2, <1>3, <2>2 DEF Crash, TypeOK, Aimed, AimedTask, Idle
    <2>3. CASE Tick
        BY <1>0, <1>2, <2>3 DEF Tick, TypeOK, Aimed
    <2> QED
        BY <2>1, <2>2, <2>3
<1>5. now' \in Nat /\ faults' \in Nat /\ guesses' \in Nat
    BY <1>0 DEF Fails, Crash, Tick, Fault, TypeOK, attemptVars
<1> QED
    BY <1>0, <1>1, <1>2, <1>4, <1>5, TokensStay DEF TypeInv, TypeOK, userVars, linkVars

\* Every step keeps the types.
LEMMA TypeStep == TypeInv /\ [Next]_vars => TypeInv'
<1> SUFFICES ASSUME TypeInv, [Next]_vars PROVE TypeInv'
    OBVIOUS
<1>1. CASE UNCHANGED vars
    <2>1. TypeOK' /\ Issued' = Issued /\ task' = task /\ session' = session /\ ended' = ended
        BY <1>1 DEF vars, TypeInv, TypeOK, Issued, userVars, tokenVars, linkVars, attemptVars,
                    envVars
    <2> QED
        BY <2>1 DEF TypeInv, Rooted, Aimed
<1>2. CASE Next
    BY <1>2, StartTypes, LoginTypes, TokenTypes, AccountTypes, WorldTypes DEF Next
<1> QED
    BY <1>1, <1>2

\* Accounts, tokens, links, tasks and the history keep their types.
THEOREM SessionsTyped == Spec => []TypeOK
<1>1. Spec => []TypeInv
    BY TypeInit, TypeStep, PTL DEF Spec
<1>2. TypeInv => TypeOK
    BY DEF TypeInv
<1> QED
    BY <1>1, <1>2, PTL

-----------------------------------------------------------------------------
(* Sessions *)

\* Anomalies are never forgotten.
LEMMA AnomaliesStay == [Next]_vars => anomalies \subseteq anomalies'
<1> SUFFICES ASSUME [Next]_vars PROVE anomalies \subseteq anomalies'
    OBVIOUS
<1>1. ASSUME NEW c \in Clients,
             \/ StartLogin(c) \/ StartGoogle(c) \/ StartRefresh(c)
             \/ StartReset(c) \/ StartVerify(c) \/ StartChange(c)
      PROVE  anomalies \subseteq anomalies'
    BY <1>1 DEF StartLogin, StartGoogle, StartRefresh, StartReset, StartVerify, StartChange,
                Follow, Begin
<1>2. ASSUME NEW c \in Clients,
             \/ LoginRight(c) \/ LoginWrong(c) \/ FindAttempt(c) \/ RecordAttempt(c)
             \/ ClearAttempts(c) \/ LinkGoogle(c) \/ Issue(c) \/ RevokeAll(c)
      PROVE  anomalies \subseteq anomalies'
    BY <1>2 DEF LoginRight, LoginWrong, FindAttempt, RecordAttempt, ClearAttempts,
                LinkGoogle, Issue, RevokeAll, Blame
<1>3. ASSUME NEW c \in Clients, Rotate(c) PROVE anomalies \subseteq anomalies'
    BY <1>3 DEF Rotate, Blame
<1>4. ASSUME NEW c \in Clients, ResetWrite(c) \/ VerifyWrite(c) \/ ChangeWrite(c) \/ Fails(c)
      PROVE  anomalies \subseteq anomalies'
    BY <1>4 DEF ResetWrite, VerifyWrite, ChangeWrite, UseLink, Blame, Fails
<1>5. CASE Logout \/ DeleteAccount \/ Crash \/ Tick \/ UNCHANGED vars
    BY <1>5 DEF Logout, DeleteAccount, Crash, Tick, vars
<1>6. ASSUME NEW kind, SendLink(kind) PROVE anomalies \subseteq anomalies'
    BY <1>6 DEF SendLink
<1> QED
    BY <1>1, <1>2, <1>3, <1>4, <1>5, <1>6 DEF Next

\* Only four kinds of step touch the tokens.
LEMMA TokenSteps ==
    [Next]_vars => \/ \E c \in Clients : Issue(c) \/ Rotate(c) \/ RevokeAll(c)
                   \/ Logout
                   \/ UNCHANGED tokenVars
<1> SUFFICES ASSUME [Next]_vars,
                    ~ \E c \in Clients : Issue(c) \/ Rotate(c) \/ RevokeAll(c), ~Logout
             PROVE  UNCHANGED tokenVars
    OBVIOUS
<1>1. ASSUME NEW c \in Clients,
             \/ StartLogin(c) \/ StartGoogle(c) \/ StartRefresh(c)
             \/ StartReset(c) \/ StartVerify(c) \/ StartChange(c)
      PROVE  UNCHANGED tokenVars
    BY <1>1 DEF StartLogin, StartGoogle, StartRefresh, StartReset, StartVerify, StartChange,
                Follow, Begin
<1>2. ASSUME NEW c \in Clients,
             \/ LoginRight(c) \/ LoginWrong(c) \/ FindAttempt(c) \/ RecordAttempt(c)
             \/ ClearAttempts(c) \/ LinkGoogle(c)
             \/ ResetWrite(c) \/ VerifyWrite(c) \/ ChangeWrite(c) \/ Fails(c)
      PROVE  UNCHANGED tokenVars
    BY <1>2 DEF LoginRight, LoginWrong, FindAttempt, RecordAttempt, ClearAttempts,
                LinkGoogle, ResetWrite, VerifyWrite, ChangeWrite, Fails
<1>3. CASE DeleteAccount \/ Crash \/ Tick \/ UNCHANGED vars
    BY <1>3 DEF DeleteAccount, Crash, Tick, vars
<1>4. ASSUME NEW kind, SendLink(kind) PROVE UNCHANGED tokenVars
    BY <1>4 DEF SendLink
<1> QED
    BY <1>1, <1>2, <1>3, <1>4 DEF Next

\* What issuing does to tokens that were there and to the new one.
LEMMA IssueEffect ==
    ASSUME TypeInv, NEW c \in Clients, Issue(c)
    PROVE  \E t \in Tokens \ Issued :
             /\ Live' = Live \cup {t} /\ Issued' = Issued \cup {t}
             /\ session'[t] = t
             /\ \A u \in Tokens \ {t} : session'[u] = session[u] /\ since'[u] = since[u]
             /\ since'[t] = (IF task[c].op = "login" THEN task[c].sawPassword ELSE password)
             /\ since'[t] # password => "stale_password" \in anomalies'
             /\ UNCHANGED <<replacedBy, ended, password, deleted>>
             /\ Done(c) /\ task[c].step = "issue" /\ ~task[c].sawDeleted
<1>1. PICK t \in Tokens \ Issued : Issue(c)!(t)
    BY DEF Issue
<1> DEFINE checked == IF task[c].op = "login" THEN task[c].sawPassword ELSE password
<1>2. /\ state \in [Tokens -> States] /\ session \in [Tokens -> Tokens \cup {None}]
      /\ since \in [Tokens -> Nat]
    BY DEF TypeInv, TypeOK
<1>3. Live' = Live \cup {t} /\ Issued' = Issued \cup {t}
    BY <1>1, <1>2 DEF Live, Issued
<1>4. /\ session'[t] = t /\ since'[t] = checked
      /\ \A u \in Tokens \ {t} : session'[u] = session[u] /\ since'[u] = since[u]
    BY <1>1, <1>2
<1>5. checked # password => "stale_password" \in anomalies'
    BY <1>1 DEF Blame
<1>6. ~task[c].sawDeleted
    BY <1>1 DEF TypeInv, Aimed, AimedTask
<1> QED
    BY <1>1, <1>3, <1>4, <1>5, <1>6 DEF userVars

\* What rotation does; without a stale one, a live token gives way to another.
LEMMA RotateEffect ==
    ASSUME TypeInv, NEW c \in Clients, Rotate(c)
    PROVE  LET old == task[c].token
           IN  /\ old \in Issued
               /\ task[c].step = "rotate" /\ Done(c) /\ ~task[c].sawDeleted
               /\ old \notin Live => "stale_rotation" \in anomalies'
               /\ UNCHANGED <<ended, password, deleted>>
               /\ \E t \in Tokens \ Issued :
                    /\ Live' = (Live \ {old}) \cup {t} /\ Issued' = Issued \cup {t}
                    /\ session'[t] = session[old] /\ since'[t] = since[old]
                    /\ replacedBy'[old] = t
                    /\ \A u \in Tokens \ {old} : replacedBy'[u] = replacedBy[u]
                    /\ \A u \in Tokens \ {t} : session'[u] = session[u] /\ since'[u] = since[u]
<1> DEFINE old == task[c].token
<1>1. PICK t \in Tokens \ Issued :
        /\ task[c].step = "rotate"
        /\ state' = Rotated(old, t)
        /\ replacedBy' = [replacedBy EXCEPT ![old] = t]
        /\ session' = [session EXCEPT ![t] = session[old]]
        /\ since' = [since EXCEPT ![t] = since[old]]
        /\ Done(c)
        /\ state[old] # task[c].sawState => "stale_rotation" \in anomalies'
        /\ UNCHANGED <<ended, password, deleted>>
    BY DEF Rotate, Blame, userVars
<1>2. old \in Issued /\ old \in Tokens /\ old # t
      /\ task[c].sawState = "live" /\ ~task[c].sawDeleted
    BY <1>1 DEF TypeInv, Aimed, AimedTask, Issued
<1>3. /\ state \in [Tokens -> States] /\ session \in [Tokens -> Tokens \cup {None}]
      /\ since \in [Tokens -> Nat] /\ replacedBy \in [Tokens -> Tokens \cup {None}]
    BY DEF TypeInv, TypeOK
<1>4. old \notin Live => "stale_rotation" \in anomalies'
    BY <1>1, <1>2 DEF Live
<1> HIDE DEF old
<1>5. Live' = (Live \ {old}) \cup {t} /\ Issued' = Issued \cup {t}
    BY <1>1, <1>2, <1>3 DEF Rotated, Live, Issued
<1>6. /\ session'[t] = session[old] /\ since'[t] = since[old] /\ replacedBy'[old] = t
      /\ \A u \in Tokens \ {old} : replacedBy'[u] = replacedBy[u]
      /\ \A u \in Tokens \ {t} : session'[u] = session[u] /\ since'[u] = since[u]
    BY <1>1, <1>2, <1>3
<1> QED
    BY <1>1, <1>2, <1>4, <1>5, <1>6 DEF old

\* Revoking and logging out take tokens from the live ones and end sessions.
LEMMA RevokeEffect ==
    ASSUME TypeInv, Logout \/ \E c \in Clients : RevokeAll(c)
    PROVE  /\ Live' \subseteq Live /\ Issued' = Issued
           /\ UNCHANGED <<session, since, replacedBy, password, deleted, anomalies>>
           /\ (\E c \in Clients : RevokeAll(c)) => Live' = {}
           /\ Logout => /\ task' = task
                        /\ \E t \in Live : Live' = Live \ {t} /\ ended' = ended \cup {session[t]}
<1>1. state \in [Tokens -> States]
    BY DEF TypeInv, TypeOK
<1>2. CASE Logout
    <2>1. PICK t \in Live : /\ state' = [state EXCEPT ![t] = "revoked"]
                           /\ ended' = ended \cup {session[t]}
        BY <1>2 DEF Logout
    <2>2. Live' = Live \ {t} /\ Issued' = Issued
        BY <1>1, <2>1 DEF Live, Issued
    <2>3. (\E c \in Clients : RevokeAll(c)) => Live' = {}
        BY <1>1 DEF RevokeAll, Live
    <2> QED
        BY <1>2, <2>1, <2>2, <2>3 DEF Logout, userVars
<1>3. ASSUME NEW c \in Clients, RevokeAll(c)
      PROVE  /\ Live' = {} /\ Issued' = Issued
             /\ UNCHANGED <<session, since, replacedBy, password, deleted, anomalies>>
    BY <1>1, <1>3 DEF RevokeAll, Live, Issued, userVars
<1> QED
    BY <1>2, <1>3

\* Tokens that are not issued yet are replaced by none.
Fresh == \A t \in Tokens \ Issued : replacedBy[t] = None

ChainInv == TypeInv /\ Fresh /\ SessionIsChain /\ EndedStaysEnded

\* A sign-in begins a session of its own.
LEMMA IssueChains ==
    ASSUME ChainInv, NEW c \in Clients, Issue(c), anomalies \subseteq anomalies'
    PROVE  Fresh' /\ SessionIsChain' /\ EndedStaysEnded'
<1>0. TypeInv /\ Fresh /\ SessionIsChain /\ EndedStaysEnded
    BY DEF ChainInv
<1>1. PICK t \in Tokens \ Issued :
        /\ Live' = Live \cup {t} /\ Issued' = Issued \cup {t}
        /\ session'[t] = t
        /\ \A u \in Tokens \ {t} : session'[u] = session[u]
        /\ UNCHANGED <<replacedBy, ended>>
    BY <1>0, IssueEffect
<1>2. /\ Live \subseteq Issued /\ Issued \subseteq Tokens
      /\ ended \subseteq Issued /\ \A u \in Issued : session[u] \in Issued
    BY <1>0 DEF Live, Issued, TypeInv, Rooted
<1>3. \A u \in Issued : u # t /\ session'[u] = session[u] /\ session[u] # t
    BY <1>1, <1>2
<1>4. Fresh'
    BY <1>0, <1>1 DEF Fresh
<1>5. ASSUME Without({"stale_rotation"})'
      PROVE  /\ \A u \in Live' : session'[u] \notin ended' /\ replacedBy'[u] = None
             /\ \A u, v \in Live' : session'[u] = session'[v] => u = v
             /\ \A u \in Issued' : session'[u] = u
                  \/ \E p \in Issued' : replacedBy'[p] = u /\ session'[p] = session'[u]
    <2>1. /\ \A u \in Live : session[u] \notin ended /\ replacedBy[u] = None
          /\ \A u, v \in Live : session[u] = session[v] => u = v
          /\ \A u \in Issued : session[u] = u
                  \/ \E p \in Issued : replacedBy[p] = u /\ session[p] = session[u]
        BY <1>0, <1>5 DEF Without, SessionIsChain, EndedStaysEnded
    <2>2. \A u \in Live' : session'[u] \notin ended' /\ replacedBy'[u] = None
        BY <1>0, <1>1, <1>2, <1>3, <2>1 DEF Fresh
    <2>3. \A u, v \in Live' : session'[u] = session'[v] => u = v
        BY <1>1, <1>2, <1>3, <2>1
    <2>4. ASSUME NEW u \in Issued'
          PROVE  session'[u] = u \/ \E p \in Issued' : replacedBy'[p] = u /\ session'[p] = session'[u]
        <3>1. CASE u = t
            BY <1>1, <3>1
        <3>2. CASE u \in Issued
            BY <1>1, <1>3, <2>1, <3>2
        <3> QED
            BY <1>1, <3>1, <3>2
    <2> QED
        BY <2>2, <2>3, <2>4
<1> QED
    BY <1>4, <1>5 DEF SessionIsChain, EndedStaysEnded

\* A rotation makes its session's chain longer by one token.
LEMMA RotateChains ==
    ASSUME ChainInv, NEW c \in Clients, Rotate(c), anomalies \subseteq anomalies'
    PROVE  Fresh' /\ SessionIsChain' /\ EndedStaysEnded'
<1> DEFINE old == task[c].token
<1>0. TypeInv /\ Fresh /\ SessionIsChain /\ EndedStaysEnded
    BY DEF ChainInv
<1>1. /\ old \in Issued /\ (old \notin Live => "stale_rotation" \in anomalies')
      /\ ended' = ended
    BY <1>0, RotateEffect
<1>2. PICK t \in Tokens \ Issued :
        /\ Live' = (Live \ {old}) \cup {t} /\ Issued' = Issued \cup {t}
        /\ session'[t] = session[old]
        /\ replacedBy'[old] = t
        /\ \A u \in Tokens \ {old} : replacedBy'[u] = replacedBy[u]
        /\ \A u \in Tokens \ {t} : session'[u] = session[u]
    BY <1>0, RotateEffect
<1> HIDE DEF old
<1>3. Live \subseteq Issued /\ Issued \subseteq Tokens
    BY DEF Live, Issued
<1>4. t # old /\ \A u \in Issued : u # t /\ session'[u] = session[u]
    BY <1>1, <1>2, <1>3
<1>5. Fresh'
    BY <1>0, <1>1, <1>2 DEF Fresh
<1>6. ASSUME Without({"stale_rotation"})'
      PROVE  /\ \A u \in Live' : session'[u] \notin ended' /\ replacedBy'[u] = None
             /\ \A u, v \in Live' : session'[u] = session'[v] => u = v
             /\ \A u \in Issued' : session'[u] = u
                  \/ \E p \in Issued' : replacedBy'[p] = u /\ session'[p] = session'[u]
    <2>1. /\ \A u \in Live : session[u] \notin ended /\ replacedBy[u] = None
          /\ \A u, v \in Live : session[u] = session[v] => u = v
          /\ \A u \in Issued : session[u] = u
                  \/ \E p \in Issued : replacedBy[p] = u /\ session[p] = session[u]
        BY <1>0, <1>6 DEF Without, SessionIsChain, EndedStaysEnded
    <2>2. old \in Live
        BY <1>1, <1>6 DEF Without
    <2>3. \A u \in Live' : session'[u] \notin ended' /\ replacedBy'[u] = None
        BY <1>0, <1>1, <1>2, <1>3, <1>4, <2>1, <2>2 DEF Fresh
    <2>4. \A u, v \in Live' : session'[u] = session'[v] => u = v
        BY <1>2, <1>3, <1>4, <2>1, <2>2
    <2>5. ASSUME NEW u \in Issued'
          PROVE  session'[u] = u \/ \E p \in Issued' : replacedBy'[p] = u /\ session'[p] = session'[u]
        <3>1. CASE u = t
            BY <1>1, <1>2, <1>4, <3>1
        <3>2. CASE u \in Issued
            <4>1. CASE session[u] = u
                BY <1>4, <3>2, <4>1
            <4>2. ASSUME NEW p \in Issued, replacedBy[p] = u, session[p] = session[u]
                  PROVE  \E q \in Issued' : replacedBy'[q] = u /\ session'[q] = session'[u]
                <5>1. p # old
                    BY <1>3, <2>1, <2>2, <3>2, <4>2, SessionsAssumption
                <5> QED
                    BY <1>2, <1>3, <1>4, <3>2, <4>2, <5>1
            <4> QED
                BY <2>1, <3>2, <4>1, <4>2
        <3> QED
            BY <1>2, <3>1, <3>2
    <2> QED
        BY <2>3, <2>4, <2>5
<1> QED
    BY <1>5, <1>6 DEF SessionIsChain, EndedStaysEnded

\* A revocation ends sessions and leaves no live token in them.
LEMMA RevokeChains ==
    ASSUME ChainInv, Logout \/ \E c \in Clients : RevokeAll(c)
    PROVE  Fresh' /\ SessionIsChain' /\ EndedStaysEnded'
<1>0. TypeInv /\ Fresh /\ SessionIsChain /\ EndedStaysEnded
    BY DEF ChainInv
<1>1. /\ Live' \subseteq Live /\ Issued' = Issued
      /\ UNCHANGED <<session, replacedBy, anomalies>>
    BY <1>0, RevokeEffect
<1>2. Fresh' /\ SessionIsChain'
    BY <1>0, <1>1 DEF Fresh, SessionIsChain, Without
<1>3. EndedStaysEnded'
    <2>1. CASE Live' = {}
        BY <2>1 DEF EndedStaysEnded
    <2>2. ASSUME NEW t \in Live, Live' = Live \ {t}, ended' = ended \cup {session[t]}
          PROVE  EndedStaysEnded'
        BY <1>0, <1>1, <2>2 DEF EndedStaysEnded, SessionIsChain, Without
    <2> QED
        BY <1>0, <2>1, <2>2, RevokeEffect
<1> QED
    BY <1>2, <1>3

\* Every step keeps the sessions chains and the ended ones ended.
LEMMA ChainStep == ChainInv /\ [Next]_vars => ChainInv'
<1> SUFFICES ASSUME ChainInv, [Next]_vars PROVE ChainInv'
    OBVIOUS
<1>1. TypeInv' /\ anomalies \subseteq anomalies'
    BY TypeStep, AnomaliesStay DEF ChainInv
<1>2. CASE UNCHANGED tokenVars
    <2>1. /\ Issued' = Issued /\ Live' = Live
          /\ UNCHANGED <<session, replacedBy, ended>>
        BY <1>2, TokensStay DEF ChainInv, tokenVars
    <2>2. Without({"stale_rotation"})' => Without({"stale_rotation"})
        BY <1>1 DEF Without
    <2> QED
        BY <1>1, <2>1, <2>2 DEF ChainInv, Fresh, SessionIsChain, EndedStaysEnded
<1> QED
    BY <1>1, <1>2, TokenSteps, IssueChains, RotateChains, RevokeChains DEF ChainInv

\* Sessions begin empty.
LEMMA ChainInit == Init => ChainInv
<1> SUFFICES ASSUME Init PROVE ChainInv
    OBVIOUS
<1>1. Issued = {} /\ Live = {}
    BY DEF Init, Issued, Live
<1>2. Fresh /\ SessionIsChain /\ EndedStaysEnded
    BY <1>1 DEF Init, Fresh, SessionIsChain, EndedStaysEnded
<1> QED
    BY <1>2, TypeInit DEF ChainInv

\* Unless a rotation was stale, a session that was ended has no live token.
THEOREM SessionsEnd == Spec => []EndedStaysEnded
<1>1. Spec => []ChainInv
    BY ChainInit, ChainStep, PTL DEF Spec
<1>2. ChainInv => EndedStaysEnded
    BY DEF ChainInv
<1> QED
    BY <1>1, <1>2, PTL

\* Unless a rotation was stale, a session is a chain with one token to use.
THEOREM SessionsAreChains == Spec => []SessionIsChain
<1>1. Spec => []ChainInv
    BY ChainInit, ChainStep, PTL DEF Spec
<1>2. ChainInv => SessionIsChain
    BY DEF ChainInv
<1> QED
    BY <1>1, <1>2, PTL

-----------------------------------------------------------------------------
(* Passwords *)

\* A request that has set the password has yet to end the sessions.
RevokesSoon(x) == x.step = "revoke" /\ x.op # "refresh"
Pending == \E c \in Clients : RevokesSoon(task[c])

\* A task in its place and the others as they were.
LEMMA OthersStay ==
    ASSUME TypeOK, NEW c \in Clients, NEW d \in Clients, RevokesSoon(task[d]),
           NEW x, task' = [task EXCEPT ![c] = x], task[c].step # "revoke"
    PROVE  RevokesSoon(task'[d])
BY DEF TypeOK, RevokesSoon

\* A request about to revoke stays so until it does or is lost.
LEMMA PendingStays ==
    ASSUME TypeOK, [Next]_vars, Pending, ~ \E c \in Clients : RevokeAll(c),
           "lost_revocation" \notin anomalies'
    PROVE  Pending'
<1>1. PICK d \in Clients : RevokesSoon(task[d])
    BY DEF Pending
<1> SUFFICES RevokesSoon(task'[d])
    BY DEF Pending
<1>2. ASSUME NEW c \in Clients,
             \/ StartLogin(c) \/ StartGoogle(c) \/ StartRefresh(c)
             \/ StartReset(c) \/ StartVerify(c) \/ StartChange(c)
      PROVE  RevokesSoon(task'[d])
    <2>1. task[c].step # "revoke" /\ \E x : task' = [task EXCEPT ![c] = x]
        BY <1>2 DEF StartLogin, StartGoogle, StartRefresh, StartReset, StartVerify,
                    StartChange, Follow, Begin, Idle
    <2> QED
        BY <1>1, <2>1, OthersStay
<1>3. ASSUME NEW c \in Clients,
             \/ LoginRight(c) \/ LoginWrong(c) \/ RecordAttempt(c)
             \/ ClearAttempts(c) \/ LinkGoogle(c)
      PROVE  RevokesSoon(task'[d])
    <2>1. task[c].step # "revoke"
        BY <1>3 DEF LoginRight, LoginWrong, RecordAttempt, ClearAttempts, LinkGoogle, At
    <2>2. \E x : task' = [task EXCEPT ![c] = x]
        BY <1>3 DEF LoginRight, LoginWrong, RecordAttempt, ClearAttempts, LinkGoogle,
                    Goto, Done
    <2> QED
        BY <1>1, <2>1, <2>2, OthersStay
<1>4. ASSUME NEW c \in Clients, FindAttempt(c) PROVE RevokesSoon(task'[d])
    <2>1. task[c].step # "revoke" /\ c # d
        BY <1>1, <1>4 DEF FindAttempt, At, RevokesSoon
    <2> QED
        BY <1>1, <1>4, <2>1 DEF FindAttempt, TypeOK, RevokesSoon
<1>5. ASSUME NEW c \in Clients, Issue(c) \/ Rotate(c) PROVE RevokesSoon(task'[d])
    <2>1. task[c].step # "revoke" /\ Done(c)
        BY <1>5 DEF Issue, Rotate
    <2> QED
        BY <1>1, <2>1, OthersStay DEF Done
<1>6. ASSUME NEW c \in Clients, ResetWrite(c) \/ VerifyWrite(c) \/ ChangeWrite(c)
      PROVE  RevokesSoon(task'[d])
    <2>1. task[c].step # "revoke" /\ \E x : task' = [task EXCEPT ![c] = x]
        BY <1>6 DEF ResetWrite, VerifyWrite, ChangeWrite, At, Goto, Done
    <2> QED
        BY <1>1, <2>1, OthersStay
<1>7. ASSUME NEW c \in Clients, Fails(c) PROVE RevokesSoon(task'[d])
    <2>1. c # d
        BY <1>1, <1>7 DEF Fails, Lost, RevokesSoon
    <2> QED
        BY <1>1, <1>7, <2>1 DEF Fails, Done, TypeOK, RevokesSoon
<1>8. CASE Crash
    <2>1. Lost(task[d]) \subseteq anomalies'
        BY <1>8 DEF Crash
    <2> QED
        BY <1>1, <2>1 DEF Lost, RevokesSoon
<1>9. CASE Logout \/ DeleteAccount \/ Tick \/ UNCHANGED vars
    <2>1. task' = task
        BY <1>9 DEF Logout, DeleteAccount, Tick, vars
    <2> QED
        BY <1>1, <2>1
<1>10. ASSUME NEW kind, SendLink(kind) PROVE RevokesSoon(task'[d])
    BY <1>1, <1>10 DEF SendLink
<1> QED
    BY <1>2, <1>3, <1>4, <1>5, <1>6, <1>7, <1>8, <1>9, <1>10 DEF Next

\* Whoever sets the password goes on to revoke.
LEMMA PasswordSteps == ASSUME TypeOK, [Next]_vars PROVE UNCHANGED password \/ Pending'
<1>1. ASSUME NEW c \in Clients,
             \/ StartLogin(c) \/ StartGoogle(c) \/ StartRefresh(c)
             \/ StartReset(c) \/ StartVerify(c) \/ StartChange(c)
      PROVE  UNCHANGED password
    BY <1>1 DEF StartLogin, StartGoogle, StartRefresh, StartReset, StartVerify, StartChange,
                Follow, Begin, userVars
<1>2. ASSUME NEW c \in Clients,
             \/ LoginRight(c) \/ LoginWrong(c) \/ FindAttempt(c) \/ RecordAttempt(c)
             \/ ClearAttempts(c) \/ LinkGoogle(c) \/ Issue(c) \/ Rotate(c) \/ RevokeAll(c)
             \/ VerifyWrite(c) \/ Fails(c)
      PROVE  UNCHANGED password
    BY <1>2 DEF LoginRight, LoginWrong, FindAttempt, RecordAttempt, ClearAttempts, LinkGoogle,
                Issue, Rotate, RevokeAll, VerifyWrite, Fails, userVars
<1>3. ASSUME NEW c \in Clients, ResetWrite(c) \/ ChangeWrite(c) PROVE Pending'
    <2>1. /\ Goto(c, "revoke") /\ task[c].step # "idle"
          /\ task[c].op \in {"reset", "change"}
        BY <1>3 DEF ResetWrite, ChangeWrite, At
    <2>2. task[c] \in Task
        BY <2>1, Busy
    <2>3. RevokesSoon(task'[c])
        BY <2>1, <2>2 DEF Goto, RevokesSoon, TypeOK, Task
    <2> QED
        BY <2>3 DEF Pending
<1>4. CASE Logout \/ DeleteAccount \/ Crash \/ Tick \/ UNCHANGED vars
    BY <1>4 DEF Logout, DeleteAccount, Crash, Tick, vars, userVars
<1>5. ASSUME NEW kind, SendLink(kind) PROVE UNCHANGED password
    BY <1>5 DEF SendLink, userVars
<1> QED
    BY <1>1, <1>2, <1>3, <1>4, <1>5 DEF Next

Excused == {"stale_rotation", "stale_password", "lost_revocation"}

\* Every step leaves the sessions of old passwords about to end.
LEMMA PasswordStep ==
    ASSUME TypeInv, PasswordEndsSessions, [Next]_vars
    PROVE  PasswordEndsSessions'
<1> SUFFICES ASSUME Without(Excused)', ~Pending', NEW t \in Live'
             PROVE  since'[t] = password'
    BY DEF PasswordEndsSessions, Excused, Pending, RevokesSoon
<1>1. TypeOK /\ Without(Excused) /\ password' = password
    BY AnomaliesStay, PasswordSteps DEF TypeInv, Without
<1>2. "lost_revocation" \notin anomalies' /\ "stale_password" \notin anomalies'
      /\ "stale_rotation" \notin anomalies'
    BY DEF Without, Excused
<1>3. Pending \/ \A u \in Live : since[u] = password
    BY <1>1 DEF PasswordEndsSessions, Excused, Pending, RevokesSoon
<1>4. CASE \E c \in Clients : RevokeAll(c)
    BY <1>4, RevokeEffect
<1>5. CASE ~ \E c \in Clients : RevokeAll(c)
    <2>1. \A u \in Live : since[u] = password
        BY <1>1, <1>2, <1>3, <1>5, PendingStays
    <2>2. Live \subseteq Issued /\ Issued \subseteq Tokens
        BY DEF Live, Issued
    <2>3. ASSUME NEW c \in Clients, Issue(c) PROVE since'[t] = password
        <3>1. PICK n \in Tokens \ Issued :
                /\ Live' = Live \cup {n}
                /\ \A u \in Tokens \ {n} : since'[u] = since[u]
                /\ since'[n] # password => "stale_password" \in anomalies'
            BY <2>3, IssueEffect
        <3> QED
            BY <1>2, <2>1, <2>2, <3>1
    <2>4. ASSUME NEW c \in Clients, Rotate(c) PROVE since'[t] = password
        <3> DEFINE old == task[c].token
        <3>1. old \notin Live => "stale_rotation" \in anomalies'
            BY <2>4, RotateEffect
        <3>2. PICK n \in Tokens \ Issued :
                /\ Live' = (Live \ {old}) \cup {n}
                /\ since'[n] = since[old]
                /\ \A u \in Tokens \ {n} : since'[u] = since[u]
            BY <2>4, RotateEffect
        <3> HIDE DEF old
        <3> QED
            BY <1>2, <2>1, <2>2, <3>1, <3>2
    <2>5. CASE Logout
        BY <1>1, <2>1, <2>5, RevokeEffect
    <2>6. CASE UNCHANGED tokenVars
        BY <1>1, <2>1, <2>6, TokensStay DEF tokenVars
    <2> QED
        BY <1>1, <1>5, <2>3, <2>4, <2>5, <2>6, TokenSteps
<1> QED
    BY <1>4, <1>5

\* Setting the password ends the sessions from before, or is about to, unless
\* another request had read a token or the account before it.
THEOREM PasswordsEndSessions == Spec => []PasswordEndsSessions
<1>1. Init => TypeInv /\ PasswordEndsSessions
    BY TypeInit DEF Init, PasswordEndsSessions, Live
<1>2. TypeInv /\ PasswordEndsSessions /\ [Next]_vars => (TypeInv /\ PasswordEndsSessions)'
    BY TypeStep, PasswordStep
<1> QED
    BY <1>1, <1>2, PTL DEF Spec

-----------------------------------------------------------------------------
(* Deleted accounts and mailed links *)

\* A request that issues a token has read an account that was not deleted.
LEMMA DeletedStep ==
    ASSUME TypeInv, [Next]_vars, Live' \ Issued # {}
    PROVE  \E c \in Clients : /\ task[c].step \in {"issue", "rotate"} /\ task'[c] = Idle
                             /\ ~task[c].sawDeleted
<1>1. task \in [Clients -> Task \cup {Idle}]
    BY DEF TypeInv, TypeOK
<1>2. ASSUME NEW c \in Clients, Issue(c) \/ Rotate(c)
      PROVE  /\ task[c].step \in {"issue", "rotate"} /\ task'[c] = Idle
             /\ ~task[c].sawDeleted
    BY <1>1, <1>2, IssueEffect, RotateEffect DEF Done
<1>3. Live \subseteq Issued
    BY DEF Live, Issued
<1>4. ~Logout /\ ~ \E c \in Clients : RevokeAll(c)
    BY <1>3, RevokeEffect
<1>5. ~UNCHANGED tokenVars
    BY <1>3, TokensStay
<1> QED
    BY <1>2, <1>4, <1>5, TokenSteps

\* A deleted account stays out, whichever way a request comes, but for a
\* request that had itself read the account before it was deleted.
THEOREM DeletedGetNoTokens == Spec => DeletedStaysOut
<1>1. TypeInv /\ [Next]_vars =>
          [deleted /\ Live' \ Issued # {} =>
              \E c \in Clients : /\ task[c].step \in {"issue", "rotate"} /\ task'[c] = Idle
                                /\ ~task[c].sawDeleted]_vars
    BY DeletedStep
<1> QED
    BY <1>1, TypeInit, TypeStep, PTL DEF Spec, DeletedStaysOut

\* A link that is not used up has not taken effect.
UnusedLinks == \A l \in Links : link[l] # "used" => uses[l] = 0

\* Links are created, or used up by the two transactions that read them.
LEMMA LinkSteps ==
    [Next]_vars => \/ \E c \in Clients : /\ UseLink(c)
                                         /\ task[c].step = "write" /\ task[c].op # "change"
                   \/ \E kind \in {"reset", "verify"} : SendLink(kind)
                   \/ UNCHANGED linkVars
<1> SUFFICES ASSUME [Next]_vars,
                    ~ \E c \in Clients : /\ UseLink(c)
                                         /\ task[c].step = "write" /\ task[c].op # "change",
                    ~ \E kind \in {"reset", "verify"} : SendLink(kind)
             PROVE  UNCHANGED linkVars
    OBVIOUS
<1>1. ASSUME NEW c \in Clients,
             \/ StartLogin(c) \/ StartGoogle(c) \/ StartRefresh(c)
             \/ StartReset(c) \/ StartVerify(c) \/ StartChange(c)
      PROVE  UNCHANGED linkVars
    BY <1>1 DEF StartLogin, StartGoogle, StartRefresh, StartReset, StartVerify, StartChange,
                Follow, Begin
<1>2. ASSUME NEW c \in Clients,
             \/ LoginRight(c) \/ LoginWrong(c) \/ FindAttempt(c) \/ RecordAttempt(c)
             \/ ClearAttempts(c) \/ LinkGoogle(c) \/ Issue(c) \/ Rotate(c) \/ RevokeAll(c)
             \/ ChangeWrite(c) \/ Fails(c)
      PROVE  UNCHANGED linkVars
    BY <1>2 DEF LoginRight, LoginWrong, FindAttempt, RecordAttempt, ClearAttempts, LinkGoogle,
                Issue, Rotate, RevokeAll, ChangeWrite, Fails
<1>3. ASSUME NEW c \in Clients, ResetWrite(c) \/ VerifyWrite(c) PROVE FALSE
    <2>1. UseLink(c) /\ task[c].step = "write" /\ task[c].op \in {"reset", "verify"}
        BY <1>3 DEF ResetWrite, VerifyWrite, At
    <2> QED
        BY <2>1
<1>4. CASE Logout \/ DeleteAccount \/ Crash \/ Tick \/ UNCHANGED vars
    BY <1>4 DEF Logout, DeleteAccount, Crash, Tick, vars
<1> QED
    BY <1>1, <1>2, <1>3, <1>4 DEF Next

\* Every step keeps links from taking effect again.
LEMMA LinkStep ==
    ASSUME TypeInv, UnusedLinks, LinksOnce, [Next]_vars
    PROVE  UnusedLinks' /\ LinksOnce'
<1>0. /\ link \in [Links -> LinkStates] /\ uses \in [Links -> Nat]
      /\ Without({"stale_link"})' => Without({"stale_link"})
    BY AnomaliesStay DEF TypeInv, TypeOK, Without
<1>1. ASSUME NEW c \in Clients, UseLink(c), task[c].step = "write", task[c].op # "change"
      PROVE  UnusedLinks' /\ LinksOnce'
    <2> DEFINE l == task[c].link
    <2>1. l \in Links /\ task[c].sawLink \in {"reset", "verify"}
        BY <1>1 DEF TypeInv, Aimed, AimedTask
    <2>2. /\ link' = [link EXCEPT ![l] = "used"] /\ uses' = [uses EXCEPT ![l] = uses[l] + 1]
          /\ link[l] # task[c].sawLink => "stale_link" \in anomalies'
        BY <1>1 DEF UseLink, Blame
    <2> HIDE DEF l
    <2>3. UnusedLinks'
        BY <1>0, <2>1, <2>2 DEF UnusedLinks
    <2>4. ASSUME Without({"stale_link"})', NEW k \in Links PROVE uses'[k] <= 1
        <3>1. link[l] # "used" /\ uses[l] = 0
            BY <2>1, <2>2, <2>4 DEF Without, UnusedLinks
        <3>2. uses[k] <= 1
            BY <1>0, <2>4 DEF LinksOnce
        <3> QED
            BY <1>0, <2>1, <2>2, <3>1, <3>2
    <2> QED
        BY <2>3, <2>4 DEF LinksOnce
<1>2. ASSUME NEW kind \in {"reset", "verify"}, SendLink(kind)
      PROVE  UnusedLinks' /\ LinksOnce'
    <2>1. /\ uses' = uses /\ anomalies' = anomalies
          /\ \E l \in Links : link[l] = "absent" /\ link' = [link EXCEPT ![l] = kind]
        BY <1>2 DEF SendLink
    <2> QED
        BY <1>0, <2>1 DEF UnusedLinks, LinksOnce, Without
<1>3. CASE UNCHANGED linkVars
    BY <1>0, <1>3 DEF UnusedLinks, LinksOnce, linkVars
<1> QED
    BY <1>1, <1>2, <1>3, LinkSteps

\* Unless two requests had read it as open, a mailed link takes effect once.
THEOREM LinksTakeEffectOnce == Spec => []LinksOnce
<1>1. Init => TypeInv /\ UnusedLinks /\ LinksOnce
    BY TypeInit DEF Init, UnusedLinks, LinksOnce
<1>2. TypeInv /\ UnusedLinks /\ LinksOnce /\ [Next]_vars => (TypeInv /\ UnusedLinks /\ LinksOnce)'
    BY TypeStep, LinkStep
<1> QED
    BY <1>1, <1>2, PTL DEF Spec

-----------------------------------------------------------------------------
(* The lockout *)

\* Logins let in by assertLoginAllowed, and failures still to be counted.
Admitted  == {c \in Clients : task[c].step = "user"}
Uncounted == {c \in Clients : task[c].step \in {"find", "record"}}

\* How many requests there are of both kinds.
LEMMA LoginsFit ==
    /\ IsFiniteSet(Clients) /\ IsFiniteSet(Admitted) /\ IsFiniteSet(Uncounted)
    /\ Cardinality(Clients) \in Nat
    /\ Cardinality(Admitted) \in Nat /\ Cardinality(Uncounted) \in Nat
    /\ Cardinality(Admitted) <= Cardinality(Clients)
    /\ \A c \in Clients : task[c] = Idle =>
          Cardinality(Admitted) + Cardinality(Uncounted) + 1 <= Cardinality(Clients)
<1>1. IsFiniteSet(Clients) /\ Admitted \subseteq Clients /\ Uncounted \subseteq Clients
    BY SessionsAssumption DEF Admitted, Uncounted
<1>2. /\ IsFiniteSet(Admitted) /\ IsFiniteSet(Uncounted)
      /\ Cardinality(Clients) \in Nat
      /\ Cardinality(Admitted) \in Nat /\ Cardinality(Uncounted) \in Nat
      /\ Cardinality(Admitted) <= Cardinality(Clients)
    BY <1>1, FS_Subset, FS_CardinalityType
<1>3. ASSUME NEW c \in Clients, task[c] = Idle
      PROVE  Cardinality(Admitted) + Cardinality(Uncounted) + 1 <= Cardinality(Clients)
    <2> DEFINE B == Admitted \cup Uncounted
    <2>1. Admitted \cap Uncounted = {} /\ c \notin B /\ B \cup {c} \subseteq Clients
        BY <1>3 DEF Admitted, Uncounted, Idle
    <2>2. /\ IsFiniteSet(B)
          /\ Cardinality(B) = Cardinality(Admitted) + Cardinality(Uncounted) - Cardinality({})
        BY <1>2, <2>1, FS_Union
    <2>3. Cardinality({}) = 0
        BY FS_EmptySet
    <2> HIDE DEF B
    <2>4. Cardinality(B \cup {c}) = Cardinality(B) + 1
        BY <2>1, <2>2, FS_AddElement
    <2>5. Cardinality(B \cup {c}) <= Cardinality(Clients)
        BY <1>1, <2>1, FS_Subset
    <2> QED
        BY <1>2, <2>2, <2>3, <2>4, <2>5
<1> QED
    BY <1>1, <1>2, <1>3

\* Wrong passwords are counted or about to be; once a lock has expired only
\* the latter are left; and those let in fit in what one lock allows.
Tally ==
    /\ guesses <= failed + Cardinality(Uncounted)
    /\ failed >= MaxFailed /\ lockedUntil <= now => guesses <= Cardinality(Uncounted)
    /\ guesses + Cardinality(Admitted) <= MaxFailed - 1 + Cardinality(Clients)

Miscount == {"stale_attempt", "lost_attempt"}
TallyInv == Without(Miscount) => Tally

\* The steps that have no part in the count: no login is let in, and no
\* failure leaves it uncounted.
OutsideTally ==
    /\ UNCHANGED <<failed, lockedUntil, guesses, now>>
    /\ Admitted' \subseteq Admitted
    /\ Uncounted' = Uncounted \/ "lost_attempt" \in anomalies'

\* Task c goes to step s and the others stay.
Moves(c, s) == task'[c].step = s /\ \A d \in Clients \ {c} : task'[d] = task[d]

\* How tasks move when they begin, go on or end.
LEMMA BeginMoves ==
    ASSUME TypeOK, NEW c \in Clients, NEW op, NEW s, NEW t, NEW l, Begin(c, op, s, t, l)
    PROVE  /\ task[c].step = "idle" /\ Moves(c, s)
           /\ UNCHANGED <<failed, lockedUntil, guesses, now>>
BY DEF Begin, Moves, TypeOK, Idle, attemptVars

\* The same of a task that goes on.
LEMMA GotoMoves ==
    ASSUME TypeOK, NEW c \in Clients, NEW s, task[c].step # "idle", Goto(c, s)
    PROVE  Moves(c, s)
BY Busy DEF Goto, Moves, TypeOK, Task

\* The same of a task that ends.
LEMMA DoneMoves == ASSUME TypeOK, NEW c \in Clients, Done(c) PROVE Moves(c, "idle")
BY DEF Done, Moves, TypeOK, Idle

\* A task that is and becomes none of those two kinds.
LEMMA MovesOutside ==
    ASSUME NEW c \in Clients, NEW s, Moves(c, s),
           task[c].step \notin {"user", "find", "record"},
           s \notin {"user", "find", "record"},
           UNCHANGED <<failed, lockedUntil, guesses, now>>
    PROVE  OutsideTally
BY DEF Moves, Admitted, Uncounted, OutsideTally

\* What a step does to the count.
LEMMA TallySteps ==
    ASSUME TypeOK, [Next]_vars
    PROVE  \/ \E c \in Clients : \/ StartLogin(c) \/ LoginRight(c) \/ LoginWrong(c)
                                 \/ RecordAttempt(c) \/ ClearAttempts(c)
           \/ Tick \/ OutsideTally
<1>1. ASSUME NEW c \in Clients,
             \/ StartGoogle(c) \/ StartRefresh(c)
             \/ StartReset(c) \/ StartVerify(c) \/ StartChange(c)
      PROVE  OutsideTally
    <2>1. ASSUME NEW op, NEW s \in {"issue", "link", "revoke", "rotate", "write"}, NEW t, NEW l,
                 Begin(c, op, s, t, l)
          PROVE  OutsideTally
        BY <2>1, BeginMoves, MovesOutside
    <2>2. CASE StartGoogle(c)
        BY <2>1, <2>2 DEF StartGoogle
    <2>3. CASE StartRefresh(c)
        BY <2>1, <2>3 DEF StartRefresh
    <2>4. CASE StartReset(c)
        BY <2>1, <2>4 DEF StartReset, Follow
    <2>5. CASE StartVerify(c)
        BY <2>1, <2>5 DEF StartVerify, Follow
    <2>6. CASE StartChange(c)
        BY <2>1, <2>6 DEF StartChange
    <2> QED
        BY <1>1, <2>2, <2>3, <2>4, <2>5, <2>6
<1>2. ASSUME NEW c \in Clients,
             \/ LinkGoogle(c) \/ Issue(c) \/ Rotate(c) \/ RevokeAll(c)
             \/ ResetWrite(c) \/ VerifyWrite(c) \/ ChangeWrite(c)
      PROVE  OutsideTally
    <2>1. task[c].step \in {"link", "issue", "rotate", "revoke", "write"}
        BY <1>2 DEF LinkGoogle, Issue, Rotate, RevokeAll, ResetWrite, VerifyWrite, ChangeWrite, At
    <2>2. UNCHANGED <<failed, lockedUntil, guesses, now>>
        BY <1>2 DEF LinkGoogle, Issue, Rotate, RevokeAll, ResetWrite, VerifyWrite, ChangeWrite,
                    attemptVars, envVars
    <2>3. Done(c) \/ Goto(c, "issue") \/ Goto(c, "revoke")
        BY <1>2 DEF LinkGoogle, Issue, Rotate, RevokeAll, ResetWrite, VerifyWrite, ChangeWrite
    <2> QED
        BY <2>1, <2>2, <2>3, GotoMoves, DoneMoves, MovesOutside
<1>3. ASSUME NEW c \in Clients, FindAttempt(c) PROVE OutsideTally
    <2>1. task[c].step = "find" /\ task[c] \in Task
        BY <1>3, Busy DEF FindAttempt, At
    <2>2. /\ \A d \in Clients \ {c} : task'[d] = task[d]
          /\ task'[c].step = "record"
        BY <1>3, <2>1 DEF FindAttempt, TypeOK, Task
    <2>3. Admitted' = Admitted /\ Uncounted' = Uncounted
        BY <2>1, <2>2 DEF Admitted, Uncounted
    <2> QED
        BY <1>3, <2>3 DEF FindAttempt, OutsideTally, attemptVars, envVars
<1>4. ASSUME NEW c \in Clients, Fails(c) PROVE OutsideTally
    <2>1. \A d \in Clients \ {c} : task'[d] = task[d]
        BY <1>4 DEF Fails, Done, TypeOK
    <2>2. task'[c].step = "idle"
        BY <1>4 DEF Fails, Done, TypeOK, Idle
    <2>3. Admitted' \subseteq Admitted
        BY <2>1, <2>2 DEF Admitted
    <2>4. CASE task[c].step \in {"find", "record"}
        BY <1>4, <2>3, <2>4 DEF Fails, Lost, OutsideTally, attemptVars
    <2>5. CASE task[c].step \notin {"find", "record"}
        <3>1. Uncounted' = Uncounted
            BY <2>1, <2>2, <2>5 DEF Uncounted
        <3> QED
            BY <1>4, <2>3, <3>1 DEF Fails, OutsideTally, attemptVars
    <2> QED
        BY <2>4, <2>5
<1>5. CASE Crash
    <2>1. Admitted' = {} /\ Uncounted' = {}
        BY <1>5 DEF Crash, Admitted, Uncounted, Idle
    <2>2. Uncounted = {} \/ "lost_attempt" \in anomalies'
        BY <1>5 DEF Crash, Lost, Uncounted
    <2> QED
        BY <1>5, <2>1, <2>2 DEF Crash, OutsideTally, attemptVars
<1>6. ASSUME \/ Logout \/ DeleteAccount \/ UNCHANGED vars
             \/ \E kind \in {"reset", "verify"} : SendLink(kind)
      PROVE  OutsideTally
    <2>1. UNCHANGED <<attemptVars, task, now>>
        BY <1>6 DEF Logout, DeleteAccount, SendLink, vars, envVars
    <2> QED
        BY <2>1 DEF OutsideTally, Admitted, Uncounted, attemptVars
<1> QED
    BY <1>1, <1>2, <1>3, <1>4, <1>5, <1>6 DEF Next

\* One request goes from one kind to another.
LEMMA KindsMove ==
    ASSUME NEW c \in Clients, NEW s, Moves(c, s)
    PROVE  /\ Admitted' = IF s = "user" THEN Admitted \cup {c} ELSE Admitted \ {c}
           /\ Uncounted' = IF s \in {"find", "record"} THEN Uncounted \cup {c}
                           ELSE Uncounted \ {c}
           /\ c \in Admitted <=> task[c].step = "user"
           /\ c \in Uncounted <=> task[c].step \in {"find", "record"}
BY DEF Moves, Admitted, Uncounted

\* Every step keeps the count in bounds.
LEMMA TallyStep == ASSUME TypeOK, TallyInv, [Next]_vars PROVE TallyInv'
<1> SUFFICES ASSUME Without(Miscount)' PROVE Tally'
    BY DEF TallyInv
<1>1. /\ Tally /\ "stale_attempt" \notin anomalies' /\ "lost_attempt" \notin anomalies'
    BY AnomaliesStay DEF TallyInv, Without, Miscount
<1>2. /\ guesses \in Nat /\ failed \in Nat /\ lockedUntil \in Nat /\ now \in Nat
      /\ MaxFailed \in Nat \ {0} /\ LockTime \in Nat \ {0}
    BY SessionsAssumption DEF TypeOK
<1> DEFINE a == Cardinality(Admitted)
           u == Cardinality(Uncounted)
           n == Cardinality(Clients)
<1>3. a \in Nat /\ u \in Nat /\ n \in Nat /\ a <= n
    BY LoginsFit
<1>4. /\ guesses <= failed + u
      /\ failed >= MaxFailed /\ lockedUntil <= now => guesses <= u
      /\ guesses + a <= MaxFailed - 1 + n
    BY <1>1 DEF Tally
<1>5. ASSUME NEW c \in Clients, StartLogin(c) PROVE Tally'
    <2>1. lockedUntil <= now /\ task[c] = Idle
        BY <1>5 DEF StartLogin, Begin
    <2>2. Moves(c, "user") /\ UNCHANGED <<failed, lockedUntil, guesses, now>>
        BY <1>5, BeginMoves DEF StartLogin
    <2>3. Admitted' = Admitted \cup {c} /\ Uncounted' = Uncounted
        BY <2>1, <2>2, KindsMove DEF Idle
    <2>4. Cardinality(Admitted') = a + 1
        <3>1. c \notin Admitted
            BY <2>1 DEF Admitted, Idle
        <3> QED
            BY <2>3, <3>1, LoginsFit, FS_AddElement
    <2>5. Cardinality(Admitted') \in Nat
        BY <1>3, <2>4
    <2>6. a + u + 1 <= n
        BY <2>1, LoginsFit
    <2> HIDE DEF a, u, n
    <2>7. guesses + a + 1 <= MaxFailed - 1 + n
        BY <1>2, <1>3, <1>4, <2>1, <2>6
    <2> QED
        BY <1>2, <1>3, <1>4, <2>1, <2>2, <2>3, <2>4, <2>5, <2>7 DEF Tally, a, u, n
<1>6. ASSUME NEW c \in Clients, LoginRight(c) PROVE Tally'
    <2>1. task[c].step = "user" /\ UNCHANGED <<failed, lockedUntil, guesses, now>>
        BY <1>6 DEF LoginRight, At, attemptVars, envVars
    <2>2. Moves(c, "clear") \/ Moves(c, "idle")
        BY <1>6, <2>1, Busy DEF LoginRight, Moves, Task, Idle, TypeOK
    <2>3. Admitted' = Admitted \ {c} /\ Uncounted' = Uncounted
        BY <2>1, <2>2, KindsMove
    <2>4. Cardinality(Admitted') \in Nat /\ Cardinality(Admitted') <= a
        BY <1>3, <2>3, LoginsFit, FS_Subset, FS_CardinalityType
    <2> QED
        BY <1>2, <1>3, <1>4, <2>1, <2>3, <2>4 DEF Tally
<1>7. ASSUME NEW c \in Clients, LoginWrong(c) PROVE Tally'
    <2>1. task[c].step = "user" /\ guesses' = guesses + 1 /\ UNCHANGED <<failed, lockedUntil, now>>
        BY <1>7 DEF LoginWrong, At, envVars
    <2>2. Moves(c, "find")
        BY <1>7, <2>1, GotoMoves DEF LoginWrong
    <2>3. /\ Admitted' = Admitted \ {c} /\ Uncounted' = Uncounted \cup {c}
          /\ c \in Admitted /\ c \notin Uncounted
        BY <2>1, <2>2, KindsMove
    <2>4. Cardinality(Admitted') = a - 1 /\ Cardinality(Uncounted') = u + 1
        BY <2>3, LoginsFit, FS_AddElement, FS_RemoveElement
    <2> QED
        BY <1>2, <1>3, <1>4, <2>1, <2>4 DEF Tally
<1>8. ASSUME NEW c \in Clients, RecordAttempt(c) PROVE Tally'
    <2>1. /\ task[c].step = "record" /\ failed = task[c].sawFailed
          /\ failed' = failed + 1 /\ lockedUntil' = LockDate(failed + 1)
          /\ UNCHANGED <<guesses, now>> /\ Done(c)
        BY <1>1, <1>8 DEF RecordAttempt, Blame, At, envVars
    <2>2. Admitted' = Admitted /\ Uncounted' = Uncounted \ {c} /\ c \in Uncounted
        BY <2>1, DoneMoves, KindsMove
    <2>3. Cardinality(Uncounted') = u - 1
        BY <2>2, LoginsFit, FS_RemoveElement
    <2>4. failed' >= MaxFailed => lockedUntil' > now
        BY <1>2, <2>1 DEF LockDate
    <2>5. lockedUntil' \in Nat
        BY <1>2, <2>1 DEF LockDate
    <2> QED
        BY <1>2, <1>3, <1>4, <2>1, <2>2, <2>3, <2>4, <2>5 DEF Tally
<1>9. ASSUME NEW c \in Clients, ClearAttempts(c) PROVE Tally'
    <2>1. failed' = 0 /\ guesses' = 0 /\ task[c].step = "clear" /\ now' = now
        BY <1>9 DEF ClearAttempts, At, envVars
    <2>2. Moves(c, "issue")
        BY <1>9, <2>1, GotoMoves DEF ClearAttempts
    <2>3. Admitted' = Admitted /\ Uncounted' = Uncounted
        BY <2>1, <2>2, KindsMove
    <2> QED
        BY <1>2, <1>3, <2>1, <2>3 DEF Tally
<1>10. CASE Tick
    <2>1. /\ now' = now + 1 /\ UNCHANGED <<failed, lockedUntil, task>>
          /\ guesses' = IF lockedUntil = now + 1 THEN 0 ELSE guesses
        BY <1>10 DEF Tick
    <2>2. Admitted' = Admitted /\ Uncounted' = Uncounted
        BY <2>1 DEF Admitted, Uncounted
    <2> QED
        BY <1>2, <1>3, <1>4, <2>1, <2>2 DEF Tally
<1>11. CASE OutsideTally
    <2>1. /\ UNCHANGED <<failed, lockedUntil, guesses, now>>
          /\ Admitted' \subseteq Admitted /\ Uncounted' = Uncounted
        BY <1>1, <1>11 DEF OutsideTally
    <2>2. Cardinality(Admitted') \in Nat /\ Cardinality(Admitted') <= a
        BY <1>3, <2>1, LoginsFit, FS_Subset, FS_CardinalityType
    <2> QED
        BY <1>2, <1>3, <1>4, <2>1, <2>2 DEF Tally
<1> QED
    BY <1>5, <1>6, <1>7, <1>8, <1>9, <1>10, <1>11, TallySteps

\* However many requests run in parallel, and whatever the instance's bounds,
\* no more wrong passwords get in than a lock allows beyond those already let
\* in, unless a failure was counted over another or lost.
THEOREM GuessesAreBounded == Spec => []GuessesBounded
<1>1. Init => TypeInv /\ TallyInv
    <2> SUFFICES ASSUME Init PROVE TallyInv
        BY TypeInit
    <2>1. Admitted = {} /\ Uncounted = {}
        BY DEF Init, Admitted, Uncounted, Idle
    <2> QED
        BY <2>1, LoginsFit, FS_EmptySet, SessionsAssumption DEF Init, TallyInv, Tally
<1>2. TypeInv /\ TallyInv /\ [Next]_vars => (TypeInv /\ TallyInv)'
    BY TypeStep, TallyStep DEF TypeInv
<1>3. TypeInv /\ TallyInv => GuessesBounded
    <2> SUFFICES ASSUME TypeInv, Tally
                 PROVE  guesses <= MaxFailed - 1 + Cardinality(Clients)
        BY DEF TallyInv, GuessesBounded, Miscount
    <2> QED
        BY LoginsFit, SessionsAssumption DEF Tally, TypeInv, TypeOK
<1> QED
    BY <1>1, <1>2, <1>3, PTL DEF Spec
=============================================================================
