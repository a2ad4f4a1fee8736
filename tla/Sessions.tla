------------------------------ MODULE Sessions ------------------------------
(***************************************************************************)
(* Signing in and staying signed in: AuthService's and TokenService's      *)
(* handlers for one account, statement by statement.  Accounts do not      *)
(* interact: refresh tokens, links and the count of failed logins belong   *)
(* to one user each.                                                       *)
(*                                                                         *)
(* A session is a sign-in and the refresh tokens that descend from it by   *)
(* rotation.  Handlers check a token, a link, a password or a count in one *)
(* statement and write in later ones, with nothing locked in between.      *)
(***************************************************************************)
EXTENDS Integers, FiniteSets

CONSTANTS Tokens,      \* refresh tokens that may be issued
          Links,       \* tokens that may be mailed, to reset or to verify
          None,        \* SQL NULL; no token, no link
          Clients,     \* slots for HTTP requests in progress
          Asked,       \* the operations that clients ask for
          MaxFailed,   \* maxFailedLoginAttempts
          LockTime,    \* lockMinutes
          TokenLife, LinkLife,
          MaxTime, MaxRequests, MaxFaults  \* bounds

Operations == {"login", "google", "refresh", "logout", "forgot", "reset",
               "change", "resend", "verify", "delete"}

ASSUME SessionsAssumption ==
    /\ None \notin Tokens \cup Links
    /\ IsFiniteSet(Clients)
    /\ Asked \subseteq Operations
    /\ {MaxFailed, LockTime} \subseteq Nat \ {0}
    /\ {TokenLife, LinkLife, MaxTime, MaxRequests, MaxFaults} \subseteq Nat

VARIABLES
    \* users: how often the password was set, and three columns
    password, verified, linked, deleted,
    \* refresh_tokens
    state, expires, replacedBy,
    \* password_reset_tokens and email_verification_tokens
    link, linkExpires,
    \* login_attempts; no row counts as 0, no date as 0
    failed, lockedUntil,
    \* the server processes
    task,       \* what each client's request is doing
    \* the environment
    now, requests, faults,
    \* history
    session,    \* the token that each token's session began with
    since,      \* the password that its session's sign-in checked
    ended,      \* the sessions that a logout or a revocation has ended
    uses,       \* how often each link took effect
    guesses,    \* failed logins since the last success or end of a lock
    anomalies   \* what has gone wrong so far

userVars    == <<password, verified, linked, deleted>>
tokenVars   == <<state, expires, replacedBy, session, since, ended>>
linkVars    == <<link, linkExpires, uses>>
attemptVars == <<failed, lockedUntil, guesses>>
envVars     == <<now, requests, faults>>
vars == <<userVars, tokenVars, linkVars, attemptVars, task, envVars, anomalies>>

Anomaly == {"stale_rotation",   \* the token rotated was no longer live
            "stale_password",   \* a token was issued on a password that was
                                \* replaced after the sign-in had checked it
            "stale_link",       \* a link took effect that was no longer open
            "stale_attempt",    \* the count written was not of the count there
            "lost_attempt",     \* a failed login was never counted
            "lost_revocation"}  \* a password was set, its sessions not ended

States     == {"absent", "live", "revoked"}
LinkStates == {"absent", "reset", "verify", "used"}

\* A task notes in its fields "saw..." what its statements so far have read.
Steps == {"user", "find", "record", "clear", "link", "issue", "rotate",
          "write", "revoke"}
Task == [op : Operations, step : Steps, token : Tokens \cup {None},
         link : Links \cup {None}, sawState : States, sawLink : LinkStates,
         sawPassword : Nat, sawDeleted : BOOLEAN, sawFailed : Nat]
Idle == [step |-> "idle"]

TypeOK ==
    /\ password \in Nat
    /\ verified \in BOOLEAN /\ linked \in BOOLEAN /\ deleted \in BOOLEAN
    /\ state \in [Tokens -> States]
    /\ expires \in [Tokens -> Nat]
    /\ replacedBy \in [Tokens -> Tokens \cup {None}]
    /\ link \in [Links -> LinkStates]
    /\ linkExpires \in [Links -> Nat]
    /\ failed \in Nat /\ lockedUntil \in Nat
    /\ task \in [Clients -> Task \cup {Idle}]
    /\ now \in Nat /\ requests \in Nat /\ faults \in Nat
    /\ session \in [Tokens -> Tokens \cup {None}]
    /\ since \in [Tokens -> Nat]
    /\ ended \subseteq Tokens
    /\ uses \in [Links -> Nat] /\ guesses \in Nat
    /\ anomalies \subseteq Anomaly

\* An account that has just registered with a password.
Init ==
    /\ password = 0 /\ verified = FALSE /\ linked = FALSE /\ deleted = FALSE
    /\ state = [t \in Tokens |-> "absent"]
    /\ expires = [t \in Tokens |-> 0]
    /\ replacedBy = [t \in Tokens |-> None]
    /\ link = [l \in Links |-> "absent"]
    /\ linkExpires = [l \in Links |-> 0]
    /\ failed = 0 /\ lockedUntil = 0
    /\ task = [c \in Clients |-> Idle]
    /\ now = 0 /\ requests = 0 /\ faults = 0
    /\ session = [t \in Tokens |-> None]
    /\ since = [t \in Tokens |-> 0]
    /\ ended = {}
    /\ uses = [l \in Links |-> 0] /\ guesses = 0
    /\ anomalies = {}

-----------------------------------------------------------------------------
Issued == {t \in Tokens : state[t] # "absent"}
Live   == {t \in Tokens : state[t] = "live"}

At(c, op, step) == task[c].step = step /\ task[c].op = op

Blame(why, cond) == anomalies' = IF cond THEN anomalies \cup {why} ELSE anomalies

Fault == faults < MaxFaults /\ faults' = faults + 1

Counted(op) == op \in Asked /\ requests < MaxRequests /\ requests' = requests + 1

\* A request about token t or link l passes its first checks.
Begin(c, op, step, t, l) ==
    /\ task[c] = Idle
    /\ Counted(op)
    /\ task' = [task EXCEPT ![c] =
                  [op |-> op, step |-> step, token |-> t, link |-> l,
                   sawState |-> IF t = None THEN "absent" ELSE state[t],
                   sawLink |-> IF l = None THEN "absent" ELSE link[l],
                   sawPassword |-> password, sawDeleted |-> deleted, sawFailed |-> failed]]
    /\ UNCHANGED <<userVars, tokenVars, linkVars, attemptVars, now, faults, anomalies>>

\* Task c goes on to its next step, or is done.
Goto(c, step) == task' = [task EXCEPT ![c].step = step]
Done(c)       == task' = [task EXCEPT ![c] = Idle]

-----------------------------------------------------------------------------
(* login *)

\* assertLoginAllowed
StartLogin(c) == lockedUntil <= now /\ Begin(c, "login", "user", None, None)

\* Mutant: deletedAt is not looked at.
LoginRightDeleted(c) ==
    /\ At(c, "login", "user")
    /\ task' = [task EXCEPT ![c] =
                  IF verified THEN [@ EXCEPT !.step = "clear", !.sawPassword = password,
                                             !.sawDeleted = deleted]
                  ELSE Idle]
    /\ UNCHANGED <<userVars, tokenVars, linkVars, attemptVars, envVars, anomalies>>

\* The account is read and the password that came is compared with its hash.
\* Without verification a right password is refused and not counted.
LoginRight(c) ==
    /\ At(c, "login", "user")
    /\ ~deleted
    /\ task' = [task EXCEPT ![c] =
                  IF verified THEN [@ EXCEPT !.step = "clear", !.sawPassword = password,
                                             !.sawDeleted = deleted]
                  ELSE Idle]
    /\ UNCHANGED <<userVars, tokenVars, linkVars, attemptVars, envVars, anomalies>>

\* A wrong password, or an account that is gone.
LoginWrong(c) ==
    /\ At(c, "login", "user")
    /\ Goto(c, "find")
    /\ guesses' = guesses + 1
    /\ UNCHANGED <<userVars, tokenVars, linkVars, failed, lockedUntil, envVars, anomalies>>

\* recordFailedLogin: findUnique, then upsert.
FindAttempt(c) ==
    /\ At(c, "login", "find")
    /\ task' = [task EXCEPT ![c].step = "record", ![c].sawFailed = failed]
    /\ UNCHANGED <<userVars, tokenVars, linkVars, attemptVars, envVars, anomalies>>

\* Mutants: the lock comes one failure late; no lock is a null no check expects.
LockDateLate(count)   == IF count > MaxFailed THEN now + LockTime ELSE 0
LockDateOrNull(count) == IF count >= MaxFailed THEN now + LockTime ELSE None

LockDate(count) == IF count >= MaxFailed THEN now + LockTime ELSE 0

RecordAttempt(c) ==
    LET count == task[c].sawFailed + 1
    IN  /\ At(c, "login", "record")
        /\ failed' = count
        /\ lockedUntil' = LockDate(count)
        /\ Done(c)
        /\ Blame("stale_attempt", failed # task[c].sawFailed)
        /\ UNCHANGED <<userVars, tokenVars, linkVars, guesses, envVars>>

\* resetLoginAttempt: deleteMany
ClearAttempts(c) ==
    /\ At(c, "login", "clear")
    /\ failed' = 0 /\ lockedUntil' = 0 /\ guesses' = 0
    /\ Goto(c, "issue")
    /\ UNCHANGED <<userVars, tokenVars, linkVars, envVars, anomalies>>

(* handleGoogleCallback, for an account that exists *)

StartGoogle(c) ==
    /\ ~deleted
    /\ Begin(c, "google", IF linked THEN "issue" ELSE "link", None, None)

LinkGoogle(c) ==
    /\ At(c, "google", "link")
    /\ linked' = TRUE /\ verified' = TRUE
    /\ Goto(c, "issue")
    /\ UNCHANGED <<password, deleted, tokenVars, linkVars, attemptVars, envVars, anomalies>>

\* issueRefreshToken.  A sign-in with Google rests on no password.
Issue(c) == \E t \in Tokens \ Issued :
    LET checked == IF task[c].op = "login" THEN task[c].sawPassword ELSE password
    IN  /\ task[c].step = "issue"
        /\ state' = [state EXCEPT ![t] = "live"]
        /\ expires' = [expires EXCEPT ![t] = now + TokenLife]
        /\ session' = [session EXCEPT ![t] = t]
        /\ since' = [since EXCEPT ![t] = checked]
        /\ Done(c)
        /\ Blame("stale_password", password # checked)
        /\ UNCHANGED <<userVars, replacedBy, ended, linkVars, attemptVars, envVars>>

(* refresh, logout *)

\* Mutant: revokedAt is not looked at.
RefreshableRevoked(t) == expires[t] > now /\ ~deleted

Refreshable(t) == state[t] = "live" /\ expires[t] > now /\ ~deleted

\* findByHash, with the user.  Any token that was ever issued may come back;
\* one that was revoked is taken for stolen.
StartRefresh(c) == \E t \in Issued :
    \/ state[t] = "revoked" /\ Begin(c, "refresh", "revoke", t, None)
    \/ Refreshable(t) /\ Begin(c, "refresh", "rotate", t, None)

\* Mutant: the old token stays as it is.
NotRotated(old, t) == [state EXCEPT ![t] = "live"]

Rotated(old, t) == [state EXCEPT ![t] = "live", ![old] = "revoked"]

\* rotateRefreshToken, one transaction: the old token by its id, whatever its
\* state is by now.
Rotate(c) == \E t \in Tokens \ Issued :
    LET old == task[c].token
    IN  /\ task[c].step = "rotate"
        /\ state' = Rotated(old, t)
        /\ expires' = [expires EXCEPT ![t] = now + TokenLife]
        /\ replacedBy' = [replacedBy EXCEPT ![old] = t]
        /\ session' = [session EXCEPT ![t] = session[old]]
        /\ since' = [since EXCEPT ![t] = since[old]]
        /\ Done(c)
        /\ Blame("stale_rotation", state[old] # task[c].sawState)
        /\ UNCHANGED <<userVars, ended, linkVars, attemptVars, envVars>>

\* revokeByHash: one updateMany, which passes over a token already revoked.
Logout == \E t \in Live :
    /\ Counted("logout")
    /\ state' = [state EXCEPT ![t] = "revoked"]
    /\ ended' = ended \cup {session[t]}
    /\ UNCHANGED <<userVars, expires, replacedBy, session, since, linkVars,
                   attemptVars, task, now, faults, anomalies>>

\* revokeAllForUser: the last statement of a refresh with a revoked token and
\* of every way to set a password.
RevokeAll(c) ==
    /\ task[c].step = "revoke"
    /\ state' = [t \in Tokens |-> IF state[t] = "live" THEN "revoked" ELSE state[t]]
    /\ ended' = ended \cup {session[t] : t \in Issued}
    /\ Done(c)
    /\ UNCHANGED <<userVars, expires, replacedBy, session, since, linkVars,
                   attemptVars, envVars, anomalies>>

-----------------------------------------------------------------------------
(* forgotPassword, resetPassword, changePassword, verification, deletion *)

\* The user is read before the link is created; should the account be deleted
\* or verified in between, the link is merely of less use.
SendLink(kind) == \E l \in Links :
    /\ Counted(IF kind = "reset" THEN "forgot" ELSE "resend")
    /\ ~deleted /\ (kind = "verify" => ~verified)
    /\ link[l] = "absent"
    /\ link' = [link EXCEPT ![l] = kind]
    /\ linkExpires' = [linkExpires EXCEPT ![l] = now + LinkLife]
    /\ UNCHANGED <<userVars, tokenVars, uses, attemptVars, task, now, faults, anomalies>>

Follow(c, op, l) == Begin(c, op, "write", None, l)

\* Mutant: usedAt is not looked at.
OpenAgain(l, kind) == link[l] \in {kind, "used"} /\ linkExpires[l] > now

Open(l, kind) == link[l] = kind /\ linkExpires[l] > now

StartReset(c)  == \E l \in Links : Open(l, "reset") /\ Follow(c, "reset", l)
StartVerify(c) == \E l \in Links : Open(l, "verify") /\ Follow(c, "verify", l)

\* The second half of both transactions: usedAt, by the id of the link.
UseLink(c) ==
    LET l == task[c].link
    IN  /\ link' = [link EXCEPT ![l] = "used"]
        /\ uses' = [uses EXCEPT ![l] = @ + 1]
        /\ Blame("stale_link", link[l] # task[c].sawLink)
        /\ UNCHANGED linkExpires

ResetWrite(c) ==
    /\ At(c, "reset", "write")
    /\ UseLink(c)
    /\ password' = password + 1
    /\ Goto(c, "revoke")
    /\ UNCHANGED <<verified, linked, deleted, tokenVars, attemptVars, envVars>>

VerifyWrite(c) ==
    /\ At(c, "verify", "write")
    /\ UseLink(c)
    /\ verified' = TRUE
    /\ Done(c)
    /\ UNCHANGED <<password, linked, deleted, tokenVars, attemptVars, envVars>>

\* Somebody who has signed in gives the current password; an access token
\* needs no live refresh token beside it.
StartChange(c) ==
    /\ ~deleted /\ Issued # {}
    /\ Begin(c, "change", "write", None, None)

\* Mutant: the sessions are left alone.
ChangeWriteOnly(c) ==
    /\ At(c, "change", "write")
    /\ password' = password + 1
    /\ Done(c)
    /\ UNCHANGED <<verified, linked, deleted, tokenVars, linkVars, attemptVars,
                   envVars, anomalies>>

ChangeWrite(c) ==
    /\ At(c, "change", "write")
    /\ password' = password + 1
    /\ Goto(c, "revoke")
    /\ UNCHANGED <<verified, linked, deleted, tokenVars, linkVars, attemptVars,
                   envVars, anomalies>>

\* UsersService.remove sets deletedAt; nothing takes it back.
DeleteAccount ==
    /\ Counted("delete") /\ ~deleted
    /\ deleted' = TRUE
    /\ UNCHANGED <<password, verified, linked, tokenVars, linkVars, attemptVars,
                   task, now, faults, anomalies>>

-----------------------------------------------------------------------------
(* Failures, crashes, time *)

\* What is lost with a task that does not finish.
Lost(x) ==
    (IF x.step \in {"find", "record"} THEN {"lost_attempt"} ELSE {})
    \cup (IF x.step = "revoke" /\ x.op # "refresh" THEN {"lost_revocation"} ELSE {})

\* A statement is rejected: an error response; what was written stays.
Fails(c) ==
    /\ task[c] # Idle
    /\ Fault
    /\ Done(c)
    /\ anomalies' = anomalies \cup Lost(task[c])
    /\ UNCHANGED <<userVars, tokenVars, linkVars, attemptVars, now, requests>>

Crash ==
    /\ Fault
    /\ task' = [c \in Clients |-> Idle]
    /\ anomalies' = anomalies \cup UNION {Lost(task[c]) : c \in Clients}
    /\ UNCHANGED <<userVars, tokenVars, linkVars, attemptVars, now, requests>>

Tick ==
    /\ now < MaxTime
    /\ now' = now + 1
    /\ guesses' = IF lockedUntil = now + 1 THEN 0 ELSE guesses
    /\ UNCHANGED <<userVars, tokenVars, linkVars, failed, lockedUntil, task,
                   requests, faults, anomalies>>

Next ==
    \/ \E c \in Clients :
          \/ StartLogin(c) \/ LoginRight(c) \/ LoginWrong(c)
          \/ FindAttempt(c) \/ RecordAttempt(c) \/ ClearAttempts(c)
          \/ StartGoogle(c) \/ LinkGoogle(c) \/ Issue(c)
          \/ StartRefresh(c) \/ Rotate(c) \/ RevokeAll(c)
          \/ StartReset(c) \/ ResetWrite(c)
          \/ StartVerify(c) \/ VerifyWrite(c)
          \/ StartChange(c) \/ ChangeWrite(c)
          \/ Fails(c)
    \/ Logout
    \/ \E kind \in {"reset", "verify"} : SendLink(kind)
    \/ DeleteAccount
    \/ Crash
    \/ Tick

Spec == Init /\ [][Next]_vars

-----------------------------------------------------------------------------
(* Properties *)

Without(why) == anomalies \cap why = {}

\* A session that a logout, a password or the reuse of a token has ended has
\* no usable token any more, unless a refresh that had found its token live
\* rotated it after it was revoked.
EndedStaysEnded ==
    Without({"stale_rotation"}) => \A t \in Live : session[t] \notin ended

\* With the same exception a session is a chain: at most one token of it is
\* good at a time, which nothing has replaced, and replacedBy leads from the
\* sign-in to every token (for "forensic analysis", ARCHITECTURE.md 6.5).
SessionIsChain ==
    Without({"stale_rotation"}) =>
        /\ \A t, u \in Live : session[t] = session[u] => t = u
        /\ \A t \in Live : replacedBy[t] = None
        /\ \A t \in Issued : session[t] = t
                             \/ \E p \in Issued : replacedBy[p] = t /\ session[p] = session[t]

\* A password that was changed or reset ends the sessions from before: those
\* that are left belong to the present password or are about to be revoked.
\* The exceptions are a rotation or a sign-in that spans the revocation and a
\* failure just before it.
PasswordEndsSessions ==
    Without({"stale_rotation", "stale_password", "lost_revocation"}) =>
        \A t \in Live : \/ since[t] = password
                        \/ \E c \in Clients : task[c].step = "revoke" /\ task[c].op # "refresh"

\* A deleted account gets no new token, by a password, with Google or by a
\* refresh, but from a request that had itself read it while it was not deleted.
DeletedStaysOut ==
    [][deleted /\ Live' \ Issued # {} =>
          \E c \in Clients : /\ task[c].step \in {"issue", "rotate"} /\ task'[c] = Idle
                            /\ ~task[c].sawDeleted]_vars

\* A mailed link takes effect once, unless two requests had read it as open.
LinksOnce == Without({"stale_link"}) => \A l \in Links : uses[l] <= 1

\* Requests in parallel get no more wrong passwords in than one after the
\* other, but for those that were past assertLoginAllowed when the account
\* was locked; unless one wrote a count over another's or a count was lost.
GuessesBounded ==
    Without({"stale_attempt", "lost_attempt"}) =>
        guesses <= MaxFailed - 1 + Cardinality(Clients)
=============================================================================
