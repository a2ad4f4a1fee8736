---------------------------- MODULE CompanyTeam ----------------------------
(***************************************************************************)
(* What a company's team and its invites promise, each operation in one    *)
(* step: a person is invited once at a time, and only while not a member;  *)
(* an invite is answered once; whoever accepts is a member from then on.   *)
(***************************************************************************)
CONSTANTS Users,    \* persons, known by their email address
          Invites,  \* identifiers (and tokens) that invites may get
          Creator,  \* who created the company
          None      \* the addressee of an invite that was never sent

VARIABLES role,     \* company_memberships: each person's role, or "none"
          status,   \* company_invites.status, or whether the row is there
          invited   \* company_invites.invitedEmail

teamVars == <<role, status, invited>>

Roles    == {"none", "author", "owner"}
Statuses == {"absent", "pending", "accepted", "declined", "deleted"}

PendingFor(u) == {i \in Invites : status[i] = "pending" /\ invited[i] = u}

TeamInit == /\ role = [u \in Users |-> IF u = Creator THEN "owner" ELSE "none"]
            /\ status = [i \in Invites |-> "absent"]
            /\ invited = [i \in Invites |-> None]

Invite(u, i) == /\ role[u] = "none" /\ PendingFor(u) = {}
                /\ status[i] = "absent"
                /\ status' = [status EXCEPT ![i] = "pending"]
                /\ invited' = [invited EXCEPT ![i] = u]
                /\ UNCHANGED role

Accept(i) == /\ status[i] = "pending" /\ role[invited[i]] = "none"
             /\ status' = [status EXCEPT ![i] = "accepted"]
             /\ role' = [role EXCEPT ![invited[i]] = "author"]
             /\ UNCHANGED invited

Decline(i) == /\ status[i] = "pending"
              /\ status' = [status EXCEPT ![i] = "declined"]
              /\ UNCHANGED <<role, invited>>

\* Revoking; also the first half of resending, which then invites anew.
Withdraw(i) == /\ status[i] \notin {"absent", "deleted"}
               /\ status' = [status EXCEPT ![i] = "deleted"]
               /\ UNCHANGED <<role, invited>>

Remove(u) == /\ role[u] = "author"
             /\ role' = [role EXCEPT ![u] = "none"]
             /\ UNCHANGED <<status, invited>>

TeamNext == \/ \E i \in Invites : \/ \E u \in Users : Invite(u, i)
                                  \/ Accept(i) \/ Decline(i) \/ Withdraw(i)
            \/ \E u \in Users : Remove(u)

TeamSpec == TeamInit /\ [][TeamNext]_teamVars

\* Nobody is invited twice at a time, or while already a member.
Tidy == \A u \in Users : \A i \in PendingFor(u) :
            PendingFor(u) = {i} /\ role[u] = "none"
=============================================================================
