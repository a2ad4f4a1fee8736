-------------------------- MODULE EngagementLedger --------------------------
(***************************************************************************)
(* What likes, saves, views and counters promise, as if every request and  *)
(* every recount were one step.  Engagement shows under which conditions   *)
(* the multi-statement handlers amount to this.                            *)
(***************************************************************************)
EXTENDS EngagementRows

VARIABLE now

ledgerVars == <<rowVars, now>>

LedgerInit == RowsInit /\ now = 0

Open(b) == status[b] = "published"

\* Nobody reacts to a blog of their own, nor twice.
React(r) == /\ Open(r.blog) /\ r \notin reactions /\ r.person # Author[r.blog]
            /\ reactions' = reactions \cup {r}
            /\ UNCHANGED <<status, shares, views, progress, counters, now>>

Unreact(r) == /\ Open(r.blog) /\ r \in reactions
              /\ reactions' = reactions \ {r}
              /\ UNCHANGED <<status, shares, views, progress, counters, now>>

Share(b) == /\ Open(b)
            /\ shares' = [shares EXCEPT ![b] = @ + 1]
            /\ UNCHANGED <<status, reactions, views, progress, counters, now>>

See(b, a, s) ==
    /\ Open(b) /\ ~Seen(b, a, s, now)
    /\ views' = [views EXCEPT ![b] = Append(@, [address |-> a, session |-> s, at |-> now])]
    /\ UNCHANGED <<status, reactions, shares, progress, counters, now>>

\* A reader gets further.
Read(b, s) ==
    /\ Open(b) /\ progress'[b][s] # None
    /\ progress[b][s] # None => progress'[b][s].depth >= progress[b][s].depth
    /\ progress' = [progress EXCEPT ![b][s] = progress'[b][s]]
    /\ UNCHANGED <<status, reactions, shares, views, counters, now>>

Recount == \E S \in SUBSET Blogs :
    /\ \A b \in S : status[b] # "gone"
    /\ counters' = [b \in Blogs |-> IF b \in S THEN Right(b) ELSE counters[b]]
    /\ UNCHANGED <<status, reactions, shares, views, progress, now>>

Moderate(b) ==
    /\ status[b] # "gone"
    /\ \/ /\ status'[b] # "gone"
          /\ status' = [status EXCEPT ![b] = status'[b]]
          /\ UNCHANGED <<reactions, shares, views, progress, counters>>
       \/ Erased(b)
    /\ UNCHANGED now

Wait == now' = now + 1 /\ UNCHANGED rowVars

LedgerNext ==
    \/ \E r \in Reactions : React(r) \/ Unreact(r)
    \/ \E b \in Blogs :
          \/ Share(b) \/ Moderate(b)
          \/ \E s \in Sessions \cup {None}, a \in Addresses : See(b, a, s)
          \/ \E s \in Sessions : Read(b, s)
    \/ Recount
    \/ Wait

LedgerSpec == LedgerInit /\ [][LedgerNext]_ledgerVars
=============================================================================
