------------------------------ MODULE MCAccess ------------------------------
\* Access for TLC: a company of each of two people, and an administrator.
EXTENDS Access, TLC

CONSTANTS ann, bob, eve, acme, blue, b1

OwnerOf == acme :> bob @@ blue :> ann

\* ann writes for acme; her blog there is published, or nobody has begun one.
Joined == acme :> {ann} @@ blue :> {}
Begun1 == {[author |-> ann, company |-> acme, status |-> "published"]}

Slots == Permutations(Clients)

\* No step looks at what was answered last.  Whether it was nothing is kept, so
\* that every answer is also given where it is not a repetition.
Unanswered == <<dbVars, task, requests, changes, answer = Policy!Silence>>
=============================================================================
