----------------------------- MODULE BlogCatalog -----------------------------
(***************************************************************************)
(* What the blog lifecycle promises, as if every operation checked its     *)
(* precondition, wrote the row and moved the tag counters in one step.     *)
(* BlogLifecycle shows under which conditions the multi-statement handlers *)
(* amount to this.                                                         *)
(***************************************************************************)
EXTENDS BlogRows

VARIABLES now,     \* the clock
          row,     \* blogs and blog_tags
          count    \* tags.blogCount

catalogVars == <<now, row, count>>

CatalogInit == /\ now = 0
               /\ row = [b \in Blogs |-> NoRow("absent")]
               /\ count = [t \in Tags |-> 0]

\* The counters of T move by n while blog b becomes r.
Become(b, r, T, n) ==
    /\ row' = [row EXCEPT ![b] = r]
    /\ count' = [t \in Tags |-> IF t \in T THEN count[t] + n ELSE count[t]]
    /\ UNCHANGED now

Keep(b, r) == Become(b, r, {}, 0)

Create(b) == /\ row[b].status = "absent"
             /\ Keep(b, Draft(row'[b].tags))
             /\ row'[b].tags \in SUBSET Tags

Publish(b) == /\ Exists(row[b])
              /\ row[b].status # "published"
              /\ Become(b, Published(row[b], now), row[b].tags, 1)

Schedule(b) == /\ Exists(row[b])
               /\ row[b].status # "published"
               /\ Keep(b, Scheduled(row[b], row'[b].scheduledAt))
               /\ row'[b].scheduledAt \in Nat

Archive(b) == /\ row[b].status \in {"published", "scheduled", "publish_failed"}
              /\ Become(b, Archived(row[b]), row[b].tags,
                        IF row[b].status = "published" THEN -1 ELSE 0)

Unarchive(b) ==
    /\ row[b].status = "archived"
    /\ Become(b, Restored(row[b], IF row[b].publishedAt = NoDate THEN now
                                  ELSE row[b].publishedAt),
              row[b].tags, 1)

Delete(b) == row[b].status = "draft" /\ Keep(b, NoRow("deleted"))

\* Only a blog that readers do not see changes its tags.
Retag(b) == /\ Exists(row[b])
            /\ row[b].status # "published"
            /\ Keep(b, Retagged(row[b], row'[b].tags))
            /\ row'[b].tags \in SUBSET Tags

\* The scheduler publishes what is due, never earlier.
AutoPublish(b) == /\ IsDue(row[b], now)
                  /\ Become(b, Published(row[b], now), row[b].tags, 1)

\* Giving up hides the blog again and takes its count back.
GiveUp(b) == /\ row[b].status \in {"scheduled", "published"}
             /\ Become(b, PublishFailed(row[b]), row[b].tags,
                       IF row[b].status = "published" THEN -1 ELSE 0)

Wait == now' = now + 1 /\ UNCHANGED <<row, count>>

CatalogNext ==
    \/ Wait
    \/ \E b \in Blogs : \/ Create(b) \/ Publish(b) \/ Schedule(b)
                        \/ Archive(b) \/ Unarchive(b) \/ Delete(b)
                        \/ Retag(b) \/ AutoPublish(b) \/ GiveUp(b)

CatalogSpec == CatalogInit /\ [][CatalogNext]_catalogVars
=============================================================================
