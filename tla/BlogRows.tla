------------------------------ MODULE BlogRows ------------------------------
(***************************************************************************)
(* The part of a row of the blogs table that decides what readers see: its *)
(* status, its two dates and the tags joined to it (Blog and BlogTag of    *)
(* prisma/schema.prisma).  Titles, bodies, companies and covers are left   *)
(* out: no modelled decision reads them.                                   *)
(***************************************************************************)
EXTENDS Integers, FiniteSets

CONSTANTS Blogs,   \* identifiers that creating a blog may use (never reused)
          Tags,    \* rows of the tags table
          NoDate   \* SQL NULL in a date column

ASSUME RowAssumption == /\ IsFiniteSet(Blogs)
                        /\ NoDate \notin Nat

\* enum BlogStatus
BlogStatus == {"draft", "published", "scheduled", "archived", "publish_failed"}

Dates == Nat \cup {NoDate}

Row == [status : BlogStatus \cup {"absent", "deleted"},
        publishedAt : Dates, scheduledAt : Dates, tags : SUBSET Tags]

\* What stands for a blog before its INSERT and after its DELETE (the join
\* rows of blog_tags go with it, onDelete: Cascade).
NoRow(why) == [status |-> why, publishedAt |-> NoDate,
               scheduledAt |-> NoDate, tags |-> {}]

Draft(T) == [NoRow("draft") EXCEPT !.tags = T]

Exists(r) == r.status \in BlogStatus

\* What repo.update writes for each transition; a column that is not named
\* keeps its value.

\* Mutants: a column forgotten.
UndatedPublished(r, at) == [r EXCEPT !.status = "published", !.scheduledAt = NoDate]
UndatedRestored(r, at)  == [r EXCEPT !.status = "published"]

Published(r, at) == [r EXCEPT !.status = "published", !.publishedAt = at,
                              !.scheduledAt = NoDate]
Scheduled(r, at) == [r EXCEPT !.status = "scheduled", !.scheduledAt = at]
Archived(r)      == [r EXCEPT !.status = "archived"]
Restored(r, at)  == [r EXCEPT !.status = "published", !.publishedAt = at]
PublishFailed(r) == [r EXCEPT !.status = "publish_failed"]
Retagged(r, T)   == [r EXCEPT !.tags = T]

\* The query of findDueScheduled; NULL <= now is not true in SQL.
IsDue(r, now) == /\ r.status = "scheduled"
                 /\ r.scheduledAt # NoDate
                 /\ r.scheduledAt <= now

\* The published blogs that carry tag t: what tag.blogCount should count.
Shows(r, t) == r.status = "published" /\ t \in r.tags
Carriers(rows, t) == {b \in Blogs : Shows(rows[b], t)}
=============================================================================
