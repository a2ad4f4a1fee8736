--------------------------- MODULE EngagementRows ---------------------------
(***************************************************************************)
(* What readers leave behind on a blog, and what its counters are made of. *)
(***************************************************************************)
EXTENDS Integers, Sequences, FiniteSets

CONSTANTS Blogs, People,
          Author,              \* the author of each blog
          Sessions, Addresses, \* a reader's sessionId and IP address
          None,                \* SQL NULL; nobody, no session, no row
          Window,              \* how long an address counts once
          Figures              \* the counters that an instance follows

Report == [depth : 0..100, completed : BOOLEAN]

ASSUME EngagementRowsAssumption ==
    /\ Author \in [Blogs -> People]
    /\ None \notin People \cup Sessions \cup Report \cup [Figures -> Nat]
    /\ IsFiniteSet(Sessions) /\ IsFiniteSet(Addresses)
    /\ Window \in Nat
    /\ {"views", "unique"} \subseteq Figures
    /\ Figures \subseteq {"views", "unique", "likes", "saves", "shares", "completion"}

VARIABLES status,     \* of each blog
          reactions,  \* blog_likes and blog_saves, each with a unique key
          shares,     \* the number of rows in blog_shares
          views,      \* blog_views
          progress,   \* blog_read_sessions
          counters    \* blog_engagement_counters

rowVars == <<status, reactions, shares, views, progress, counters>>

Statuses  == {"published", "hidden", "gone"}
Reactions == [kind : {"like", "save"}, person : People, blog : Blogs]
View      == [address : Addresses, session : Sessions \cup {None}, at : Nat]

RowsTypeOK ==
    /\ status \in [Blogs -> Statuses]
    /\ reactions \subseteq Reactions
    /\ shares \in [Blogs -> Nat]
    /\ views \in [Blogs -> Seq(View)]
    /\ progress \in [Blogs -> [Sessions -> Report \cup {None}]]
    /\ counters \in [Blogs -> [Figures -> Nat] \cup {None}]

RowsInit ==
    /\ status = [b \in Blogs |-> "published"]
    /\ reactions = {}
    /\ shares = [b \in Blogs |-> 0]
    /\ views = [b \in Blogs |-> <<>>]
    /\ progress = [b \in Blogs |-> [s \in Sessions |-> None]]
    /\ counters = [b \in Blogs |-> None]

\* A session counts once; without one an address counts once per window,
\* whatever session its earlier view came with.
Covers(view, a, s, at) ==
    IF s # None THEN view.session = s ELSE view.address = a /\ view.at >= at - Window

Seen(b, a, s, at) == \E i \in DOMAIN views[b] : Covers(views[b][i], a, s, at)

-----------------------------------------------------------------------------
(* Counters *)

\* The rows that a figure of a blog is made of.
Rows(f, b) ==
    CASE f \in {"views", "unique"} -> views[b]
      [] f = "likes"      -> {r \in reactions : r.kind = "like" /\ r.blog = b}
      [] f = "saves"      -> {r \in reactions : r.kind = "save" /\ r.blog = b}
      [] f = "shares"     -> shares[b]
      [] f = "completion" -> progress[b]

\* In whole percent: a completed reading is worth 100, another the depth it
\* reached; the mean of what they are worth.
Completion(readings) ==
    LET begun == {s \in Sessions : readings[s] # None}
        worth(s) == IF readings[s].completed THEN 100 ELSE readings[s].depth
        percents == UNION {{s} \X (1..worth(s)) : s \in begun}
    IN  IF begun = {} THEN 0 ELSE Cardinality(percents) \div Cardinality(begun)

\* What a query makes of them.
Made(f, rows) ==
    CASE f = "views"             -> Len(rows)
      [] f = "unique"            -> Cardinality({rows[i].address : i \in DOMAIN rows})
      [] f \in {"likes", "saves"} -> Cardinality(rows)
      [] f = "shares"            -> rows
      [] f = "completion"        -> Completion(rows)

Figure(f, b) == Made(f, Rows(f, b))

Zero     == [f \in Figures |-> 0]
Right(b) == [f \in Figures |-> Figure(f, b)]

\* What the engagement summary of a blog says.
Shown(b) == IF counters[b] = None THEN Zero ELSE counters[b]

\* A blog that is deleted takes its rows along.
Erased(b) ==
    /\ status' = [status EXCEPT ![b] = "gone"]
    /\ reactions' = {r \in reactions : r.blog # b}
    /\ shares' = [shares EXCEPT ![b] = 0]
    /\ views' = [views EXCEPT ![b] = <<>>]
    /\ progress' = [progress EXCEPT ![b] = [s \in Sessions |-> None]]
    /\ counters' = [counters EXCEPT ![b] = None]
=============================================================================
