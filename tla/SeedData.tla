----------------------------- MODULE SeedData -----------------------------
(***************************************************************************)
(* The seed script (pnpm prisma:seed), run while the server is running or  *)
(* not, once, again, or twice at a time: upserts that update nothing,      *)
(* milestones of a company that has none, articles whose slug is free, and *)
(* at the end the blog counts of the tags, read, reset and set.  It shares *)
(* the unique indexes of Names with the server's requests.  Of each list   *)
(* in the script one row is kept.                                          *)
(***************************************************************************)
EXTENDS Names

CONSTANTS SeedTag, SeedTagSlug,        \* its slug is not what toSlug makes of its name
          SeedAuthor, SeedUsername,
          SeedCompany,
          Listed,                      \* the slugs of its articles, in order
          SeedPublished,               \* of those that it creates as published
          Seeds,                       \* slots for running scripts
          MaxSeeds, MaxMoves           \* runs of the script; moves of articles

Articles == {Listed[k] : k \in DOMAIN Listed}

ASSUME SeedAssumption ==
    /\ SeedTag \in Spellings /\ SeedTagSlug \in TagSlugs /\ SeedAuthor \in People
    /\ SeedCompany \in Handles
    /\ SeedUsername \in Slugs /\ Articles \subseteq Slugs
    /\ Listed \in Seq(Articles) \ {<<>>} /\ SeedPublished \subseteq Articles
    /\ MaxSeeds \in Nat /\ MaxMoves \in Nat

VARIABLES seed,        \* what each script is doing
          runs,
          milestones,  \* who posted the company's milestones, batch by batch
          status,      \* of the seed's articles; "none": it did not create it
          moving,      \* what a request has still to add to the tag's count
          moves,
          blogCount,   \* of the seed's tag
          raced,       \* history: milestones were posted between a script's count
                       \* and its createMany
          disturbed    \* history: the count may be wrong, and no script has
                       \* repaired it since

seedVars == <<seed, runs, milestones, status, moving, moves, blogCount, raced, disturbed>>
rows     == <<milestones, status, moving, moves, blogCount>>

Stopped == [step |-> "stopped"]

SeedInit ==
    /\ Init
    /\ seed = [i \in Seeds |-> Stopped]
    /\ runs = 0 /\ moves = 0 /\ blogCount = 0
    /\ milestones = <<>>
    /\ status = [a \in Articles |-> "none"]
    /\ moving = [a \in Articles |-> 0]
    /\ raced = FALSE /\ disturbed = FALSE

-----------------------------------------------------------------------------
(* The script *)

\* What is upserted by which unique key, and what else the row enters.
TagUpserts     == << [key |-> <<"tagSlug", SeedTagSlug>>, adds |-> {<<"tag", SeedTag>>}] >>
AccountUpserts == << [key |-> <<"email", SeedAuthor>>,    adds |-> {}],
                     [key |-> <<"profile", SeedAuthor>>,  adds |-> {<<"username", SeedUsername>>}] >>
CompanyUpserts == << [key |-> <<"handle", SeedCompany>>,  adds |-> {}] >>

\* Mutant: the author's row is left to the companies' part.
AccountsLast == TagUpserts \o <<AccountUpserts[2]>> \o CompanyUpserts \o <<AccountUpserts[1]>>

Upserts == TagUpserts \o AccountUpserts \o CompanyUpserts

\* counted: the published articles it has read; calm: nobody has touched articles
\* or counts since.
Go(i, step, at) == seed' = [seed EXCEPT ![i] = [@ EXCEPT !.step = step, !.at = at]]
Recounting(i)   == seed[i].step \in {"reset", "set"}

StartSeed(i) ==
    /\ seed[i] = Stopped /\ runs < MaxSeeds
    /\ runs' = runs + 1
    /\ seed' = [seed EXCEPT ![i] = [step |-> "upsert", at |-> 1, counted |-> 0, calm |-> FALSE]]
    /\ UNCHANGED <<vars, rows, raced, disturbed>>

\* The row as it is, or a new one.
Upsert(i) ==
    LET u == Upserts[seed[i].at]
    IN  /\ seed[i].step = "upsert"
        /\ IF u.key \in Present THEN UNCHANGED <<entries, called>>
           ELSE /\ u.adds \cap Present = {}
                /\ IF u.key[1] = "profile"
                   THEN called' = [called EXCEPT ![SeedAuthor] = SeedUsername] /\ UNCHANGED entries
                   ELSE entries' = entries \cup {u.key} \cup u.adds /\ UNCHANGED called
        /\ IF seed[i].at < Len(Upserts) THEN Go(i, "upsert", seed[i].at + 1) ELSE Go(i, "count", 1)
        /\ UNCHANGED <<task, requests, clashes, rows, runs, raced, disturbed>>

\* Mutant: milestones are not counted first.
AlwaysNone(posted) == TRUE

NoMilestones(posted) == posted = <<>>

CountMilestones(i) ==
    /\ seed[i].step = "count"
    /\ IF NoMilestones(milestones) THEN Go(i, "createMany", 1) ELSE Go(i, "find", 1)
    /\ UNCHANGED <<vars, rows, runs, raced, disturbed>>

Post(who) ==
    /\ milestones' = Append(milestones, who)
    /\ raced' = (raced \/ \E j \in Seeds : seed[j].step = "createMany" /\ seed'[j] = seed[j])

CreateMilestones(i) ==
    /\ seed[i].step = "createMany"
    /\ Go(i, "find", 1)
    /\ Post("seed")
    /\ UNCHANGED <<vars, status, moving, moves, blogCount, runs, disturbed>>

\* The articles, one after the other.
AfterArticle(i) == IF seed[i].at < Len(Listed) THEN [seed[i] EXCEPT !.step = "find", !.at = @ + 1]
                                               ELSE [seed[i] EXCEPT !.step = "read"]

\* Whoever is recounting has read what is no longer so.
Touched  == [j \in Seeds |-> IF Recounting(j) THEN [seed[j] EXCEPT !.calm = FALSE] ELSE seed[j]]
Disturb  == disturbed' = (disturbed \/ \E j \in Seeds : Recounting(j))

FindArticle(i) ==
    /\ seed[i].step = "find"
    /\ IF <<"slug", Listed[seed[i].at]>> \in Present THEN seed' = [seed EXCEPT ![i] = AfterArticle(i)]
       ELSE Go(i, "article", seed[i].at)
    /\ UNCHANGED <<vars, rows, runs, raced, disturbed>>

CreateArticle(i) ==
    LET a == Listed[seed[i].at]
    IN  /\ seed[i].step = "article" /\ <<"slug", a>> \notin Present
        /\ entries' = entries \cup {<<"slug", a>>}
        /\ status' = [status EXCEPT ![a] = IF a \in SeedPublished THEN "published" ELSE "draft"]
        /\ seed' = [Touched EXCEPT ![i] = AfterArticle(i)]
        /\ Disturb
        /\ UNCHANGED <<called, task, requests, clashes, milestones, moving, moves, blogCount, runs, raced>>

\* Mutant: drafts and archived articles count.
AllTagged == {a \in Articles : status[a] # "none"}

Counted == {a \in Articles : status[a] = "published"}

ReadTags(i) ==
    LET calm == (\A a \in Articles : moving[a] = 0) /\ (\A j \in Seeds : ~Recounting(j))
    IN  /\ seed[i].step = "read"
        /\ seed' = [Touched EXCEPT ![i] = [@ EXCEPT !.step = "reset", !.counted = Cardinality(Counted), !.calm = calm]]
        /\ disturbed' = (disturbed \/ ~calm)
        /\ UNCHANGED <<vars, rows, runs, raced>>

ResetCounts(i) ==
    /\ seed[i].step = "reset"
    /\ blogCount' = 0
    /\ Go(i, "set", 1)
    /\ UNCHANGED <<vars, milestones, status, moving, moves, runs, raced, disturbed>>

\* Tags that no article carries are left at zero.
SetCount(i) ==
    /\ seed[i].step = "set"
    /\ blogCount' = IF seed[i].counted > 0 THEN seed[i].counted ELSE blogCount
    /\ disturbed' = (disturbed /\ ~seed[i].calm)
    /\ seed' = [seed EXCEPT ![i] = Stopped]
    /\ UNCHANGED <<vars, milestones, status, moving, moves, runs, raced>>

\* A unique index or a failure ends the script (process.exit(1)); what it has
\* done stays.
Abort(i) ==
    /\ seed[i] # Stopped
    /\ seed' = [seed EXCEPT ![i] = Stopped]
    /\ disturbed' = TRUE
    /\ UNCHANGED <<vars, rows, runs, raced>>

-----------------------------------------------------------------------------
(* The server meanwhile *)

\* publish, archive and unarchive: the status first, the count after it.
Move(a, from, to, by) ==
    /\ moves < MaxMoves
    /\ status[a] = from /\ moving[a] = 0
    /\ status' = [status EXCEPT ![a] = to]
    /\ moving' = [moving EXCEPT ![a] = by]
    /\ moves' = moves + 1
    /\ seed' = Touched
    /\ Disturb
    /\ UNCHANGED <<vars, milestones, blogCount, runs, raced>>

MoveArticle(a) == Move(a, "draft", "published", 1) \/ Move(a, "published", "archived", -1)
                  \/ Move(a, "archived", "published", 1)

CountMove(a) ==
    /\ moving[a] # 0
    /\ blogCount' = blogCount + moving[a]
    /\ moving' = [moving EXCEPT ![a] = 0]
    /\ seed' = Touched
    /\ Disturb
    /\ UNCHANGED <<vars, milestones, status, moves, runs, raced>>

\* The server stops in between.
LoseCount(a) ==
    /\ moving[a] # 0
    /\ moving' = [moving EXCEPT ![a] = 0]
    /\ disturbed' = TRUE
    /\ UNCHANGED <<vars, milestones, status, moves, blogCount, seed, runs, raced>>

\* addMilestone
AddMilestone ==
    /\ <<"handle", SeedCompany>> \in entries
    /\ \A k \in DOMAIN milestones : milestones[k] = "seed"
    /\ UNCHANGED seed
    /\ Post("owner")
    /\ UNCHANGED <<vars, status, moving, moves, blogCount, runs, disturbed>>

\* Only drafts are deleted, with the seed's among them.
Delete(s) ==
    /\ DeleteBlog(s)
    /\ s \in Articles => status[s] \in {"none", "draft"} /\ moving[s] = 0
    /\ status' = [a \in Articles |-> IF a = s THEN "none" ELSE status[a]]
    /\ UNCHANGED <<milestones, moving, moves, blogCount, seed, runs, raced, disturbed>>

SeedNext ==
    \/ NamesStep /\ UNCHANGED seedVars
    \/ \E s \in Taken("slug") : Delete(s)
    \/ \E i \in Seeds :
          \/ StartSeed(i) \/ Upsert(i) \/ CountMilestones(i) \/ CreateMilestones(i) \/ FindArticle(i)
          \/ CreateArticle(i) \/ ReadTags(i) \/ ResetCounts(i) \/ SetCount(i) \/ Abort(i)
    \/ \E a \in Articles : MoveArticle(a) \/ CountMove(a) \/ LoseCount(a)
    \/ AddMilestone

SeedSpec == SeedInit /\ [][SeedNext]_<<vars, seedVars>>

-----------------------------------------------------------------------------
(* Properties *)

\* The rows of the script and of the server are well-formed, and an article of
\* the seed has its slug.
SeedTypeOK ==
    /\ TypeOK
    /\ \A i \in Seeds : \/ seed[i] = Stopped
                        \/ /\ seed[i].at \in 1..(Len(Upserts) + Len(Listed))
                           /\ seed[i].counted \in 0..Cardinality(Articles) /\ seed[i].calm \in BOOLEAN
    /\ runs \in 0..MaxSeeds /\ moves \in 0..MaxMoves /\ blogCount \in Int
    /\ milestones \in Seq({"seed", "owner"})
    /\ \A a \in Articles :
          /\ status[a] \in {"none", "draft", "published", "archived"} /\ moving[a] \in -1..1
          /\ status[a] # "none" => <<"slug", a>> \in entries
    /\ raced \in BOOLEAN /\ disturbed \in BOOLEAN

\* The script is idempotent (seed/index.ts:13) in what no unique key guards: it
\* adds milestones to a company that has none, once, however often it runs and
\* wherever it was interrupted, unless somebody posts between its count and its
\* createMany.
MilestonesOnce ==
    ~raced => \A k \in DOMAIN milestones : milestones[k] = "seed" => k = 1

\* A script that nobody disturbs while it recounts leaves the tag with the
\* number of its published articles, whatever was wrong before, and it stays so
\* until a script is cut short, a count is lost or a move meets a recount.
CountsRepaired ==
    /\ ~disturbed
    /\ \A i \in Seeds : seed[i] = Stopped
    /\ \A a \in Articles : moving[a] = 0
    => blogCount = Cardinality({a \in Articles : status[a] = "published"})
=============================================================================
