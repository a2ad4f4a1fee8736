------------------------------- MODULE Access -------------------------------
(***************************************************************************)
(* The checks in front of blogs and companies, and the queries behind      *)
(* every list: PermissionChecker with the statements that fetch the roles  *)
(* it is asked about, and the lists, pages, searches and reports.          *)
(*                                                                         *)
(* A request that changes something reads the row, then the caller's role, *)
(* then the role in the company it moves the blog to, and then writes.     *)
(* Rights can change between these statements; "relied" keeps the roles a  *)
(* request has read.                                                       *)
(***************************************************************************)
EXTENDS Naturals, FiniteSets

CONSTANTS People, Anyone, Admins, Companies, Blogs, None,
          Open,         \* companies that are public when created
          Creator,      \* companies.createdByUserId, for each company
          Authors,      \* who has joined each company before the start
          Begun,        \* rows that blogs may have at the start
          DeepDives,    \* blogs that are architecture deep dives
          Featured,     \* companies.featured
          Same,         \* an update that leaves the company alone
          Clients,      \* slots for requests of several statements
          MaxRequests,  \* bound on such requests
          MaxChanges    \* bound on changes of teams and saves

ASSUME AccessAssumption ==
    /\ Anyone \notin People /\ Admins \subseteq People
    /\ None \notin Companies /\ Same \notin Companies \cup {None}
    /\ Creator \in [Companies -> People]
    /\ Authors \in [Companies -> SUBSET People]
    /\ Begun \subseteq [author : People, company : Companies \cup {None},
                        status : {"draft", "scheduled", "published", "publish_failed",
                                  "archived"}]
    /\ DeepDives \subseteq Blogs /\ Featured \cup Open \subseteq Companies
    /\ {MaxRequests, MaxChanges} \subseteq Nat

VARIABLES blog,      \* [author, company, status] of each blog
          role,      \* company_memberships
          saved,     \* blog_saves
          isPublic,  \* companies.isPublic
          answer,    \* the rows that the latest statement put into a response
          task,      \* what each client's request is doing
          requests, changes

dbVars == <<blog, role, saved, isPublic>>
vars   == <<dbVars, answer, task, requests, changes>>

Policy == INSTANCE AccessPolicy

Item(kind, x) == [kind |-> kind, of |-> x]
Texts(B)      == {Item("text", b) : b \in B}
Listed(K)     == {Item("company", k) : k \in K}
Exists(b)     == blog[b].status \notin {"absent", "deleted"}
Idle          == [step |-> "idle"]

NoBlog        == [author |-> Anyone, company |-> None, status |-> "absent"]

Init == /\ blog \in [Blogs -> Begun \cup {NoBlog}]
        /\ role = [k \in Companies |-> [p \in People |->
                      IF p = Creator[k] THEN "owner"
                      ELSE IF p \in Authors[k] THEN "author" ELSE "none"]]
        /\ saved = [p \in People |-> {}]
        /\ isPublic = [k \in Companies |-> k \in Open]
        /\ answer = [to |-> Anyone, what |-> {}]
        /\ task = [c \in Clients |-> Idle]
        /\ requests = 0 /\ changes = 0

-----------------------------------------------------------------------------
(* Rights *)

\* PermissionChecker: the roles in a company that each right asks for; a
\* platform admin has them all.
Matrix == [publishUnderCompany |-> {"author", "owner"},
           editAnyCompanyBlog |-> {"owner"},
           archiveAnyCompanyBlog |-> {"owner"},
           editCompanyProfile |-> {"owner"},
           inviteAuthors |-> {"owner"},
           addMilestone |-> {"owner"}]

\* Mutant: authors count as owners.
AnyMember(p, r, right) == p \in Admins \/ r # "none"

Allowed(p, r, right) == p \in Admins \/ r \in Matrix[right]

\* Statuses, as read, from which a request passes its handler's own checks,
\* and what it makes of them.
Status   == {"draft", "scheduled", "published", "publish_failed", "archived"}
Admits   == [update |-> Status, publish |-> Status \ {"published"},
             schedule |-> Status \ {"published"},
             archive |-> Status \ {"archived", "draft"}, unarchive |-> {"archived"},
             delete |-> {"draft"}]
Becoming == [publish |-> "published", schedule |-> "scheduled",
             archive |-> "archived", unarchive |-> "published"]
RightFor(op) == IF op = "archive" THEN "archiveAnyCompanyBlog"
                ELSE "editAnyCompanyBlog"

\* The task of client c, if it has come to the step.
At(c, step) == task[c].step = step

Quiet == answer' = [to |-> Anyone, what |-> {}]

Goes(c, t) == task' = [task EXCEPT ![c] = t]

Begin(c, t) == /\ task[c] = Idle
               /\ requests < MaxRequests /\ requests' = requests + 1
               /\ Goes(c, t) /\ Quiet
               /\ UNCHANGED <<dbVars, changes>>

\* findMembership: what the task read of its caller's role in company k.
Reading(t, k) == [t EXCEPT !.relied = @ \cup {[company |-> k,
                                               role |-> role[k][t.who]]}]

\* The request goes on as t, having changed and shown nothing.
Proceed(c, t) == Goes(c, t) /\ Quiet /\ UNCHANGED <<dbVars, requests, changes>>

\* A 403 or 404: nothing happens.
Refuse(c) == Proceed(c, Idle)

-----------------------------------------------------------------------------
(* Changing blogs *)

\* After its rights on the blog: an update that names a company checks that.
Rest(t) == [t EXCEPT !.step = IF t.to \in Companies THEN "target" ELSE "write"]

\* create: no blog yet, so only the company is checked.  Its id is new.
StartCreate(c, p, b, k) ==
    /\ blog[b].status = "absent"
    /\ \A d \in Clients : task[d] # Idle /\ task[d].op = "create" => task[d].blog # b
    /\ Begin(c, Rest([op |-> "create", step |-> "write", who |-> p, blog |-> b,
                      seen |-> blog[b], to |-> k, relied |-> {}]))

\* getAndAuthorize reads the blog: its author passes, anyone else is asked
\* about the company, if it has one.  Only authors delete.
StartChange(c, p, b, op, k) ==
    LET t == [op |-> op, step |-> "role", who |-> p, blog |-> b,
              seen |-> blog[b], to |-> k, relied |-> {}]
    IN  /\ Exists(b) /\ blog[b].status \in Admits[op]
        /\ op # "update" => k = Same
        /\ \/ blog[b].author = p /\ Begin(c, Rest(t))
           \/ /\ blog[b].author # p /\ op # "delete"
              /\ blog[b].company # None
              /\ Begin(c, t)

\* findMembership in the blog's company and canEdit- or canArchiveAny...
ReadRole(c) ==
    /\ At(c, "role")
    /\ LET t == task[c]
           k == t.seen.company
       IN  IF Allowed(t.who, role[k][t.who], RightFor(t.op))
           THEN Proceed(c, Rest(Reading(t, k)))
           ELSE Refuse(c)

\* assertCompanyMembership: the company that the blog is put under.
ReadTarget(c) ==
    /\ At(c, "target")
    /\ LET t == task[c]
       IN  IF Allowed(t.who, role[t.to][t.who], "publishUnderCompany")
           THEN Proceed(c, [Reading(t, t.to) EXCEPT !.step = "write"])
           ELSE Refuse(c)

Written(t) ==
    LET b == blog[t.blog]
        k == IF t.to = Same THEN b.company ELSE t.to
    IN  CASE t.op = "create" -> [author |-> t.who, company |-> k, status |-> "draft"]
          [] t.op = "update" -> [b EXCEPT !.company = k]
          [] t.op = "delete" -> [b EXCEPT !.status = "deleted"]
          [] OTHER -> [b EXCEPT !.status = Becoming[t.op]]

\* The INSERT, UPDATE or DELETE, by id; an update responds with the row.
WriteBlog(c) ==
    /\ At(c, "write")
    /\ LET t == task[c]
           b == t.blog
       IN  IF blog[b].status = "deleted" THEN Refuse(c)
           ELSE /\ blog' = [blog EXCEPT ![b] = Written(t)]
                /\ IF t.op = "delete"
                   THEN saved' = [p \in People |-> saved[p] \ {b}] /\ Quiet
                   ELSE UNCHANGED saved
                        /\ answer' = [to |-> t.who, what |-> Texts({b})]
                /\ Goes(c, Idle)
                /\ UNCHANGED <<role, isPublic, requests, changes>>

\* publishDueBlogs, in one step (BlogLifecycle has its statements): a scheduled
\* blog is public, or marked as failed.
PublishDue(b) == /\ blog[b].status = "scheduled"
                 /\ \E s \in {"published", "publish_failed"} :
                       blog' = [blog EXCEPT ![b].status = s]
                 /\ Quiet
                 /\ UNCHANGED <<role, saved, isPublic, task, requests, changes>>

-----------------------------------------------------------------------------
(* Running companies *)

TeamRights == [present |-> "editCompanyProfile", invites |-> "inviteAuthors",
               milestone |-> "addMilestone"]

\* A company's own analytics look for an owner's row, admins or not.
MayUse(p, r, op) == IF op = "totals" THEN r = "owner"
                    ELSE Allowed(p, r, TeamRights[op])

\* update, listInvites, addMilestone, getCompanyAnalytics: the company, then the caller's
\* role; whoever may not is refused and nothing more happens.
StartTeam(c, p, k, op) ==
    /\ MayUse(p, role[k][p], op)
    /\ Begin(c, Reading([op |-> op, step |-> "team", who |-> p, company |-> k,
                         relied |-> {}], k))

\* The profile goes public or not.
Present(c) ==
    /\ At(c, "team") /\ task[c].op = "present"
    /\ LET k == task[c].company
       IN  /\ \E v \in BOOLEAN : isPublic' = [isPublic EXCEPT ![k] = v]
           /\ answer' = [to |-> task[c].who, what |-> Listed({k})]
    /\ Goes(c, Idle)
    /\ UNCHANGED <<blog, role, saved, requests, changes>>

\* Answering takes nothing but one more query.
Respond(c, S) == /\ answer' = [to |-> task[c].who, what |-> S]
                 /\ Goes(c, Idle)
                 /\ UNCHANGED <<dbVars, requests, changes>>

ListInvites(c) == /\ At(c, "team") /\ task[c].op = "invites"
                  /\ Respond(c, {Item("invites", task[c].company)})

\* The INSERT; what happens next is in Notifications.
AddMilestone(c) == /\ At(c, "team") /\ task[c].op = "milestone"
                   /\ Respond(c, {Item("posted", task[c].company)})

CompanyAnalytics(c) == /\ At(c, "team") /\ task[c].op = "totals"
                       /\ Respond(c, {Item("totals", task[c].company)})

-----------------------------------------------------------------------------
(* Reading: each answer is the rows of one statement; a response may put   *)
(* several such answers together.  Pages, sorting and limits only leave    *)
(* rows out.                                                               *)

\* Mutant: the explore list forgets the status.
AnyStatus(k) == {b \in Blogs : Exists(b) /\ (k # None => blog[b].company = k)}

\* buildPublishedWhere, with the company filter (type, date and tag narrow
\* the list the same way).
FindPublished(k) == {b \in Blogs : /\ blog[b].status = "published"
                                   /\ k # None => blog[b].company = k}

FindTrending  == FindPublished(None)
FindDeepDives == FindPublished(None) \cap DeepDives
FindByAuthor(a) == {b \in Blogs : Exists(b) /\ blog[b].author = a}
FindPublishedBy(a) == {b \in FindByAuthor(a) : blog[b].status = "published"}
FindPublishedUnder(k) == FindPublished(k)
FindOpen      == {k \in Companies : isPublic[k]}
FindMine(p)   == {k \in Companies : role[k][p] # "none"}

\* The route answers p, or anybody if it is public, and changes nothing.
Answer(p, S) == /\ answer' = [to |-> p, what |-> S]
                /\ UNCHANGED <<dbVars, task, requests, changes>>

Explore  == \E k \in Companies \cup {None} : Answer(Anyone, Texts(FindPublished(k)))
Trending == Answer(Anyone, Texts(FindTrending))

\* The lead article, the trending ones without it, and the deep dives.
Home == \/ \E lead \in FindTrending :
             \/ Answer(Anyone, Texts({lead}))
             \/ Answer(Anyone, Texts(FindTrending \ {lead}))
        \/ Answer(Anyone, Texts(FindDeepDives))

\* Search looks at titles of published blogs, and at companies in the open.
Search == \E B \in SUBSET FindTrending, K \in SUBSET FindOpen :
             Answer(Anyone, Texts(B) \cup Listed(K))

ReadPublic(b)  == blog[b].status = "published" /\ Answer(Anyone, Texts({b}))
ReadMine(p, b) == b \in FindByAuthor(p) /\ Answer(p, Texts({b}))
ListMine(p)    == Answer(p, Texts(FindByAuthor(p)))
ListAuthor(a)  == Answer(Anyone, Texts(FindPublishedBy(a)))
ListCompany(k) == Answer(Anyone, Texts(FindPublishedUnder(k)))

ListCompanies  == Answer(Anyone, Listed(FindOpen))
ListFeatured   == Answer(Anyone, Listed(FindOpen \cap Featured))
ListMyTeams(p) == Answer(p, Listed(FindMine(p)))

\* findByHandle, findById, getMembers, getMilestones: whoever knows the handle
\* sees the page, public or not.
ReadCompany(k) == Answer(Anyone, {Item("page", k)})

\* Reading figures are the author's alone, whatever the company.
BlogAnalytics(p, b) == /\ Exists(b) /\ blog[b].author = p
                       /\ Answer(p, {Item("figures", b)})

\* getMySavedBlogs: the saves, then each blog by its id, of any status.
StartSaved(c, p) ==
    Begin(c, [op |-> "saved", step |-> "fetch", who |-> p, ids |-> saved[p]])

FetchSaved(c) ==
    /\ At(c, "fetch")
    /\ LET t == task[c]
       IN  \/ /\ t.ids = {}
              /\ Refuse(c)
           \/ \E b \in t.ids :
                /\ Goes(c, [t EXCEPT !.ids = @ \ {b}])
                /\ IF Exists(b) THEN answer' = [to |-> t.who, what |-> Texts({b})]
                   ELSE Quiet
                /\ UNCHANGED <<dbVars, requests, changes>>

-----------------------------------------------------------------------------
(* What CompanyInvites and Engagement are about, each in one step *)

Changes == changes < MaxChanges /\ changes' = changes + 1

Enrol(k, p, r) == /\ Changes
                  /\ role[k][p] # r /\ p # Creator[k]
                  /\ role' = [role EXCEPT ![k][p] = r]
                  /\ Quiet
                  /\ UNCHANGED <<blog, saved, isPublic, task, requests>>

Save(p, b) == /\ Changes
              /\ \/ /\ blog[b].status = "published" /\ b \notin saved[p]
                    /\ saved' = [saved EXCEPT ![p] = @ \cup {b}]
                 \/ /\ b \in saved[p]
                    /\ saved' = [saved EXCEPT ![p] = @ \ {b}]
              /\ Quiet
              /\ UNCHANGED <<blog, role, isPublic, task, requests>>

-----------------------------------------------------------------------------
ReadNext ==
    \/ Explore \/ Trending \/ Home \/ Search \/ ListCompanies \/ ListFeatured
    \/ \E b \in Blogs : ReadPublic(b)
    \/ \E k \in Companies : ListCompany(k) \/ ReadCompany(k)
    \/ \E p \in People : \/ ListMine(p) \/ ListAuthor(p) \/ ListMyTeams(p)
                         \/ \E b \in Blogs : ReadMine(p, b) \/ BlogAnalytics(p, b)

StartNext ==
    \E c \in Clients, p \in People :
        \/ \E b \in Blogs :
             \/ \E k \in Companies \cup {None} : StartCreate(c, p, b, k)
             \/ \E op \in DOMAIN Admits, k \in Companies \cup {None, Same} :
                  StartChange(c, p, b, op, k)
        \/ \E k \in Companies, op \in {"present", "invites", "milestone", "totals"} :
             StartTeam(c, p, k, op)
        \/ StartSaved(c, p)

Next ==
    \/ ReadNext \/ StartNext
    \/ \E c \in Clients : \/ ReadRole(c) \/ ReadTarget(c) \/ WriteBlog(c)
                          \/ Present(c) \/ ListInvites(c) \/ AddMilestone(c)
                          \/ CompanyAnalytics(c) \/ FetchSaved(c)
    \/ \E b \in Blogs : PublishDue(b) \/ \E p \in People : Save(p, b)
    \/ \E k \in Companies, p \in People, r \in {"none", "author"} : Enrol(k, p, r)

Spec == Init /\ [][Next]_vars

-----------------------------------------------------------------------------
(* Properties *)

\* What a request in progress goes by has changed since it was read: a role,
\* the company of the blog it is allowed on, or what its caller has saved.
Outdated(c) ==
    LET t == task[c]
    IN  \/ t.step \in {"target", "write", "team"}
           /\ \E f \in t.relied : role[f.company][t.who] # f.role
        \/ t.step \in {"target", "write"} /\ t.op # "create"
           /\ t.relied # {} /\ blog[t.blog].company # t.seen.company
        \/ t.step = "fetch" /\ ~ t.ids \subseteq saved[t.who]

\* No request shows its caller what they may not see, or changes what they
\* may not change, by the rights they have at that moment - except through
\* a request that goes by rights which have changed since it looked.  (The
\* filters of the lists, getAndAuthorize, assertCompanyMembership, and the
\* checks of CompaniesService and AnalyticsService.)
PolicyUntilOutdated ==
    /\ Policy!PolicyInit
    /\ [][\/ Policy!PolicyNext
          \/ \E c \in Clients : Outdated(c) /\ task'[c] # task[c]]_<<dbVars, answer>>
=============================================================================
