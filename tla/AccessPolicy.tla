---------------------------- MODULE AccessPolicy ----------------------------
(***************************************************************************)
(* Who may see and who may change what on the platform, as if a request    *)
(* checked its caller's rights and used them in one step.                  *)
(***************************************************************************)
CONSTANTS People,     \* accounts
          Anyone,     \* a caller the server does not know
          Admins,     \* accounts with PlatformRole.platform_admin
          Companies,
          Blogs,
          None        \* no company

VARIABLES blog,       \* blogs: author, company and status
          role,       \* company_memberships: role of a person in a company
          saved,      \* blog_saves: what a person has saved
          isPublic,   \* companies.isPublic
          answer      \* what the latest step showed, and to whom

policyVars == <<blog, role, saved, isPublic, answer>>

\* What an answer shows: the text of a blog, its reading figures, and of a
\* company its name in a list, its page, its figures, its pending invites, or
\* that a milestone was taken from the caller.
Item(kind, x) == [kind |-> kind, of |-> x]
Texts(B)      == {Item("text", b) : b \in B}
Listed(K)     == {Item("company", k) : k \in K}
Silence       == [to |-> Anyone, what |-> {}]

Exists(b)   == blog[b].status \notin {"absent", "deleted"}
Belongs(k, p) == p \in People /\ role[k][p] # "none"
Owns(k, p)  == p \in People /\ role[k][p] = "owner"
Runs(k, p)  == Owns(k, p) \/ p \in Admins

\* Authors change their blogs, and a company's owners those of the company.
\* An author who has left the company may still publish a draft that is under
\* its name: only putting a blog under a name asks for membership.
MayChange(p, b) == /\ Exists(b)
                   /\ \/ blog[b].author = p
                      \/ blog[b].company # None /\ Runs(blog[b].company, p)

\* Members write under the company's name.
MayWriteUnder(p, k) == k = None \/ Belongs(k, p) \/ p \in Admins

\* Readers see what is published, and whatever they have saved.
MayRead(p, b) == /\ Exists(b)
                 /\ \/ blog[b].status = "published"
                    \/ blog[b].author = p
                    \/ p \in People /\ b \in saved[p]

MaySee(p, i) == CASE i.kind = "text"    -> MayRead(p, i.of)
                  [] i.kind = "figures" -> blog[i.of].author = p
                  [] i.kind = "company" -> isPublic[i.of] \/ Belongs(i.of, p)
                  [] i.kind = "page"    -> TRUE
                  [] i.kind = "totals"  -> Owns(i.of, p)
                  [] i.kind \in {"invites", "posted"} -> Runs(i.of, p)

-----------------------------------------------------------------------------
PolicyInit == /\ \A b \in Blogs : blog[b].status = "absent" \/ blog[b].author \in People
              /\ saved = [p \in People |-> {}]
              /\ \A k \in Companies : \E p \in People : \A q \in People :
                    role[k][q] = "owner" <=> q = p
              /\ answer = Silence

See(p, S) == /\ \A i \in S : MaySee(p, i)
             /\ answer' = [to |-> p, what |-> S]
             /\ UNCHANGED <<blog, role, saved, isPublic>>

Put(p, b, row) == /\ blog' = [blog EXCEPT ![b] = row]
                  /\ answer' = [to |-> p, what |-> Texts({b})]
                  /\ UNCHANGED <<role, saved, isPublic>>

Create(p, b, k) == /\ blog[b].status = "absent"
                   /\ MayWriteUnder(p, k)
                   /\ Put(p, b, [author |-> p, company |-> k, status |-> "draft"])

\* Nobody takes a blog from its author, or puts it under a company's name
\* without belonging there.
Change(p, b, k, s) == /\ MayChange(p, b)
                      /\ k = blog[b].company \/ MayWriteUnder(p, k)
                      /\ Put(p, b, [author |-> blog[b].author, company |-> k,
                                    status |-> s])

Delete(p, b) == /\ Exists(b)
                /\ blog[b].author = p
                /\ blog' = [blog EXCEPT ![b].status = "deleted"]
                /\ saved' = [q \in People |-> saved[q] \ {b}]
                /\ answer' = Silence
                /\ UNCHANGED <<role, isPublic>>

Present(p, k) == /\ Runs(k, p)
                 /\ isPublic' \in [Companies -> BOOLEAN]
                 /\ \A j \in Companies \ {k} : isPublic'[j] = isPublic[j]
                 /\ answer' = [to |-> p, what |-> Listed({k})]
                 /\ UNCHANGED <<blog, role, saved>>

\* Time, and what other modules are about: teams and saves.
Appear(b) == /\ blog[b].status = "scheduled"
             /\ \E s \in {"published", "publish_failed"} :
                   blog' = [blog EXCEPT ![b].status = s]
             /\ answer' = Silence
             /\ UNCHANGED <<role, saved, isPublic>>

Enrol(k, p, r) == /\ ~ Owns(k, p)
                  /\ role' = [role EXCEPT ![k][p] = r]
                  /\ answer' = Silence
                  /\ UNCHANGED <<blog, saved, isPublic>>

Keep(p, S) == /\ \A b \in S \ saved[p] : blog[b].status = "published"
              /\ saved' = [saved EXCEPT ![p] = S]
              /\ answer' = Silence
              /\ UNCHANGED <<blog, role, isPublic>>

PolicyNext ==
    \/ \E p \in People \cup {Anyone} : See(p, answer'.what)
    \/ \E b \in Blogs, k \in Companies \cup {None} : \E p \in People :
         \/ Create(p, b, k)
         \/ \E s \in {"draft", "scheduled", "published", "publish_failed", "archived"} :
              Change(p, b, k, s)
    \/ \E b \in Blogs : Appear(b) \/ \E p \in People : Delete(p, b)
    \/ \E k \in Companies, p \in People :
         Present(p, k) \/ \E r \in {"none", "author"} : Enrol(k, p, r)
    \/ \E p \in People : \E S \in SUBSET Blogs : Keep(p, S)

PolicySpec == PolicyInit /\ [][PolicyNext]_policyVars
=============================================================================
