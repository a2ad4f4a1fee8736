------------------------------- MODULE Names -------------------------------
(***************************************************************************)
(* What has to be unique: email addresses, profiles and their usernames,   *)
(* company handles, blog slugs, and tags, whose names and slugs are.  The  *)
(* services look whether something is free, or generate a name that is, in *)
(* one statement and create the row in a later one; only the unique        *)
(* indexes of the database decide.                                         *)
(***************************************************************************)
EXTENDS Integers, Sequences, FiniteSets, FiniteSetsExt

CONSTANTS People,      \* who may have an account: by email address
          Handles,
          Words,       \* the parts of a slug, between the dashes, that are no number
          Bases,       \* slugs of titles and display names: sequences of parts
          Chosen,      \* usernames that people ask for
          Spellings,   \* names of tags, as they are typed
          TagSlugs,
          SlugOf,      \* the slug that toSlug makes of each
          None,        \* SQL NULL; no name
          Clients,     \* slots for HTTP requests in progress
          Asked,       \* the operations that clients ask for
          MaxRequests

Operations == {"register", "google", "onboard", "rename", "company", "blog",
               "retag", "unblog"}
Slugs      == Seq(Words \cup Nat)

ASSUME NamesAssumption ==
    /\ None \notin People \cup Slugs
    /\ Bases \cup Chosen \subseteq Slugs
    /\ SlugOf \in [Spellings -> TagSlugs]
    /\ Asked \subseteq Operations
    /\ MaxRequests \in Nat

\* A unique index holds entries: <<index, key>>.
VARIABLES entries,   \* of all indexes but those of author_profiles
          called,    \* author_profiles: the username of each person, or None
          task,      \* what each client's request is doing
          requests,
          clashes    \* history: the entries that refused somebody who had looked
                     \* for a free name when they were there already

vars == <<entries, called, task, requests, clashes>>

Named   == {p \in People : called[p] # None}
Present == entries \cup {<<"profile", p>> : p \in Named}
                   \cup {<<"username", called[p]>> : p \in Named}

\* The names in an index.
Taken(index) == {e[2] : e \in {f \in Present : f[1] = index}}

\* What a request that looks into these indexes finds.
Found(indexes) == {e \in Present : e[1] \in indexes}

\* todo: the tags still to be resolved; adds: the entries to be created; saw:
\* what was in its way when the request looked for something free.
Idle == [step |-> "idle"]

Init ==
    /\ entries = {}
    /\ called = [p \in People |-> None]
    /\ task = [c \in Clients |-> Idle]
    /\ requests = 0
    /\ clashes = {}

-----------------------------------------------------------------------------
(* generateUniqueSlug *)

\* Mutant: the first suffix is tried again.
StuckSuffix(base, taken) == IF base \notin taken THEN base ELSE Append(base, 1)

\* The base itself, or with the least number that makes it free.  Where it is
\* found is bounded by the number of names that are taken.
UniqueSlug(base, taken) ==
    IF base \notin taken THEN base
    ELSE Append(base, Min({n \in 1..(Cardinality(taken) + 1) : Append(base, n) \notin taken}))

-----------------------------------------------------------------------------
(* Requests *)

At(c, ops, step) == task[c].step = step /\ task[c].op \in ops
Done(c)          == task' = [task EXCEPT ![c] = Idle]

Begin(c, op, step, who, name, todo) ==
    /\ task[c] = Idle
    /\ op \in Asked /\ requests < MaxRequests
    /\ requests' = requests + 1
    /\ task' = [task EXCEPT ![c] = [op |-> op, step |-> step, who |-> who, name |-> name,
                                    todo |-> todo, adds |-> {}, saw |-> {}]]
    /\ UNCHANGED <<entries, called, clashes>>

\* register looks for an account, handleGoogleCallback as well.
Register(c, p) == Begin(c, "register", "look", p, <<"email", p>>, {})
Google(c, p)   == Begin(c, "google", "look", p, <<"email", p>>, {})

\* CompaniesService.create looks for the handle.
NewCompany(c, h) == Begin(c, "company", "look", None, <<"handle", h>>, {})

\* onboarding of somebody without a profile, under the username asked for or
\* one made of the display name.
Onboard(c, p) == /\ <<"email", p>> \in entries /\ called[p] = None
                 /\ \/ \E n \in Chosen : Begin(c, "onboard", "look", p, <<"username", n>>, {})
                    \/ \E b \in Bases : Begin(c, "onboard", "generate", p, <<"username", b>>, {})

\* updateMe with a username.
Rename(c, p, n) == called[p] # None /\ Begin(c, "rename", "look", p, <<"username", n>>, {})

\* BlogsService.create resolves the tags and then generates a slug; update
\* only resolves.
NewBlog(c, b, T) == Begin(c, "blog", "resolve", None, <<"slug", b>>, T)
Retag(c, T)      == Begin(c, "retag", "resolve", None, None, T)

Start(c) ==
    \/ \E p \in People : Register(c, p) \/ Google(c, p) \/ Onboard(c, p)
    \/ \E p \in People, n \in Chosen : Rename(c, p, n)
    \/ \E h \in Handles : NewCompany(c, h)
    \/ \E T \in SUBSET Spellings : Retag(c, T) \/ \E b \in Bases : NewBlog(c, b, T)

\* The entry looked for, and what comes with it.
Wanted(c, entry) == IF task[c].op = "onboard" THEN {entry, <<"profile", task[c].who>>} ELSE {entry}

\* The user's own username does not stand in the way.
Free(c) == \/ task[c].name \notin Present
           \/ task[c].op = "rename" /\ task[c].name = <<"username", called[task[c].who]>>

\* findUnique: what is taken is refused, or signs in (handleGoogleCallback).
LookUp(c) ==
    /\ task[c].step = "look"
    /\ task' = [task EXCEPT ![c] =
          IF Free(c) THEN [@ EXCEPT !.step = "create", !.adds = Wanted(c, task[c].name),
                                    !.saw = Found({task[c].name[1]}) \ {task[c].name}]
          ELSE Idle]
    /\ UNCHANGED <<entries, called, requests, clashes>>

\* findMany with the prefix, which every name built from the base has.
Generate(c) ==
    LET index == task[c].name[1]
        entry == <<index, UniqueSlug(task[c].name[2], Taken(index))>>
    IN  /\ task[c].step = "generate"
        /\ task' = [task EXCEPT ![c].step = "create", ![c].adds = Wanted(c, entry),
                                ![c].saw = Found({index})]
        /\ UNCHANGED <<entries, called, requests, clashes>>

\* resolveOrCreateTags: one tag after the other, found by its name.
Resolve(c) == task[c].step = "resolve" /\ \E t \in task[c].todo :
    /\ task' = [task EXCEPT ![c] =
          IF <<"tag", t>> \in Present THEN [@ EXCEPT !.todo = task[c].todo \ {t}]
          ELSE [@ EXCEPT !.step = "tag", !.todo = task[c].todo \ {t}, !.saw = Found({"tag", "tagSlug"}),
                         !.adds = {<<"tag", t>>, <<"tagSlug", SlugOf[t]>>}]]
    /\ UNCHANGED <<entries, called, requests, clashes>>

Resolved(c) ==
    /\ task[c].step = "resolve" /\ task[c].todo = {}
    /\ task' = [task EXCEPT ![c] = IF task[c].op = "blog" THEN [@ EXCEPT !.step = "generate"]
                                                          ELSE Idle]
    /\ UNCHANGED <<entries, called, requests, clashes>>

\* What a username that is given up leaves behind.
Adds(c) == task[c].adds \ (IF task[c].op = "rename" THEN {<<"username", called[task[c].who]>>} ELSE {})

\* Mutant: the table has an index for the user only.
OneProfileEach(c) ==
    task[c].step \in {"create", "tag"} /\ {e \in Adds(c) : e[1] # "username"} \cap Present # {}

Refused(c) == task[c].step \in {"create", "tag"} /\ Adds(c) \cap Present # {}

\* The unique indexes let the row in.
Create(c) ==
    /\ task[c].step \in {"create", "tag"} /\ ~Refused(c)
    /\ IF task[c].op \in {"onboard", "rename"}
       THEN /\ called' = [called EXCEPT ![task[c].who] =
                             CHOOSE n \in {e[2] : e \in {f \in task[c].adds : f[1] = "username"}} : TRUE]
            /\ UNCHANGED entries
       ELSE entries' = entries \cup task[c].adds /\ UNCHANGED called
    /\ task' = [task EXCEPT ![c] = IF task[c].step = "tag" THEN [@ EXCEPT !.step = "resolve"]
                                                           ELSE Idle]
    /\ UNCHANGED <<requests, clashes>>

\* P2002.  The tags created before stay.
Refuse(c) ==
    /\ Refused(c)
    /\ clashes' = clashes \cup (Adds(c) \cap Present \cap task[c].saw)
    /\ Done(c)
    /\ UNCHANGED <<entries, called, requests>>

\* A draft is deleted, and its slug is free again (BlogLifecycle).
DeleteBlog(s) ==
    /\ <<"slug", s>> \in entries
    /\ "unblog" \in Asked /\ requests < MaxRequests
    /\ requests' = requests + 1
    /\ entries' = entries \ {<<"slug", s>>}
    /\ UNCHANGED <<called, task, clashes>>

\* A statement is rejected, or the server crashes.
Fails(c) ==
    /\ task[c] # Idle
    /\ Done(c)
    /\ UNCHANGED <<entries, called, requests, clashes>>

NamesStep == \E c \in Clients :
    Start(c) \/ LookUp(c) \/ Generate(c) \/ Resolve(c) \/ Resolved(c) \/ Create(c) \/ Refuse(c) \/ Fails(c)

Next == NamesStep \/ \E s \in Taken("slug") : DeleteBlog(s)

Spec == Init /\ [][Next]_vars

-----------------------------------------------------------------------------
(* Properties *)

Entries == ({"email", "profile"} \X People) \cup ({"handle"} \X Handles)
           \cup ({"slug", "username"} \X Slugs) \cup ({"tag"} \X Spellings)
           \cup ({"tagSlug"} \X TagSlugs)

Working(t) == /\ DOMAIN t = {"op", "step", "who", "name", "todo", "adds", "saw"}
              /\ t.op \in Operations /\ t.step \in {"look", "generate", "resolve", "tag", "create"}
              /\ t.who \in People \cup {None} /\ t.todo \subseteq Spellings
              /\ \A e \in {t.name} \cup t.adds \cup t.saw : e \in Entries \/ t.op = "retag"

\* Entries are well-formed, a profile belongs to somebody with an account, and
\* no two people share a username.
TypeOK ==
    /\ \A e \in entries : e \in Entries
    /\ DOMAIN called = People
    /\ \A p \in Named : called[p] \in Slugs /\ <<"email", p>> \in entries
    /\ \A p, q \in Named : p # q => called[p] # called[q]
    /\ \A c \in Clients : task[c] = Idle \/ Working(task[c])
    /\ requests \in 0..MaxRequests

\* An index refuses a request only over a name that somebody took after the
\* request had looked (register, onboarding, updateMe, create, generateSlug):
\* generateUniqueSlug never yields a name that was taken.  Tags are the
\* exception: resolveOrCreateTags looks for the name and creates a slug.
RefusedOnlyIfRaced == \A e \in clashes : e[1] = "tagSlug"

\* Tags are created for names that do not yet exist (tags.service.ts:40), so a
\* request that typed such a name is served.
NewNamesAccepted == clashes = {}
=============================================================================
