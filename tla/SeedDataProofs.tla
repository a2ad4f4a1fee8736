--------------------------- MODULE SeedDataProofs ---------------------------
(***************************************************************************)
(* Theorems about Names and SeedData, for any people, names, tags, slots   *)
(* and bounds.                                                             *)
(***************************************************************************)
EXTENDS SeedData, FiniteSetTheorems, TLAPS

-----------------------------------------------------------------------------
(* generateUniqueSlug *)

\* Numbers have a least one.
LEMMA LeastNumber ==
    ASSUME NEW N \in SUBSET Nat, N # {}
    PROVE  Min(N) \in N /\ \A n \in N : Min(N) <= n
<1> DEFINE R == OpToRel(<, Nat)
<1>1. \E m \in N : \A n \in N : <<n, m>> \notin R
    <2>1. IsWellFoundedOn(R, Nat)
        BY NatLessThanWellFounded
    <2> HIDE DEF R
    <2> QED
        BY <2>1, WFMin
<1>2. \E m \in N : \A n \in N : m <= n
    <2>1. \A m, n \in Nat : n < m => <<n, m>> \in R
        BY DEF OpToRel
    <2>2. PICK m \in N : \A n \in N : <<n, m>> \notin R
        BY <1>1
    <2> HIDE DEF R
    <2>3. ASSUME NEW n \in N PROVE m <= n
        <3>1. m \in Nat /\ n \in Nat /\ <<n, m>> \notin R
            BY <2>2
        <3>2. ~(n < m)
            BY <2>1, <3>1
        <3> QED
            BY <3>1, <3>2
    <2> QED
        BY <2>2, <2>3
<1> QED
    BY <1>2 DEF Min

\* Of the names that are taken, one fewer than there are numbers to try can
\* stand in the way.
LEMMA SomeSuffixIsFree ==
    ASSUME NEW base \in Slugs, NEW taken, IsFiniteSet(taken)
    PROVE  \E n \in 1..(Cardinality(taken) + 1) : Append(base, n) \notin taken
<1> DEFINE k == Cardinality(taken) + 1
           f == [n \in 1..k |-> Append(base, n)]
<1>1. Cardinality(taken) \in Nat
    BY FS_CardinalityType
<1> SUFFICES ASSUME \A n \in 1..k : Append(base, n) \in taken PROVE FALSE
    OBVIOUS
<1>2. \A m, n \in 1..k : Append(base, m) = Append(base, n) => m = n
    <2> TAKE m, n \in 1..k
    <2>1. base \in Seq(Words \cup Nat) /\ m \in Words \cup Nat /\ n \in Words \cup Nat
        BY <1>1 DEF Slugs
    <2>2. Append(base, m)[Len(base) + 1] = m /\ Append(base, n)[Len(base) + 1] = n
        BY <2>1
    <2> QED
        BY <2>2
<1>3. f \in Injection(1..k, taken)
    BY <1>2 DEF Injection, IsInjective
<1>4. Cardinality(1..k) <= Cardinality(taken)
    <2> HIDE DEF f, k
    <2> QED
        BY <1>3, FS_Injection
<1>5. Cardinality(1..k) = k
    <2>1. 1 \in Int /\ k \in Int /\ k >= 1
        BY <1>1
    <2> HIDE DEF k
    <2>2. Cardinality(1..k) = IF 1 > k THEN 0 ELSE k - 1 + 1
        BY <2>1, FS_Interval, Zenon
    <2> QED
        BY <2>1, <2>2
<1> QED
    BY <1>1, <1>4, <1>5

\* generateUniqueSlug: the slug is free, and if it is not the base itself then
\* that and all smaller suffixes are taken.
THEOREM UniqueSlugIsFree ==
    ASSUME NEW base \in Slugs, NEW taken, IsFiniteSet(taken)
    PROVE  /\ UniqueSlug(base, taken) \in Slugs \ taken
           /\ UniqueSlug(base, taken) # base =>
                 /\ base \in taken
                 /\ \E n \in Nat \ {0} : /\ UniqueSlug(base, taken) = Append(base, n)
                                         /\ \A k \in 1..(n - 1) : Append(base, k) \in taken
<1> DEFINE N == {n \in 1..(Cardinality(taken) + 1) : Append(base, n) \notin taken}
<1>1. CASE base \notin taken
    BY <1>1 DEF UniqueSlug
<1>2. CASE base \in taken
    <2>1. Cardinality(taken) \in Nat
        BY FS_CardinalityType
    <2>2. N \in SUBSET Nat /\ N # {}
        BY <2>1, SomeSuffixIsFree
    <2>3. PICK m \in N : m = Min(N) /\ \A n \in N : m <= n
        <3> HIDE DEF N
        <3> QED
            BY <2>2, LeastNumber
    <2>4. m \in Nat \ {0} /\ Append(base, m) \in Slugs
        BY <2>1 DEF Slugs
    <2>5. UniqueSlug(base, taken) = Append(base, m)
        BY <1>2, <2>3 DEF UniqueSlug
    <2>6. \A k \in 1..(m - 1) : Append(base, k) \in taken
        BY <2>1, <2>3
    <2> QED
        BY <1>2, <2>3, <2>4, <2>5, <2>6
<1> QED
    BY <1>1, <1>2

-----------------------------------------------------------------------------
(* Rows *)

\* Unique indexes hold finitely many entries, usernames belong to accounts and
\* differ.
RowsOK ==
    /\ entries \in SUBSET Entries /\ IsFiniteSet(entries)
    /\ called \in [People -> Slugs \cup {None}] /\ IsFiniteSet(Named)
    /\ \A p \in Named : <<"email", p>> \in entries
    /\ \A p, q \in Named : p # q => called[p] # called[q]

\* Accounts stay, and so does that somebody has a profile.
Kept == /\ \A p \in People : <<"email", p>> \in entries => <<"email", p>> \in entries'
        /\ \A p \in People : called[p] # None => called'[p] # None

\* What a finite set is mapped to is finite.
LEMMA FiniteImage ==
    ASSUME NEW S, IsFiniteSet(S), NEW f, DOMAIN f = S
    PROVE  IsFiniteSet({f[x] : x \in S})
<1> DEFINE T == {f[x] : x \in S}
           g == [x \in S |-> f[x]]
<1>1. g \in Surjection(S, T)
    BY DEF Surjection
<1> HIDE DEF g, T
<1>2. IsFiniteSet(T)
    BY <1>1, FS_Surjection
<1> QED
    BY <1>2 DEF T

\* What the indexes hold, and the names in one of them, is finite.
LEMMA PresentIsFinite ==
    ASSUME RowsOK
    PROVE  /\ IsFiniteSet(Present)
           /\ \A index : IsFiniteSet(Taken(index)) /\ IsFiniteSet(Found({index}))
<1> DEFINE f == [p \in Named |-> <<"profile", p>>]
           g == [p \in Named |-> <<"username", called[p]>>]
<1>1. IsFiniteSet(Named) /\ IsFiniteSet(entries)
    BY DEF RowsOK
<1>2. IsFiniteSet({f[p] : p \in Named}) /\ IsFiniteSet({g[p] : p \in Named})
    <2>1. DOMAIN f = Named /\ DOMAIN g = Named
        OBVIOUS
    <2> HIDE DEF f, g
    <2> QED
        BY <1>1, <2>1, FiniteImage
<1>3. Present = (entries \cup {f[p] : p \in Named}) \cup {g[p] : p \in Named}
    BY DEF Present
<1> HIDE DEF f, g
<1>4. IsFiniteSet(Present)
    BY <1>1, <1>2, <1>3, FS_Union
<1>5. ASSUME NEW index PROVE IsFiniteSet(Taken(index)) /\ IsFiniteSet(Found({index}))
    <2> DEFINE S == {e \in Present : e[1] = index}
               h == [e \in S |-> e[2]]
    <2>1. S \in SUBSET Present
        OBVIOUS
    <2>2. IsFiniteSet(S)
        BY <1>4, <2>1, FS_Subset
    <2>3. DOMAIN h = S /\ Taken(index) = {h[e] : e \in S}
        BY DEF Taken
    <2>4. Found({index}) = S
        BY DEF Found
    <2> HIDE DEF S, h
    <2> QED
        BY <2>2, <2>3, <2>4, FiniteImage
<1> QED
    BY <1>4, <1>5

\* Entries are well-formed.
LEMMA PresentTyped == RowsOK => Present \subseteq Entries
BY DEF RowsOK, Present, Entries, Named

\* Rows are added.
LEMMA RowsAdded ==
    ASSUME RowsOK, NEW A \in SUBSET Entries, IsFiniteSet(A), entries' = entries \cup A,
           UNCHANGED called
    PROVE  RowsOK' /\ Kept
<1>1. Named' = Named
    BY DEF Named
<1>2. IsFiniteSet(entries')
    BY FS_Union DEF RowsOK
<1> QED
    BY <1>1, <1>2 DEF RowsOK, Kept

\* Somebody with an account is called by a name that nobody else has.
LEMMA RowsNamed ==
    ASSUME RowsOK, NEW p \in People, NEW n \in Slugs, <<"email", p>> \in entries,
           <<"username", n>> \notin Present \/ called[p] = n,
           called' = [called EXCEPT ![p] = n], UNCHANGED entries
    PROVE  RowsOK' /\ Kept
<1>1. None \notin Slugs
    BY NamesAssumption
<1>2. called' \in [People -> Slugs \cup {None}] /\ called'[p] = n
      /\ \A q \in People \ {p} : called'[q] = called[q]
    BY DEF RowsOK
<1>3. Named' = Named \cup {p}
    BY <1>1, <1>2 DEF Named
<1>4. IsFiniteSet(Named')
    BY <1>3, FS_AddElement DEF RowsOK
<1>5. \A q \in Named \ {p} : called[q] # n
    <2> TAKE q \in Named \ {p}
    <2>1. CASE called[p] = n
        <3>1. p \in Named
            BY <1>1, <2>1 DEF Named
        <3> QED
            BY <2>1, <3>1 DEF RowsOK
    <2>2. CASE <<"username", n>> \notin Present
        BY <2>2 DEF Present
    <2> QED
        BY <2>1, <2>2
<1>6. \A q, r \in Named' : q # r => called'[q] # called'[r]
    BY <1>2, <1>3, <1>5 DEF RowsOK, Named
<1> QED
    BY <1>1, <1>2, <1>3, <1>4, <1>6 DEF RowsOK, Kept

\* A slug is free again.
LEMMA RowsFreed ==
    ASSUME RowsOK, NEW s, entries' = entries \ {<<"slug", s>>}, UNCHANGED called
    PROVE  RowsOK' /\ Kept
<1>1. Named' = Named
    BY DEF Named
<1>2. IsFiniteSet(entries')
    BY FS_Subset DEF RowsOK
<1>3. \A p : <<"email", p>> # <<"slug", s>>
    OBVIOUS
<1> QED
    BY <1>1, <1>2, <1>3 DEF RowsOK, Kept

-----------------------------------------------------------------------------
(* Requests *)

Job == [op : Operations, step : {"look", "generate", "resolve", "tag", "create"},
        who : People \cup {None}, name : Entries \cup {None}, todo : SUBSET Spellings,
        adds : SUBSET Entries, saw : SUBSET Entries]

\* Whoever is about to be called something has an account, and has asked for or
\* been given one username.
Naming(t) ==
    /\ t.who \in People /\ <<"email", t.who>> \in entries
    /\ t.op = "rename" => called[t.who] # None
    /\ t.step \in {"look", "generate", "create"}
    /\ t.name \in {"username"} \X Slugs
    /\ t.step = "create" =>
          \E n \in Slugs : t.adds = {<<"username", n>>}
                              \cup (IF t.op = "onboard" THEN {<<"profile", t.who>>} ELSE {})

\* What a request adds was not in its way when it looked: that is what looking,
\* and generating, is for.  Only the slug of a tag is not looked up.
Looked(t) == \A e \in t.adds \cap t.saw : e[1] = "tagSlug"

Sound(t) ==
    /\ t.op \in {"onboard", "rename"} => Naming(t)
    /\ t.op = "blog" => t.name \in {"slug"} \X Slugs /\ t.step # "look"
    /\ t.op = "retag" => t.step \in {"resolve", "tag"}
    /\ t.op # "retag" => t.name \in Entries
    /\ t.step = "generate" => t.op \in {"blog", "onboard"}
    /\ t.step \in {"resolve", "tag"} => t.op \in {"blog", "retag"}
    /\ t.step \in {"tag", "create"} => Looked(t)
    /\ IsFiniteSet(t.adds)

TasksOK == /\ task \in [Clients -> Job \cup {Idle}]
           /\ \A c \in Clients : task[c] # Idle => Sound(task[c])

\* A request that has a step is none that is idle.
LEMMA Busy ==
    ASSUME TasksOK, NEW c \in Clients, task[c] # Idle \/ task[c].step # "idle"
    PROVE  task[c] \in Job /\ task[c] # Idle /\ Sound(task[c])
BY DEF TasksOK, Idle

\* A task is not idle.
LEMMA JobIsBusy == \A t \in Job : t # Idle
BY DEF Job, Idle

\* A request stays sound whatever is added.
LEMMA SoundStays == \A t \in Job : Kept /\ Sound(t) => Sound(t)'
BY DEF Kept, Sound, Naming, Looked

\* So all requests do.
LEMMA TasksStay == TasksOK /\ Kept /\ UNCHANGED task => TasksOK'
<1> SUFFICES ASSUME TasksOK, Kept, UNCHANGED task, NEW c \in Clients, task[c] # Idle
             PROVE  Sound(task[c])'
    BY DEF TasksOK
<1>1. PICK t \in Job : t = task[c] /\ Sound(t)
    BY DEF TasksOK
<1>2. Sound(t)'
    BY <1>1, SoundStays
<1> QED
    BY <1>1, <1>2 DEF Sound, Naming, Looked

\* One request becomes t.
Becomes(c, t) == task' = [task EXCEPT ![c] = t]

\* Requests stay sound if one becomes something sound.
LEMMA TaskBecomes ==
    ASSUME TasksOK, Kept, NEW c \in Clients, NEW t \in Job, Sound(t), Becomes(c, t)
    PROVE  TasksOK'
<1>1. task' \in [Clients -> Job \cup {Idle}]
    BY DEF TasksOK, Becomes
<1>2. ASSUME NEW d \in Clients, task'[d] # Idle PROVE Sound(task[d])'
    <2>1. PICK x \in Job : x = task'[d] /\ Sound(x)
        BY <1>2 DEF TasksOK, Becomes
    <2>2. Sound(x)'
        BY <2>1, SoundStays
    <2> QED
        BY <2>1, <2>2 DEF Sound, Naming, Looked
<1> QED
    BY <1>1, <1>2 DEF TasksOK

\* A request that is done leaves its slot idle.
LEMMA DoneBecomes ==
    ASSUME TasksOK, Kept, NEW c \in Clients, Becomes(c, Idle)
    PROVE  TasksOK'
<1>1. task' \in [Clients -> Job \cup {Idle}]
    BY DEF TasksOK, Becomes
<1>2. ASSUME NEW d \in Clients, task'[d] # Idle PROVE Sound(task[d])'
    <2>1. PICK x \in Job : x = task'[d] /\ Sound(x)
        BY <1>2 DEF TasksOK, Becomes
    <2>2. Sound(x)'
        BY <2>1, SoundStays
    <2> QED
        BY <2>1, <2>2 DEF Sound, Naming, Looked
<1> QED
    BY <1>1, <1>2 DEF TasksOK

\* Rows that are not touched.
LEMMA RowsStay == RowsOK /\ UNCHANGED <<entries, called>> => RowsOK' /\ Kept
BY DEF RowsOK, Kept, Named

\* A request is sound when it begins.
LEMMA BeginBecomes ==
    ASSUME TasksOK, RowsOK, NEW c \in Clients, NEW op \in Operations,
           NEW step \in {"look", "generate", "resolve"}, NEW who \in People \cup {None},
           NEW name \in Entries \cup {None}, NEW todo \in SUBSET Spellings,
           op \in {"onboard", "rename"} =>
              /\ who \in People /\ <<"email", who>> \in entries
              /\ op = "rename" => called[who] # None
              /\ step # "resolve" /\ name \in {"username"} \X Slugs,
           op = "blog" => name \in {"slug"} \X Slugs /\ step # "look",
           op = "retag" => step = "resolve",
           op # "retag" => name \in Entries,
           step = "generate" => op \in {"blog", "onboard"},
           step = "resolve" => op \in {"blog", "retag"},
           Begin(c, op, step, who, name, todo)
    PROVE  TasksOK' /\ RowsOK'
<1> DEFINE t == [op |-> op, step |-> step, who |-> who, name |-> name, todo |-> todo,
                 adds |-> {}, saw |-> {}]
<1>1. t \in Job
    BY DEF Job
<1>2. /\ t.op = op /\ t.step = step /\ t.who = who /\ t.name = name /\ t.adds = {}
      /\ Becomes(c, t) /\ UNCHANGED <<entries, called>>
    BY DEF Begin, Becomes
<1> HIDE DEF t
<1>3. Sound(t)
    BY <1>1, <1>2, FS_EmptySet DEF Sound, Naming, Looked, Job
<1> QED
    BY <1>1, <1>2, <1>3, RowsStay, TaskBecomes

\* All kinds of requests begin sound.
LEMMA StartSound == TasksOK /\ RowsOK /\ (\E c \in Clients : Start(c)) => TasksOK' /\ RowsOK'
<1> SUFFICES ASSUME TasksOK, RowsOK, NEW c \in Clients, Start(c) PROVE TasksOK' /\ RowsOK'
    OBVIOUS
<1>0. Bases \subseteq Slugs /\ Chosen \subseteq Slugs
    BY NamesAssumption
<1>1. ASSUME NEW p \in People, Register(c, p) \/ Google(c, p) PROVE TasksOK' /\ RowsOK'
    <2>1. <<"email", p>> \in Entries
        BY DEF Entries
    <2> QED
        BY <1>0, <1>1, <2>1, BeginBecomes DEF Register, Google, Operations
<1>2. ASSUME NEW p \in People, Onboard(c, p) PROVE TasksOK' /\ RowsOK'
    <2>1. \A n \in Bases \cup Chosen : /\ <<"username", n>> \in Entries
                                       /\ <<"username", n>> \in {"username"} \X Slugs
        BY <1>0 DEF Entries
    <2>2. <<"email", p>> \in entries
        BY <1>2 DEF Onboard
    <2>3. ASSUME NEW n \in Chosen, Begin(c, "onboard", "look", p, <<"username", n>>, {})
          PROVE  TasksOK' /\ RowsOK'
        BY <1>0, <2>1, <2>2, <2>3, BeginBecomes DEF Operations
    <2>4. ASSUME NEW b \in Bases, Begin(c, "onboard", "generate", p, <<"username", b>>, {})
          PROVE  TasksOK' /\ RowsOK'
        BY <1>0, <2>1, <2>2, <2>4, BeginBecomes DEF Operations
    <2> QED
        BY <1>2, <2>3, <2>4 DEF Onboard
<1>3. ASSUME NEW p \in People, NEW n \in Chosen, Rename(c, p, n) PROVE TasksOK' /\ RowsOK'
    <2>1. /\ <<"username", n>> \in Entries /\ <<"username", n>> \in {"username"} \X Slugs
          /\ <<"email", p>> \in entries
        BY <1>0, <1>3 DEF Entries, Rename, RowsOK, Named
    <2> QED
        BY <1>0, <1>3, <2>1, BeginBecomes DEF Rename, Operations
<1>4. ASSUME NEW h \in Handles, NewCompany(c, h) PROVE TasksOK' /\ RowsOK'
    <2>1. <<"handle", h>> \in Entries
        BY DEF Entries
    <2> QED
        BY <1>0, <1>4, <2>1, BeginBecomes DEF NewCompany, Operations
<1>5. ASSUME NEW T \in SUBSET Spellings, NEW b \in Bases, NewBlog(c, b, T)
      PROVE  TasksOK' /\ RowsOK'
    <2>1. <<"slug", b>> \in Entries /\ <<"slug", b>> \in {"slug"} \X Slugs
        BY <1>0 DEF Entries
    <2> QED
        BY <1>0, <1>5, <2>1, BeginBecomes DEF NewBlog, Operations
<1>6. ASSUME NEW T \in SUBSET Spellings, Retag(c, T) PROVE TasksOK' /\ RowsOK'
    BY <1>6, BeginBecomes DEF Retag, Operations
<1> QED
    BY <1>1, <1>2, <1>3, <1>4, <1>5, <1>6 DEF Start

\* Looking a name up finds it free.
LEMMA LookUpSound ==
    ASSUME TasksOK, RowsOK, NEW c \in Clients, LookUp(c)
    PROVE  TasksOK' /\ RowsOK'
<1>0. RowsOK' /\ Kept
    BY RowsStay DEF LookUp
<1>1. PICK x \in Job : x = task[c] /\ Sound(x) /\ x.step = "look" /\ x # Idle
    BY Busy DEF LookUp
<1>2. CASE ~Free(c)
    BY <1>0, <1>2, DoneBecomes DEF LookUp, Becomes
<1>3. CASE Free(c)
    <2> DEFINE A == Wanted(c, x.name)
               S == Found({x.name[1]}) \ {x.name}
               t == [x EXCEPT !.step = "create", !.adds = A, !.saw = S]
    <2>1. x.name \in Entries /\ x.op \notin {"blog", "retag"}
        BY <1>1 DEF Sound
    <2>2. A = {x.name} \cup (IF x.op = "onboard" THEN {<<"profile", x.who>>} ELSE {})
        BY <1>1 DEF Wanted
    <2>3. x.op = "onboard" => <<"profile", x.who>> \in Entries /\ x.name[1] = "username"
        BY <1>1 DEF Sound, Naming, Entries
    <2>4. A \in SUBSET Entries /\ IsFiniteSet(A)
        <3>1. IsFiniteSet({x.name}) /\ IsFiniteSet({<<"profile", x.who>>}) /\ IsFiniteSet({})
            BY FS_Singleton, FS_EmptySet
        <3>2. IsFiniteSet(A)
            BY <2>2, <3>1, FS_Union
        <3> QED
            BY <2>1, <2>2, <2>3, <3>2
    <2>5. S \in SUBSET Entries
        BY PresentTyped DEF Found
    <2>6. \A e \in A \cap S : e[1] = "tagSlug"
        BY <2>2, <2>3 DEF Found
    <2>7. x.op \in {"onboard", "rename"} =>
             \E n \in Slugs : x.name = <<"username", n>>
        BY <1>1 DEF Sound, Naming
    <2> HIDE DEF A, S
    <2>8. /\ t \in Job /\ t.step = "create" /\ t.adds = A /\ t.saw = S /\ t.op = x.op
          /\ t.who = x.who /\ t.name = x.name
        BY <1>1, <2>4, <2>5 DEF Job
    <2>9. Becomes(c, t)
        BY <1>1, <1>3 DEF LookUp, Becomes, A, S
    <2> HIDE DEF t
    <2>10. Sound(t)
        BY <1>1, <2>1, <2>2, <2>4, <2>6, <2>7, <2>8 DEF Sound, Naming, Looked
    <2> QED
        BY <1>0, <2>8, <2>9, <2>10, TaskBecomes
<1> QED
    BY <1>2, <1>3

\* generateUniqueSlug yields what is free.
LEMMA GenerateSound ==
    ASSUME TasksOK, RowsOK, NEW c \in Clients, Generate(c)
    PROVE  TasksOK' /\ RowsOK'
<1>0. RowsOK' /\ Kept
    BY RowsStay DEF Generate
<1>1. PICK x \in Job : x = task[c] /\ Sound(x) /\ x.step = "generate" /\ x # Idle
    BY Busy DEF Generate
<1> DEFINE index == x.name[1]
           n == UniqueSlug(x.name[2], Taken(index))
           A == Wanted(c, <<index, n>>)
           S == Found({index})
           t == [x EXCEPT !.step = "create", !.adds = A, !.saw = S]
<1>2. index \in {"slug", "username"} /\ x.name[2] \in Slugs /\ x.op \in {"blog", "onboard"}
      /\ (x.op = "onboard" => index = "username") /\ x.name \in Entries
    BY <1>1 DEF Sound, Naming
<1>3. n \in Slugs /\ n \notin Taken(index)
    <2>1. IsFiniteSet(Taken(index))
        BY PresentIsFinite
    <2> HIDE DEF index
    <2> QED
        BY <1>2, <2>1, UniqueSlugIsFree
<1>4. <<index, n>> \notin S
    <2>1. ASSUME <<index, n>> \in S PROVE FALSE
        <3>1. <<index, n>> \in {f \in Present : f[1] = index}
            BY <2>1 DEF Found
        <3>2. <<index, n>>[2] \in Taken(index)
            BY <3>1 DEF Taken
        <3> QED
            BY <1>3, <3>2
    <2> QED
        BY <2>1
<1>5. A = {<<index, n>>} \cup (IF x.op = "onboard" THEN {<<"profile", x.who>>} ELSE {})
    BY <1>1 DEF Wanted
<1>6. S \in SUBSET Entries /\ \A e \in S : e[1] = index
    BY PresentTyped DEF Found
<1> HIDE DEF index, n, S
<1>7. <<index, n>> \in Entries
    BY <1>2, <1>3 DEF Entries
<1>8. x.op = "onboard" => <<"profile", x.who>> \in Entries
    BY <1>1 DEF Sound, Naming, Entries
<1>9. A \in SUBSET Entries /\ IsFiniteSet(A)
    <2>1. IsFiniteSet({<<index, n>>}) /\ IsFiniteSet({<<"profile", x.who>>}) /\ IsFiniteSet({})
        BY FS_Singleton, FS_EmptySet
    <2>2. IsFiniteSet(A)
        BY <1>5, <2>1, FS_Union
    <2> QED
        BY <1>5, <1>7, <1>8, <2>2
<1>10. \A e \in A \cap S : e[1] = "tagSlug"
    BY <1>2, <1>4, <1>5, <1>6
<1> HIDE DEF A
<1>11. /\ t \in Job /\ t.step = "create" /\ t.adds = A /\ t.saw = S /\ t.op = x.op
       /\ t.who = x.who /\ t.name = x.name
    BY <1>1, <1>6, <1>9 DEF Job
<1>12. Becomes(c, t)
    BY <1>1 DEF Generate, Becomes, A, S, n, index
<1> HIDE DEF t
<1>13. Sound(t)
    BY <1>1, <1>2, <1>3, <1>5, <1>9, <1>10, <1>11 DEF Sound, Naming, Looked
<1> QED
    BY <1>0, <1>11, <1>12, <1>13, TaskBecomes

\* A tag that is not found by its name will be created with its slug.
LEMMA ResolveSound ==
    ASSUME TasksOK, RowsOK, NEW c \in Clients, Resolve(c)
    PROVE  TasksOK' /\ RowsOK'
<1>0. RowsOK' /\ Kept
    BY RowsStay DEF Resolve
<1>1. PICK x \in Job : x = task[c] /\ Sound(x) /\ x.step = "resolve" /\ x # Idle
    BY Busy DEF Resolve
<1>2. PICK g \in x.todo :
         task' = [task EXCEPT ![c] =
            IF <<"tag", g>> \in Present THEN [x EXCEPT !.todo = x.todo \ {g}]
            ELSE [x EXCEPT !.step = "tag", !.todo = x.todo \ {g}, !.saw = Found({"tag", "tagSlug"}),
                           !.adds = {<<"tag", g>>, <<"tagSlug", SlugOf[g]>>}]]
    BY <1>1 DEF Resolve
<1>3. g \in Spellings /\ x.todo \ {g} \in SUBSET Spellings
    BY <1>1 DEF Job
<1>4. CASE <<"tag", g>> \in Present
    <2> DEFINE t == [x EXCEPT !.todo = x.todo \ {g}]
    <2>0. Becomes(c, t)
        BY <1>2, <1>4 DEF Becomes
    <2>1. /\ t \in Job /\ t.step = x.step /\ t.op = x.op /\ t.name = x.name /\ t.adds = x.adds
        BY <1>1, <1>3 DEF Job
    <2> HIDE DEF t
    <2>2. Sound(t)
        BY <1>1, <2>1 DEF Sound, Naming, Looked
    <2> QED
        BY <1>0, <2>0, <2>1, <2>2, TaskBecomes
<1>5. CASE <<"tag", g>> \notin Present
    <2> DEFINE A == {<<"tag", g>>, <<"tagSlug", SlugOf[g]>>}
               S == Found({"tag", "tagSlug"})
               t == [x EXCEPT !.step = "tag", !.todo = x.todo \ {g}, !.saw = S, !.adds = A]
    <2>1. A \in SUBSET Entries /\ S \in SUBSET Entries
        BY <1>3, NamesAssumption, PresentTyped DEF Entries, Found
    <2>2. IsFiniteSet(A)
        <3>1. IsFiniteSet({<<"tag", g>>}) /\ IsFiniteSet({<<"tagSlug", SlugOf[g]>>})
            BY FS_Singleton
        <3>2. A = {<<"tag", g>>} \cup {<<"tagSlug", SlugOf[g]>>}
            OBVIOUS
        <3> QED
            BY <3>1, <3>2, FS_Union
    <2>3. \A e \in A \cap S : e[1] = "tagSlug"
        BY <1>5 DEF Found
    <2>4. Becomes(c, t)
        BY <1>2, <1>5 DEF Becomes
    <2> HIDE DEF A, S
    <2>5. /\ t \in Job /\ t.step = "tag" /\ t.op = x.op /\ t.name = x.name /\ t.adds = A
          /\ t.saw = S
        BY <1>1, <1>3, <2>1 DEF Job
    <2> HIDE DEF t
    <2>6. Sound(t)
        BY <1>1, <2>2, <2>3, <2>5 DEF Sound, Naming, Looked
    <2> QED
        BY <1>0, <2>4, <2>5, <2>6, TaskBecomes
<1> QED
    BY <1>4, <1>5

\* When all tags are there, a slug is generated or the request is done.
LEMMA ResolvedSound ==
    ASSUME TasksOK, RowsOK, NEW c \in Clients, Resolved(c)
    PROVE  TasksOK' /\ RowsOK'
<1>0. RowsOK' /\ Kept
    BY RowsStay DEF Resolved
<1>1. PICK x \in Job : x = task[c] /\ Sound(x) /\ x.step = "resolve" /\ x # Idle
    BY Busy DEF Resolved
<1>2. CASE x.op = "blog"
    <2> DEFINE t == [x EXCEPT !.step = "generate"]
    <2>1. /\ t \in Job /\ t.step = "generate" /\ t.op = x.op /\ t.name = x.name /\ t.adds = x.adds
          /\ Becomes(c, t)
        BY <1>1, <1>2 DEF Job, Becomes, Resolved
    <2> HIDE DEF t
    <2>2. Sound(t)
        BY <1>1, <1>2, <2>1 DEF Sound, Naming, Looked
    <2> QED
        BY <1>0, <2>1, <2>2, TaskBecomes
<1>3. CASE x.op # "blog"
    BY <1>0, <1>1, <1>3, DoneBecomes DEF Resolved, Becomes
<1> QED
    BY <1>2, <1>3

\* A row is created where the indexes let it in.
LEMMA CreateSound ==
    ASSUME TasksOK, RowsOK, NEW c \in Clients, Create(c)
    PROVE  TasksOK' /\ RowsOK'
<1>1. PICK x \in Job : x = task[c] /\ Sound(x) /\ x.step \in {"create", "tag"} /\ x # Idle
    BY Busy DEF Create
<1>2. RowsOK' /\ Kept
    <2>1. CASE x.op \in {"onboard", "rename"}
        <3>1. PICK n \in Slugs :
                 x.adds = {<<"username", n>>}
                             \cup (IF x.op = "onboard" THEN {<<"profile", x.who>>} ELSE {})
            BY <1>1, <2>1 DEF Sound, Naming
        <3>2. {e[2] : e \in {f \in x.adds : f[1] = "username"}} = {n}
            <4>1. <<"username", n>>[1] = "username" /\ <<"profile", x.who>>[1] # "username"
                OBVIOUS
            <4>2. {f \in x.adds : f[1] = "username"} = {<<"username", n>>}
                BY <3>1, <4>1
            <4>3. {e[2] : e \in {<<"username", n>>}} = {<<"username", n>>[2]}
                OBVIOUS
            <4> QED
                BY <4>2, <4>3
        <3>3. (CHOOSE m \in {e[2] : e \in {f \in x.adds : f[1] = "username"}} : TRUE) = n
            BY <3>2
        <3>4. called' = [called EXCEPT ![x.who] = n] /\ UNCHANGED entries
            BY <1>1, <2>1, <3>3 DEF Create
        <3>5. <<"username", n>> \notin Present \/ called[x.who] = n
            <4>1. <<"username", n>> \in Adds(c) \/ called[x.who] = n
                BY <1>1, <3>1 DEF Adds
            <4> QED
                BY <4>1 DEF Create, Refused
        <3>6. x.who \in People /\ <<"email", x.who>> \in entries
            BY <1>1, <2>1 DEF Sound, Naming
        <3> QED
            BY <3>4, <3>5, <3>6, RowsNamed
    <2>2. CASE x.op \notin {"onboard", "rename"}
        <3>1. entries' = entries \cup x.adds /\ UNCHANGED called
            BY <1>1, <2>2 DEF Create
        <3>2. x.adds \in SUBSET Entries /\ IsFiniteSet(x.adds)
            BY <1>1 DEF Job, Sound
        <3> QED
            BY <3>1, <3>2, RowsAdded
    <2> QED
        BY <2>1, <2>2
<1>3. CASE x.step = "tag"
    <2> DEFINE t == [x EXCEPT !.step = "resolve"]
    <2>1. /\ t \in Job /\ t.step = "resolve" /\ t.op = x.op /\ t.name = x.name /\ t.adds = x.adds
          /\ Becomes(c, t)
        BY <1>1, <1>3 DEF Job, Becomes, Create
    <2> HIDE DEF t
    <2>2. Sound(t)
        BY <1>1, <1>3, <2>1 DEF Sound, Naming, Looked
    <2> QED
        BY <1>2, <2>1, <2>2, TaskBecomes
<1>4. CASE x.step = "create"
    BY <1>1, <1>2, <1>4, DoneBecomes DEF Create, Becomes
<1> QED
    BY <1>1, <1>3, <1>4

\* A request that ends otherwise leaves the rows alone.
LEMMA EndSound ==
    ASSUME TasksOK, RowsOK, NEW c \in Clients, Refuse(c) \/ Fails(c)
    PROVE  TasksOK' /\ RowsOK'
BY RowsStay, DoneBecomes DEF Refuse, Fails, Done, Becomes

\* A slug that is given up is nobody's account.
LEMMA DeleteSound ==
    ASSUME TasksOK, RowsOK, NEW s, DeleteBlog(s)
    PROVE  TasksOK' /\ RowsOK'
BY RowsFreed, TasksStay DEF DeleteBlog

-----------------------------------------------------------------------------
(* The server by itself *)

\* An index refuses only what was not there when the request looked, or the
\* slug of a tag.
NamesInv == RowsOK /\ TasksOK /\ requests \in 0..MaxRequests /\ RefusedOnlyIfRaced

\* Nothing is there at first.
LEMMA NamesInitially == Init => NamesInv
<1> SUFFICES ASSUME Init PROVE NamesInv
    OBVIOUS
<1>1. Named = {}
    BY DEF Init, Named
<1>2. RowsOK
    BY <1>1, FS_EmptySet DEF Init, RowsOK
<1>3. TasksOK
    BY DEF Init, TasksOK
<1>4. requests \in 0..MaxRequests
    BY NamesAssumption DEF Init
<1> QED
    BY <1>2, <1>3, <1>4 DEF Init, NamesInv, RefusedOnlyIfRaced

\* What is counted, and what is refused, by a request's steps.
LEMMA RefusedIfRaced ==
    ASSUME NamesInv, NEW c \in Clients,
           \/ Start(c) \/ LookUp(c) \/ Generate(c) \/ Resolve(c)
           \/ Resolved(c) \/ Create(c) \/ Refuse(c) \/ Fails(c)
    PROVE  requests' \in 0..MaxRequests /\ RefusedOnlyIfRaced'
<1>1. CASE Refuse(c)
    <2>1. PICK x \in Job : x = task[c] /\ Sound(x) /\ x.step \in {"create", "tag"}
        BY <1>1, Busy DEF NamesInv, Refuse, Refused, Idle
    <2>2. Looked(x)
        BY <2>1 DEF Sound
    <2>3. Adds(c) \subseteq x.adds
        BY <2>1 DEF Adds
    <2>4. \A e \in Adds(c) \cap Present \cap x.saw : e[1] = "tagSlug"
        BY <2>2, <2>3 DEF Looked
    <2>5. clashes' = clashes \cup (Adds(c) \cap Present \cap x.saw)
        BY <1>1, <2>1 DEF Refuse
    <2> QED
        BY <1>1, <2>4, <2>5 DEF Refuse, NamesInv, RefusedOnlyIfRaced
<1>2. CASE Start(c)
    <2>1. requests < MaxRequests /\ requests' = requests + 1 /\ UNCHANGED clashes
        BY <1>2 DEF Start, Register, Google, NewCompany, Onboard, Rename, NewBlog, Retag, Begin
    <2> QED
        BY <2>1, NamesAssumption DEF NamesInv, RefusedOnlyIfRaced
<1>3. CASE \/ LookUp(c) \/ Generate(c) \/ Resolve(c) \/ Resolved(c) \/ Create(c) \/ Fails(c)
    <2>1. UNCHANGED <<requests, clashes>>
        BY <1>3 DEF LookUp, Generate, Resolve, Resolved, Create, Fails
    <2> QED
        BY <2>1 DEF NamesInv, RefusedOnlyIfRaced
<1> QED
    BY <1>1, <1>2, <1>3

\* A request's step keeps the invariant.
LEMMA NamesStepKeeps == NamesInv /\ NamesStep => NamesInv'
<1> SUFFICES ASSUME NamesInv, NEW c \in Clients,
                    \/ Start(c) \/ LookUp(c) \/ Generate(c) \/ Resolve(c)
                    \/ Resolved(c) \/ Create(c) \/ Refuse(c) \/ Fails(c)
             PROVE  NamesInv'
    BY DEF NamesStep
<1>1. requests' \in 0..MaxRequests /\ RefusedOnlyIfRaced'
    BY RefusedIfRaced
<1>2. TasksOK' /\ RowsOK'
    BY StartSound, LookUpSound, GenerateSound, ResolveSound, ResolvedSound, CreateSound, EndSound
    DEF NamesInv
<1> QED
    BY <1>1, <1>2 DEF NamesInv

\* So does the deletion of a draft.
LEMMA DeleteKeeps ==
    ASSUME NamesInv, NEW s, DeleteBlog(s)
    PROVE  NamesInv'
<1>1. requests' \in 0..MaxRequests /\ RefusedOnlyIfRaced'
    BY NamesAssumption DEF DeleteBlog, NamesInv, RefusedOnlyIfRaced
<1> QED
    BY <1>1, DeleteSound DEF NamesInv

\* And whatever else leaves the server's variables alone.
LEMMA NamesStutter == NamesInv /\ UNCHANGED vars => NamesInv'
<1> SUFFICES ASSUME NamesInv, UNCHANGED vars PROVE NamesInv'
    OBVIOUS
<1>1. RowsOK' /\ Kept
    BY RowsStay DEF vars, NamesInv
<1>2. TasksOK'
    BY <1>1, TasksStay DEF vars, NamesInv
<1> QED
    BY <1>1, <1>2 DEF vars, NamesInv, RefusedOnlyIfRaced

\* The invariant contains the types.
LEMMA NamesTyped == NamesInv => TypeOK
<1> SUFFICES ASSUME NamesInv PROVE TypeOK
    OBVIOUS
<1>1. ASSUME NEW c \in Clients, task[c] # Idle PROVE Working(task[c])
    <2>1. PICK t \in Job : t = task[c] /\ Sound(t)
        BY <1>1 DEF NamesInv, TasksOK
    <2>2. DOMAIN t = {"op", "step", "who", "name", "todo", "adds", "saw"}
        BY DEF Job
    <2>3. t.op # "retag" => t.name \in Entries
        BY <2>1 DEF Sound
    <2> QED
        BY <2>1, <2>2, <2>3 DEF Job, Working
<1>2. \A p \in Named : called[p] \in Slugs
    BY DEF NamesInv, RowsOK, Named
<1> QED
    BY <1>1, <1>2 DEF NamesInv, RowsOK, TypeOK

\* All of it, at any time.
LEMMA NamesInvariant == Spec => []NamesInv
<1>1. NamesInv /\ [Next]_vars => NamesInv'
    BY NamesStepKeeps, DeleteKeeps, NamesStutter DEF Next
<1> QED
    BY <1>1, NamesInitially, PTL DEF Spec

\* Rows and requests are well-formed, every profile belongs to an account, and
\* no two people share a username (the unique indexes that register,
\* onboarding, updateMe and create write under).
THEOREM NamesTypes == Spec => []TypeOK
BY NamesInvariant, NamesTyped, PTL

\* Only the slug of a tag is refused to a request that looked when it was
\* already there: generateUniqueSlug and the checks of register, onboarding,
\* updateMe and create never send on what they could see was taken.
THEOREM NamesRefusedOnlyIfRaced == Spec => []RefusedOnlyIfRaced
<1>1. NamesInv => RefusedOnlyIfRaced
    BY DEF NamesInv
<1> QED
    BY <1>1, NamesInvariant, PTL

-----------------------------------------------------------------------------
(* Scripts *)

Steps == {"upsert", "count", "createMany", "find", "article", "read", "reset", "set"}

Script == [step : Steps,
           at : Nat \ {0}, counted : 0..Cardinality(Articles), calm : BOOLEAN]

\* A script is somewhere in its lists, and past the author's row has found or
\* created that.
InOrder(x) == /\ x.at \in 1..(IF x.step = "upsert" THEN 4 ELSE Len(Listed))
              /\ x.step = "upsert" /\ x.at = 3 => <<"email", SeedAuthor>> \in entries

ScriptsOK == /\ seed \in [Seeds -> Script \cup {Stopped}]
             /\ \A i \in Seeds : seed[i] # Stopped => InOrder(seed[i])

\* The seed's articles, and what else it counts.
ArticlesOK ==
    /\ status \in [Articles -> {"none", "draft", "published", "archived"}]
    /\ moving \in [Articles -> -1..1]
    /\ \A a \in Articles : status[a] # "none" => <<"slug", a>> \in entries
    /\ moves \in 0..MaxMoves /\ blogCount \in Int

FiguresOK == /\ runs \in 0..MaxSeeds /\ milestones \in Seq({"seed", "owner"})
             /\ raced \in BOOLEAN /\ disturbed \in BOOLEAN

\* The list is not empty, and its articles are finitely many.
LEMMA ListedIsFinite ==
    /\ Len(Listed) \in Nat \ {0} /\ \A k \in 1..Len(Listed) : Listed[k] \in Articles
    /\ IsFiniteSet(Articles) /\ Cardinality(Articles) \in Nat
<1>1. Listed \in Seq(Articles) /\ Listed # <<>>
    BY SeedAssumption
<1>2. Len(Listed) \in Nat \ {0} /\ DOMAIN Listed = 1..Len(Listed)
    BY <1>1
<1>3. IsFiniteSet(DOMAIN Listed)
    <2>1. 1 \in Int /\ Len(Listed) \in Int
        BY <1>2
    <2>2. IsFiniteSet(1..Len(Listed))
        BY <2>1, FS_Interval, Zenon
    <2> QED
        BY <1>2, <2>2
<1>4. IsFiniteSet(Articles)
    BY <1>3, FiniteImage DEF Articles
<1>5. Cardinality(Articles) \in Nat
    BY <1>4, FS_CardinalityType
<1>6. \A k \in 1..Len(Listed) : Listed[k] \in Articles
    BY <1>2 DEF Articles
<1> QED
    BY <1>2, <1>4, <1>5, <1>6

\* The upserts, in order.
LEMMA FourUpserts ==
    /\ Len(Upserts) = 4
    /\ Upserts[1] = [key |-> <<"tagSlug", SeedTagSlug>>, adds |-> {<<"tag", SeedTag>>}]
    /\ Upserts[2] = [key |-> <<"email", SeedAuthor>>, adds |-> {}]
    /\ Upserts[3] = [key |-> <<"profile", SeedAuthor>>, adds |-> {<<"username", SeedUsername>>}]
    /\ Upserts[4] = [key |-> <<"handle", SeedCompany>>, adds |-> {}]
BY SMTT(30) DEF Upserts, TagUpserts, AccountUpserts, CompanyUpserts

\* A script that runs is at some step.
LEMMA Running ==
    ASSUME ScriptsOK, NEW i \in Seeds, seed[i] # Stopped \/ seed[i].step # "stopped"
    PROVE  seed[i] \in Script /\ seed[i] # Stopped /\ InOrder(seed[i])
BY DEF ScriptsOK, Stopped

\* A script is no slot without one.
LEMMA ScriptsRun == \A x \in Script : x # Stopped /\ x.step # "stopped"
BY DEF Script, Steps, Stopped

Onward(y, step, at) == [y EXCEPT !.step = step, !.at = at]

\* A script that goes on.
LEMMA ScriptAt ==
    ASSUME NEW y \in Script, NEW step \in Steps, NEW at \in Nat \ {0}
    PROVE  /\ Onward(y, step, at) \in Script
           /\ Onward(y, step, at).step = step /\ Onward(y, step, at).at = at
           /\ Onward(y, step, at).counted = y.counted /\ Onward(y, step, at).calm = y.calm
BY DEF Script, Steps, Onward

\* Who recounts goes on recounting, only not calmly.
LEMMA TouchedStays ==
    ASSUME ScriptsOK
    PROVE  /\ Touched \in [Seeds -> Script \cup {Stopped}]
           /\ \A j \in Seeds : /\ seed[j] = Stopped <=> Touched[j] = Stopped
                               /\ Touched[j].step = seed[j].step
                               /\ Recounting(j) => ~Touched[j].calm
                               /\ seed[j] # Stopped => /\ Touched[j].at = seed[j].at
                                                       /\ Touched[j].counted = seed[j].counted
<1> SUFFICES ASSUME NEW j \in Seeds
             PROVE  /\ Touched[j] \in Script \cup {Stopped}
                    /\ seed[j] = Stopped <=> Touched[j] = Stopped
                    /\ Touched[j].step = seed[j].step
                    /\ Recounting(j) => ~Touched[j].calm
                    /\ seed[j] # Stopped => /\ Touched[j].at = seed[j].at
                                            /\ Touched[j].counted = seed[j].counted
    BY DEF Touched
<1>1. CASE Recounting(j)
    <2>1. PICK y \in Script : y = seed[j]
        BY <1>1, Running DEF Recounting
    <2> DEFINE t == [y EXCEPT !.calm = FALSE]
    <2>2. /\ t \in Script /\ t.step = y.step /\ t.at = y.at /\ t.counted = y.counted
          /\ t.calm = FALSE
        BY <2>1 DEF Script
    <2>3. Touched[j] = t
        BY <1>1, <2>1 DEF Touched
    <2> HIDE DEF t
    <2> QED
        BY <2>1, <2>2, <2>3, ScriptsRun
<1>2. CASE ~Recounting(j)
    <2>1. Touched[j] = seed[j]
        BY <1>2 DEF Touched
    <2> QED
        BY <1>2, <2>1 DEF ScriptsOK
<1> QED
    BY <1>1, <1>2

Accounted == <<"email", SeedAuthor>> \in entries => <<"email", SeedAuthor>> \in entries'

\* Scripts stay in order, disturbed or not.
LEMMA ScriptsStay ==
    ASSUME ScriptsOK, Accounted, seed' = seed \/ seed' = Touched
    PROVE  ScriptsOK'
<1>1. seed' \in [Seeds -> Script \cup {Stopped}]
    BY TouchedStays DEF ScriptsOK
<1>2. ASSUME NEW j \in Seeds, seed'[j] # Stopped PROVE InOrder(seed[j])'
    <2>1. seed[j] # Stopped /\ seed'[j].step = seed[j].step /\ seed'[j].at = seed[j].at
        BY <1>2, TouchedStays
    <2> QED
        BY <2>1 DEF ScriptsOK, InOrder, Accounted
<1> QED
    BY <1>1, <1>2 DEF ScriptsOK

\* So do they if one goes on.
LEMMA ScriptGoes ==
    ASSUME ScriptsOK, Accounted, NEW i \in Seeds, NEW x \in Script \cup {Stopped},
           \/ seed' = [seed EXCEPT ![i] = x]
           \/ seed' = [Touched EXCEPT ![i] = x],
           x # Stopped => InOrder(x)'
    PROVE  ScriptsOK'
<1>1. /\ seed' \in [Seeds -> Script \cup {Stopped}] /\ seed'[i] = x
      /\ \A j \in Seeds \ {i} : seed'[j] = seed[j] \/ seed'[j] = Touched[j]
    BY TouchedStays DEF ScriptsOK
<1>2. ASSUME NEW j \in Seeds \ {i}, seed'[j] # Stopped PROVE InOrder(seed[j])'
    <2>1. seed[j] # Stopped /\ seed'[j].step = seed[j].step /\ seed'[j].at = seed[j].at
        BY <1>1, <1>2, TouchedStays
    <2> QED
        BY <2>1 DEF ScriptsOK, InOrder, Accounted
<1>3. seed'[i] # Stopped => InOrder(seed[i])'
    BY <1>1 DEF InOrder
<1> QED
    BY <1>1, <1>2, <1>3 DEF ScriptsOK

SeedTypes == NamesInv /\ ScriptsOK /\ ArticlesOK /\ FiguresOK

\* Articles keep what they have when no slug is given up.
LEMMA ArticlesStay ==
    ArticlesOK /\ entries \subseteq entries' /\ UNCHANGED <<status, moving, moves, blogCount>>
    => ArticlesOK'
BY DEF ArticlesOK

\* What leaves the server alone keeps the types if it keeps those of the seed.
LEMMA SeedAlone ==
    ASSUME SeedTypes, UNCHANGED vars
    PROVE  NamesInv' /\ Accounted /\ entries \subseteq entries'
BY NamesStutter DEF SeedTypes, Accounted, vars

\* A server's step leaves the seed's rows and scripts alone.
LEMMA ServerTypes == SeedTypes /\ NamesStep /\ UNCHANGED seedVars => SeedTypes'
<1> SUFFICES ASSUME SeedTypes, NamesStep, UNCHANGED seedVars PROVE SeedTypes'
    OBVIOUS
<1>1. NamesInv'
    BY NamesStepKeeps DEF SeedTypes
<1>2. entries \subseteq entries'
    <2>1. ASSUME NEW c \in Clients, Start(c) PROVE entries \subseteq entries'
        BY <2>1 DEF Start, Register, Google, NewCompany, Onboard, Rename, NewBlog, Retag, Begin
    <2>2. ASSUME NEW c \in Clients, \/ LookUp(c) \/ Generate(c) \/ Resolve(c) \/ Resolved(c)
                                    \/ Create(c) \/ Refuse(c) \/ Fails(c)
          PROVE  entries \subseteq entries'
        BY <2>2 DEF LookUp, Generate, Resolve, Resolved, Create, Refuse, Fails
    <2> QED
        BY <2>1, <2>2 DEF NamesStep
<1>3. Accounted
    BY <1>2 DEF Accounted
<1>4. ScriptsOK' /\ ArticlesOK' /\ FiguresOK'
    BY <1>2, <1>3, ScriptsStay, ArticlesStay DEF SeedTypes, seedVars, FiguresOK
<1> QED
    BY <1>1, <1>4 DEF SeedTypes

\* A draft's slug is given up together with what the seed knows of it.
LEMMA DeletedTypes ==
    ASSUME SeedTypes, NEW s, Delete(s)
    PROVE  SeedTypes'
<1>1. NamesInv'
    BY DeleteKeeps DEF SeedTypes, Delete
<1>2. entries' = entries \ {<<"slug", s>>}
    BY DEF Delete, DeleteBlog
<1>3. Accounted
    <2>1. <<"email", SeedAuthor>> # <<"slug", s>>
        OBVIOUS
    <2> QED
        BY <1>2, <2>1 DEF Accounted
<1>4. ScriptsOK' /\ FiguresOK'
    BY <1>3, ScriptsStay DEF SeedTypes, Delete, FiguresOK
<1>5. ArticlesOK'
    <2>1. status' \in [Articles -> {"none", "draft", "published", "archived"}]
        BY DEF Delete, SeedTypes, ArticlesOK
    <2>2. ASSUME NEW a \in Articles, status'[a] # "none" PROVE <<"slug", a>> \in entries'
        <3>1. a # s /\ status[a] # "none"
            BY <2>2 DEF Delete
        <3>2. <<"slug", a>> # <<"slug", s>>
            BY <3>1
        <3> QED
            BY <1>2, <3>1, <3>2 DEF SeedTypes, ArticlesOK
    <2> QED
        BY <2>1, <2>2 DEF Delete, SeedTypes, ArticlesOK
<1> QED
    BY <1>1, <1>4, <1>5 DEF SeedTypes

\* A script begins in order.
LEMMA StartSeedTypes ==
    ASSUME SeedTypes, NEW i \in Seeds, StartSeed(i)
    PROVE  SeedTypes'
<1> DEFINE x == [step |-> "upsert", at |-> 1, counted |-> 0, calm |-> FALSE]
<1>1. x \in Script
    BY ListedIsFinite DEF Script, Steps
<1>2. InOrder(x)'
    BY DEF InOrder
<1>3. seed' = [seed EXCEPT ![i] = x]
    BY DEF StartSeed
<1> HIDE DEF x
<1>4. ScriptsOK'
    BY <1>1, <1>2, <1>3, SeedAlone, ScriptGoes DEF SeedTypes, StartSeed
<1>5. ArticlesOK'
    BY SeedAlone, ArticlesStay DEF SeedTypes, StartSeed, rows
<1>6. FiguresOK'
    BY SeedAssumption DEF SeedTypes, StartSeed, rows, FiguresOK
<1> QED
    BY <1>4, <1>5, <1>6, SeedAlone DEF SeedTypes, StartSeed

\* An upsert finds its row or creates it where the indexes let it in.
LEMMA UpsertTypes ==
    ASSUME SeedTypes, NEW i \in Seeds, Upsert(i)
    PROVE  SeedTypes'
<1>1. PICK y \in Script : y = seed[i] /\ y.step = "upsert" /\ InOrder(y)
    BY Running DEF Upsert, SeedTypes
<1> DEFINE u == Upserts[y.at]
<1>2. y.at \in 1..4
    BY <1>1 DEF InOrder
<1>3. \/ y.at = 1 /\ u.key = <<"tagSlug", SeedTagSlug>> /\ u.adds = {<<"tag", SeedTag>>}
      \/ y.at = 2 /\ u.key = <<"email", SeedAuthor>> /\ u.adds = {}
      \/ y.at = 3 /\ u.key = <<"profile", SeedAuthor>> /\ u.adds = {<<"username", SeedUsername>>}
      \/ y.at = 4 /\ u.key = <<"handle", SeedCompany>> /\ u.adds = {}
    <2>1. y.at = 1 \/ y.at = 2 \/ y.at = 3 \/ y.at = 4
        BY <1>2
    <2> QED
        BY <2>1, FourUpserts
<1>4. /\ u.key \in Entries /\ u.adds \in SUBSET Entries /\ IsFiniteSet({u.key} \cup u.adds)
      /\ u.key[1] = "profile" <=> y.at = 3
    <2>1. /\ <<"tagSlug", SeedTagSlug>> \in Entries /\ <<"email", SeedAuthor>> \in Entries
          /\ <<"profile", SeedAuthor>> \in Entries /\ <<"handle", SeedCompany>> \in Entries
          /\ <<"tag", SeedTag>> \in Entries /\ <<"username", SeedUsername>> \in Entries
        BY SeedAssumption DEF Entries
    <2>2. u.key \in Entries /\ u.adds \in SUBSET Entries /\ (u.key[1] = "profile" <=> y.at = 3)
        BY <1>3, <2>1
    <2>3. IsFiniteSet({u.key}) /\ IsFiniteSet(u.adds)
        <3>1. /\ IsFiniteSet({<<"tag", SeedTag>>}) /\ IsFiniteSet({<<"username", SeedUsername>>})
              /\ IsFiniteSet({}) /\ IsFiniteSet({u.key})
            BY FS_Singleton, FS_EmptySet
        <3> QED
            BY <1>3, <3>1
    <2> QED
        BY <2>2, <2>3, FS_Union
<1> HIDE DEF u
<1>5. \/ UNCHANGED <<entries, called>>
      \/ /\ y.at = 3 /\ u.adds \cap Present = {}
         /\ called' = [called EXCEPT ![SeedAuthor] = SeedUsername] /\ UNCHANGED entries
      \/ entries' = entries \cup ({u.key} \cup u.adds) /\ UNCHANGED called
    BY <1>1, <1>4 DEF Upsert, u
<1>6. RowsOK' /\ Kept /\ entries \subseteq entries'
    <2>1. CASE UNCHANGED <<entries, called>>
        BY <2>1, RowsStay DEF SeedTypes, NamesInv
    <2>2. CASE /\ y.at = 3 /\ u.adds \cap Present = {}
               /\ called' = [called EXCEPT ![SeedAuthor] = SeedUsername] /\ UNCHANGED entries
        <3>1. <<"email", SeedAuthor>> \in entries /\ u.adds = {<<"username", SeedUsername>>}
            BY <1>1, <1>3, <2>2 DEF InOrder
        <3>2. <<"username", SeedUsername>> \notin Present
            BY <2>2, <3>1
        <3> QED
            BY <2>2, <3>1, <3>2, SeedAssumption, RowsNamed DEF SeedTypes, NamesInv
    <2>3. CASE entries' = entries \cup ({u.key} \cup u.adds) /\ UNCHANGED called
        <3>1. {u.key} \cup u.adds \in SUBSET Entries
            BY <1>4
        <3> QED
            BY <1>4, <2>3, <3>1, RowsAdded DEF SeedTypes, NamesInv
    <2> QED
        BY <1>5, <2>1, <2>2, <2>3
<1>7. NamesInv'
    BY <1>6, TasksStay DEF SeedTypes, NamesInv, Upsert, RefusedOnlyIfRaced
<1>8. Accounted
    BY <1>6 DEF Accounted
<1>9. ScriptsOK'
    <2>1. CASE y.at < 4
        <3> DEFINE x == Onward(y, "upsert", y.at + 1)
        <3>1. x \in Script /\ x.step = "upsert" /\ x.at = y.at + 1
            <4>1. y.at + 1 \in Nat \ {0} /\ "upsert" \in Steps
                BY <1>2 DEF Steps
            <4> QED
                BY <4>1, ScriptAt
        <3>2. seed' = [seed EXCEPT ![i] = x]
            BY <1>1, <2>1, FourUpserts DEF Upsert, Go, Onward
        <3>3. x.at = 3 => <<"email", SeedAuthor>> \in entries'
            <4> SUFFICES ASSUME x.at = 3 PROVE <<"email", SeedAuthor>> \in entries'
                OBVIOUS
            <4>1. y.at = 2
                BY <1>2, <3>1
            <4>2. u.key = <<"email", SeedAuthor>>
                BY <1>3, <4>1
            <4>3. u.key \in Present => u.key \in entries
                BY <4>2 DEF Present
            <4>4. u.key \in Present \/ u.key \in entries'
                BY <1>1, <1>4, <4>1 DEF Upsert, u
            <4> QED
                BY <1>6, <4>2, <4>3, <4>4
        <3> HIDE DEF x
        <3>4. InOrder(x)'
            BY <1>2, <2>1, <3>1, <3>3 DEF InOrder
        <3> QED
            BY <1>8, <3>1, <3>2, <3>4, ScriptGoes DEF SeedTypes
    <2>2. CASE ~(y.at < 4)
        <3> DEFINE x == Onward(y, "count", 1)
        <3>1. x \in Script /\ x.step = "count" /\ x.at = 1
            BY <1>1, ScriptAt DEF Steps
        <3>2. seed' = [seed EXCEPT ![i] = x]
            BY <1>1, <2>2, FourUpserts DEF Upsert, Go, Onward
        <3> HIDE DEF x
        <3>3. InOrder(x)'
            BY <3>1, ListedIsFinite DEF InOrder
        <3> QED
            BY <1>8, <3>1, <3>2, <3>3, ScriptGoes DEF SeedTypes
    <2> QED
        BY <2>1, <2>2
<1>10. ArticlesOK' /\ FiguresOK'
    BY <1>6, ArticlesStay DEF SeedTypes, Upsert, rows, FiguresOK
<1> QED
    BY <1>7, <1>9, <1>10 DEF SeedTypes

\* A script goes on without a word to the server.
LEMMA ScriptMoves ==
    ASSUME SeedTypes, UNCHANGED vars, NEW i \in Seeds, NEW x \in Script \cup {Stopped},
           \/ seed' = [seed EXCEPT ![i] = x]
           \/ seed' = [Touched EXCEPT ![i] = x],
           x # Stopped => x.step # "upsert" /\ x.at \in 1..Len(Listed)
    PROVE  NamesInv' /\ ScriptsOK' /\ entries \subseteq entries'
<1>1. x # Stopped => InOrder(x)'
    BY DEF InOrder
<1> QED
    BY <1>1, SeedAlone, ScriptGoes DEF SeedTypes

\* The next article, or the counts.
LEMMA NextArticle ==
    ASSUME NEW i \in Seeds, NEW y \in Script, y = seed[i], y.at \in 1..Len(Listed)
    PROVE  /\ AfterArticle(i) \in Script /\ AfterArticle(i).step \in {"find", "read"}
           /\ AfterArticle(i).at \in 1..Len(Listed)
<1>1. CASE y.at < Len(Listed)
    <2>1. PICK n \in Nat \ {0} : n = y.at + 1 /\ n \in 1..Len(Listed)
        BY <1>1, ListedIsFinite
    <2>2. AfterArticle(i) = Onward(y, "find", n)
        BY <1>1, <2>1 DEF AfterArticle, Onward
    <2>3. "find" \in Steps
        BY DEF Steps
    <2>4. /\ Onward(y, "find", n) \in Script /\ Onward(y, "find", n).step = "find"
          /\ Onward(y, "find", n).at = n
        BY <2>3, ScriptAt
    <2> QED
        BY <2>1, <2>2, <2>4
<1>2. CASE ~(y.at < Len(Listed))
    <2> DEFINE x == [y EXCEPT !.step = "read"]
    <2>1. x \in Script /\ x.step = "read" /\ x.at = y.at
        <3>1. "read" \in Steps
            BY DEF Steps
        <3> QED
            BY <3>1 DEF Script
    <2>2. AfterArticle(i) = x
        BY <1>2 DEF AfterArticle
    <2> HIDE DEF x
    <2> QED
        BY <2>1, <2>2
<1> QED
    BY <1>1, <1>2

\* Milestones are counted, and posted by a script or the owner.
LEMMA MilestoneTypes ==
    ASSUME SeedTypes, (\E i \in Seeds : CountMilestones(i) \/ CreateMilestones(i)) \/ AddMilestone
    PROVE  SeedTypes'
<1>1. ASSUME NEW i \in Seeds, CountMilestones(i) \/ CreateMilestones(i) PROVE SeedTypes'
    <2>1. PICK y \in Script : y = seed[i]
        BY <1>1, Running DEF CountMilestones, CreateMilestones, SeedTypes
    <2>2. PICK step \in {"find", "createMany"} : seed' = [seed EXCEPT ![i] = Onward(y, step, 1)]
        BY <1>1, <2>1 DEF CountMilestones, CreateMilestones, Go, Onward
    <2>3. /\ Onward(y, step, 1) \in Script /\ Onward(y, step, 1).step # "upsert"
          /\ Onward(y, step, 1).at \in 1..Len(Listed)
        <3>1. 1 \in Nat \ {0} /\ step \in Steps /\ 1 \in 1..Len(Listed)
            BY <2>2, ListedIsFinite DEF Steps
        <3> QED
            BY <2>2, <3>1, ScriptAt
    <2>4. NamesInv' /\ ScriptsOK' /\ entries \subseteq entries'
        BY <1>1, <2>2, <2>3, ScriptMoves DEF CountMilestones, CreateMilestones
    <2>5. UNCHANGED <<status, moving, moves, blogCount, runs, disturbed>>
        BY <1>1 DEF CountMilestones, CreateMilestones, rows
    <2>6. \/ UNCHANGED <<milestones, raced>>
          \/ milestones' = Append(milestones, "seed") /\ raced' \in BOOLEAN
        BY <1>1 DEF CountMilestones, CreateMilestones, Post, rows, SeedTypes, FiguresOK
    <2>7. ArticlesOK'
        BY <2>4, <2>5, ArticlesStay DEF SeedTypes
    <2>8. FiguresOK'
        BY <2>5, <2>6 DEF SeedTypes, FiguresOK
    <2> QED
        BY <2>4, <2>7, <2>8 DEF SeedTypes
<1>2. CASE AddMilestone
    <2>1. NamesInv' /\ ScriptsOK' /\ ArticlesOK'
        BY <1>2, SeedAlone, ScriptsStay, ArticlesStay DEF AddMilestone, SeedTypes
    <2>2. FiguresOK'
        BY <1>2 DEF AddMilestone, Post, SeedTypes, FiguresOK
    <2> QED
        BY <2>1, <2>2 DEF SeedTypes
<1> QED
    BY <1>1, <1>2

\* Articles are looked for and created.
LEMMA ArticleTypes ==
    ASSUME SeedTypes, NEW i \in Seeds, FindArticle(i) \/ CreateArticle(i)
    PROVE  SeedTypes'
<1>1. PICK y \in Script : y = seed[i] /\ y.step \in {"find", "article"} /\ y.at \in 1..Len(Listed)
    BY Running DEF FindArticle, CreateArticle, SeedTypes, InOrder
<1>2. PICK z \in Script : z = AfterArticle(i) /\ z.step # "upsert" /\ z.at \in 1..Len(Listed)
    BY <1>1, NextArticle
<1>3. CASE FindArticle(i)
    <2>1. PICK x \in Script : /\ x.step # "upsert" /\ x.at \in 1..Len(Listed)
                              /\ seed' = [seed EXCEPT ![i] = x]
        <3>1. CASE <<"slug", Listed[y.at]>> \in Present
            BY <1>1, <1>2, <1>3, <3>1 DEF FindArticle
        <3>2. CASE <<"slug", Listed[y.at]>> \notin Present
            <4>1. seed' = [seed EXCEPT ![i] = Onward(y, "article", y.at)]
                BY <1>1, <1>3, <3>2 DEF FindArticle, Go, Onward
            <4>2. "article" \in Steps /\ y.at \in Nat \ {0}
                BY <1>1 DEF Steps
            <4>3. /\ Onward(y, "article", y.at) \in Script /\ Onward(y, "article", y.at).at = y.at
                  /\ Onward(y, "article", y.at).step = "article"
                BY <4>2, ScriptAt
            <4> QED
                BY <1>1, <4>1, <4>3
        <3> QED
            BY <3>1, <3>2
    <2>2. NamesInv' /\ ScriptsOK' /\ entries \subseteq entries'
        BY <1>3, <2>1, ScriptMoves DEF FindArticle
    <2> QED
        BY <1>3, <2>2, ArticlesStay DEF FindArticle, rows, SeedTypes, FiguresOK
<1>4. CASE CreateArticle(i)
    <2> DEFINE a == Listed[y.at]
    <2>1. a \in Articles /\ a \in Slugs
        BY <1>1, ListedIsFinite, SeedAssumption
    <2>2. entries' = entries \cup {<<"slug", a>>} /\ UNCHANGED <<called, task, requests, clashes>>
        BY <1>1, <1>4 DEF CreateArticle
    <2>3. status' = [status EXCEPT ![a] = IF a \in SeedPublished THEN "published" ELSE "draft"]
          /\ seed' = [Touched EXCEPT ![i] = z]
        BY <1>1, <1>2, <1>4 DEF CreateArticle
    <2> HIDE DEF a
    <2>4. RowsOK' /\ Kept
        <3>1. {<<"slug", a>>} \in SUBSET Entries
            BY <2>1 DEF Entries
        <3>2. IsFiniteSet({<<"slug", a>>})
            BY FS_Singleton
        <3> QED
            BY <2>2, <3>1, <3>2, RowsAdded DEF SeedTypes, NamesInv
    <2>5. NamesInv'
        BY <2>2, <2>4, TasksStay DEF SeedTypes, NamesInv, RefusedOnlyIfRaced
    <2>6. ScriptsOK'
        <3>1. InOrder(z)'
            BY <1>2 DEF InOrder
        <3>2. Accounted
            BY <2>2 DEF Accounted
        <3> QED
            BY <1>2, <2>3, <3>1, <3>2, ScriptGoes DEF SeedTypes
    <2>7. ArticlesOK'
        BY <1>4, <2>1, <2>2, <2>3 DEF CreateArticle, SeedTypes, ArticlesOK
    <2>8. FiguresOK'
        BY <1>4 DEF CreateArticle, Disturb, SeedTypes, FiguresOK
    <2> QED
        BY <2>5, <2>6, <2>7, <2>8 DEF SeedTypes
<1> QED
    BY <1>3, <1>4

\* What a script knows once it has read the tags.
HasRead(y) == [y EXCEPT !.step = "reset", !.counted = Cardinality(Counted),
                        !.calm = (\A a \in Articles : moving[a] = 0) /\ (\A j \in Seeds : ~Recounting(j))]

\* It has counted as many articles as there are, at most.
LEMMA ReadingTags ==
    ASSUME ScriptsOK, NEW i \in Seeds, ReadTags(i)
    PROVE  /\ HasRead(seed[i]) \in Script /\ HasRead(seed[i]).step = "reset"
           /\ HasRead(seed[i]).at = seed[i].at
           /\ HasRead(seed[i]).counted = Cardinality(Counted)
           /\ HasRead(seed[i]).calm <=> /\ \A a \in Articles : moving[a] = 0
                                        /\ \A j \in Seeds : ~Recounting(j)
           /\ seed' = [Touched EXCEPT ![i] = HasRead(seed[i])]
<1>1. PICK y \in Script : y = seed[i] /\ y.step = "read"
    BY Running DEF ReadTags
<1>2. Cardinality(Counted) \in 0..Cardinality(Articles)
    <2>1. Counted \in SUBSET Articles
        BY DEF Counted
    <2>2. IsFiniteSet(Counted) /\ Cardinality(Counted) <= Cardinality(Articles)
        BY <2>1, ListedIsFinite, FS_Subset
    <2>3. Cardinality(Counted) \in Nat
        BY <2>2, FS_CardinalityType
    <2> QED
        BY <2>2, <2>3, ListedIsFinite
<1> DEFINE calm == (\A a \in Articles : moving[a] = 0) /\ (\A j \in Seeds : ~Recounting(j))
           n == Cardinality(Counted)
           x == [y EXCEPT !.step = "reset", !.counted = n, !.calm = calm]
<1>3. Touched[i] = y
    BY <1>1 DEF Touched, Recounting
<1>4. seed' = [Touched EXCEPT ![i] = x]
    BY <1>3 DEF ReadTags
<1>5. HasRead(seed[i]) = x
    BY <1>1 DEF HasRead
<1>6. calm \in BOOLEAN
    OBVIOUS
<1>7. x.calm <=> calm
    <2> HIDE DEF calm, n
    <2> QED
        BY <1>1, <1>6 DEF Script
<1> HIDE DEF calm, n
<1>8. x \in Script /\ x.step = "reset" /\ x.at = y.at /\ x.counted = n
    BY <1>1, <1>2, <1>6 DEF Script, Steps, n
<1> QED
    BY <1>1, <1>4, <1>5, <1>7, <1>8 DEF n, calm

\* The counts are read, reset and set, or the script stops.
LEMMA CountTypes ==
    ASSUME SeedTypes, NEW i \in Seeds, ReadTags(i) \/ ResetCounts(i) \/ SetCount(i) \/ Abort(i)
    PROVE  SeedTypes'
<1>1. PICK y \in Script : y = seed[i] /\ InOrder(y)
    BY Running DEF ReadTags, ResetCounts, SetCount, Abort, SeedTypes
<1>2. PICK x \in Script \cup {Stopped} :
         /\ seed' = [seed EXCEPT ![i] = x] \/ seed' = [Touched EXCEPT ![i] = x]
         /\ x # Stopped => x.step # "upsert" /\ x.at \in 1..Len(Listed)
    <2>1. CASE ReadTags(i)
        <3>1. y.at \in 1..Len(Listed)
            BY <1>1, <2>1 DEF ReadTags, InOrder
        <3> QED
            BY <1>1, <2>1, <3>1, ReadingTags DEF SeedTypes
    <2>2. CASE ResetCounts(i)
        <3>1. seed' = [seed EXCEPT ![i] = Onward(y, "set", 1)]
            BY <1>1, <2>2 DEF ResetCounts, Go, Onward
        <3>2. "set" \in Steps /\ 1 \in Nat \ {0} /\ 1 \in 1..Len(Listed)
            BY ListedIsFinite DEF Steps
        <3>3. /\ Onward(y, "set", 1) \in Script /\ Onward(y, "set", 1).at = 1
              /\ Onward(y, "set", 1).step = "set"
            BY <3>2, ScriptAt
        <3> QED
            BY <3>1, <3>2, <3>3
    <2>3. CASE SetCount(i) \/ Abort(i)
        BY <2>3 DEF SetCount, Abort
    <2> QED
        BY <2>1, <2>2, <2>3
<1>3. UNCHANGED <<vars, milestones, status, moving, moves, runs, raced>>
    BY DEF ReadTags, ResetCounts, SetCount, Abort, rows
<1>4. NamesInv' /\ ScriptsOK' /\ entries \subseteq entries'
    BY <1>2, <1>3, ScriptMoves
<1>5. blogCount' \in Int
    BY <1>1 DEF ReadTags, ResetCounts, SetCount, Abort, rows, Script, SeedTypes, ArticlesOK
<1>6. disturbed' \in BOOLEAN
    BY DEF ReadTags, ResetCounts, SetCount, Abort, SeedTypes, FiguresOK
<1> QED
    BY <1>3, <1>4, <1>5, <1>6 DEF SeedTypes, ArticlesOK, FiguresOK

\* Articles move, and their counts follow or are lost.
LEMMA MoveTypes ==
    ASSUME SeedTypes, NEW a \in Articles, MoveArticle(a) \/ CountMove(a) \/ LoseCount(a)
    PROVE  SeedTypes'
<1>1. NamesInv' /\ ScriptsOK' /\ entries = entries'
    BY SeedAlone, ScriptsStay DEF MoveArticle, Move, CountMove, LoseCount, SeedTypes, vars
<1>2. moving' \in [Articles -> -1..1] /\ moves' \in 0..MaxMoves
    BY SeedAssumption DEF MoveArticle, Move, CountMove, LoseCount, SeedTypes, ArticlesOK
<1>3. blogCount' \in Int
    BY DEF MoveArticle, Move, CountMove, LoseCount, SeedTypes, ArticlesOK
<1>4. /\ status' \in [Articles -> {"none", "draft", "published", "archived"}]
      /\ \A b \in Articles : status'[b] # "none" => status[b] # "none"
    BY DEF MoveArticle, Move, CountMove, LoseCount, SeedTypes, ArticlesOK
<1>5. FiguresOK'
    BY DEF MoveArticle, Move, CountMove, LoseCount, Disturb, SeedTypes, FiguresOK
<1> QED
    BY <1>1, <1>2, <1>3, <1>4, <1>5 DEF SeedTypes, ArticlesOK

\* Nothing changes.
LEMMA SeedStutters == SeedTypes /\ UNCHANGED <<vars, seedVars>> => SeedTypes'
<1> SUFFICES ASSUME SeedTypes, UNCHANGED <<vars, seedVars>> PROVE SeedTypes'
    OBVIOUS
<1>1. NamesInv' /\ Accounted /\ entries \subseteq entries'
    BY SeedAlone
<1> QED
    BY <1>1, ScriptsStay, ArticlesStay DEF SeedTypes, FiguresOK, seedVars

\* Nothing has run at first.
LEMMA SeedInitially == SeedInit => SeedTypes
<1> SUFFICES ASSUME SeedInit PROVE SeedTypes
    OBVIOUS
<1>1. NamesInv
    BY NamesInitially DEF SeedInit
<1>2. ScriptsOK /\ ArticlesOK
    BY SeedAssumption DEF SeedInit, ScriptsOK, ArticlesOK
<1>3. FiguresOK
    <2>1. runs = 0 /\ 0 \in 0..MaxSeeds
        BY SeedAssumption DEF SeedInit
    <2>2. milestones = <<>> /\ raced = FALSE /\ disturbed = FALSE
        BY DEF SeedInit
    <2>3. <<>> \in Seq({"seed", "owner"})
        OBVIOUS
    <2> QED
        BY <2>1, <2>2, <2>3 DEF FiguresOK
<1> QED
    BY <1>1, <1>2, <1>3 DEF SeedTypes

\* Whoever makes a step keeps the types.
LEMMA SeedTypesKept == SeedTypes /\ [SeedNext]_<<vars, seedVars>> => SeedTypes'
BY ServerTypes, DeletedTypes, StartSeedTypes, UpsertTypes, MilestoneTypes, ArticleTypes, CountTypes,
   MoveTypes, SeedStutters DEF SeedNext

\* The types hold at any time.
LEMMA SeedTypesInvariant == SeedSpec => []SeedTypes
BY SeedInitially, SeedTypesKept, PTL DEF SeedSpec

\* They are what SeedTypeOK says.
LEMMA SeedTyped == SeedTypes => SeedTypeOK
<1> SUFFICES ASSUME SeedTypes PROVE SeedTypeOK
    OBVIOUS
<1>1. TypeOK
    BY NamesTyped DEF SeedTypes
<1>2. ASSUME NEW i \in Seeds, seed[i] # Stopped
      PROVE  /\ seed[i].at \in 1..(Len(Upserts) + Len(Listed))
             /\ seed[i].counted \in 0..Cardinality(Articles) /\ seed[i].calm \in BOOLEAN
    <2>1. PICK y \in Script : y = seed[i] /\ InOrder(y)
        BY <1>2, Running DEF SeedTypes
    <2> QED
        BY <2>1, FourUpserts, ListedIsFinite DEF InOrder, Script
<1> QED
    BY <1>1, <1>2 DEF SeedTypes, ArticlesOK, FiguresOK, SeedTypeOK

\* The rows of the script and of the server stay well-formed however both
\* interleave, and an article that the script created has its slug.
THEOREM SeedTypesHold == SeedSpec => []SeedTypeOK
BY SeedTypesInvariant, SeedTyped, PTL

\* The script's rows do not change what the server may rely on: its requests
\* are refused over nothing but what was taken after they looked.
THEOREM SeedRefusedOnlyIfRaced == SeedSpec => []RefusedOnlyIfRaced
<1>1. SeedTypes => RefusedOnlyIfRaced
    BY DEF SeedTypes, NamesInv
<1> QED
    BY <1>1, SeedTypesInvariant, PTL

-----------------------------------------------------------------------------
(* Milestones *)

\* While nobody posts between a script's count and its createMany, a script that
\* is about to create milestones still finds none.
PostedOnce ==
    ~raced => /\ \A k \in DOMAIN milestones : milestones[k] = "seed" => k = 1
              /\ \A j \in Seeds : seed[j].step = "createMany" => milestones = <<>>

\* Script i goes on to one of these steps, and all others stay where they are.
Goes(i, steps) == \E x \in Script \cup {Stopped} :
    /\ x.step \in steps
    /\ seed' = [seed EXCEPT ![i] = x] \/ seed' = [Touched EXCEPT ![i] = x]

\* What is left of a script's step when the articles, the rows and the counts
\* are left out.
LEMMA OtherSteps ==
    ASSUME SeedTypes, NEW i \in Seeds
    PROVE  /\ StartSeed(i) \/ Upsert(i) => Goes(i, {"upsert", "count"})
           /\ FindArticle(i) \/ CreateArticle(i) => Goes(i, {"find", "article", "read"})
           /\ ResetCounts(i) => Goes(i, {"set"})
           /\ ReadTags(i) => Goes(i, {"reset"})
           /\ SetCount(i) \/ Abort(i) => Goes(i, {"stopped"})
<1>1. ASSUME StartSeed(i) PROVE Goes(i, {"upsert", "count"})
    <2> DEFINE x == [step |-> "upsert", at |-> 1, counted |-> 0, calm |-> FALSE]
    <2>1. x \in Script /\ x.step = "upsert"
        BY ListedIsFinite DEF Script, Steps
    <2>2. seed' = [seed EXCEPT ![i] = x]
        BY <1>1 DEF StartSeed
    <2> HIDE DEF x
    <2> QED
        BY <2>1, <2>2 DEF Goes
<1>2. ASSUME NEW step \in Steps, NEW at \in Nat \ {0}, Go(i, step, at), seed[i].step # "stopped"
      PROVE  Goes(i, {step})
    <2>1. PICK y \in Script : y = seed[i]
        BY <1>2, Running DEF SeedTypes
    <2>2. Onward(y, step, at) \in Script /\ Onward(y, step, at).step = step
        BY ScriptAt
    <2>3. seed' = [seed EXCEPT ![i] = Onward(y, step, at)]
        BY <1>2, <2>1 DEF Go, Onward
    <2> QED
        BY <2>2, <2>3 DEF Goes
<1>3. /\ "upsert" \in Steps /\ "count" \in Steps /\ "article" \in Steps /\ "set" \in Steps
      /\ 1 \in Nat \ {0}
    BY DEF Steps
<1>4. ASSUME Upsert(i) PROVE Goes(i, {"upsert", "count"})
    <2>1. seed[i].step # "stopped" /\ seed[i].at + 1 \in Nat \ {0}
        BY <1>4, Running DEF Upsert, SeedTypes, Script
    <2>2. Go(i, "upsert", seed[i].at + 1) \/ Go(i, "count", 1)
        BY <1>4 DEF Upsert
    <2>3. Goes(i, {"upsert"}) \/ Goes(i, {"count"})
        BY <1>2, <1>3, <2>1, <2>2
    <2> QED
        BY <2>3 DEF Goes
<1>5. ASSUME FindArticle(i) \/ CreateArticle(i) PROVE Goes(i, {"find", "article", "read"})
    <2>1. PICK y \in Script : y = seed[i] /\ y.step # "stopped" /\ y.at \in 1..Len(Listed)
                              /\ y.at \in Nat \ {0}
        BY <1>5, Running DEF FindArticle, CreateArticle, SeedTypes, InOrder, Script
    <2>2. AfterArticle(i) \in Script /\ AfterArticle(i).step \in {"find", "read"}
        BY <2>1, NextArticle
    <2>3. \/ Go(i, "article", y.at)
          \/ seed' = [seed EXCEPT ![i] = AfterArticle(i)]
          \/ seed' = [Touched EXCEPT ![i] = AfterArticle(i)]
        BY <1>5, <2>1 DEF FindArticle, CreateArticle
    <2>4. CASE Go(i, "article", y.at)
        <3>1. Goes(i, {"article"})
            BY <1>2, <1>3, <2>1, <2>4
        <3> QED
            BY <3>1 DEF Goes
    <2>5. CASE \/ seed' = [seed EXCEPT ![i] = AfterArticle(i)]
               \/ seed' = [Touched EXCEPT ![i] = AfterArticle(i)]
        BY <2>2, <2>5 DEF Goes
    <2> QED
        BY <2>3, <2>4, <2>5
<1>6. ASSUME ResetCounts(i) PROVE Goes(i, {"set"})
    BY <1>2, <1>3, <1>6 DEF ResetCounts
<1>7. ASSUME ReadTags(i) PROVE Goes(i, {"reset"})
    BY <1>7, ReadingTags DEF Goes, SeedTypes
<1>8. ASSUME SetCount(i) \/ Abort(i) PROVE Goes(i, {"stopped"})
    BY <1>8 DEF SetCount, Abort, Goes, Stopped
<1> QED
    BY <1>1, <1>4, <1>5, <1>6, <1>7, <1>8

\* Nothing is posted, and no script comes to post.
LEMMA PostedStays ==
    ASSUME SeedTypes, PostedOnce, UNCHANGED <<milestones, raced>>,
           \/ seed' = seed \/ seed' = Touched
           \/ \E i \in Seeds : Goes(i, (Steps \ {"createMany"}) \cup {"stopped"})
    PROVE  PostedOnce'
<1>1. ASSUME NEW j \in Seeds, seed'[j].step = "createMany" PROVE seed[j].step = "createMany"
    <2>1. CASE seed' = seed \/ seed' = Touched
        BY <1>1, <2>1, TouchedStays DEF SeedTypes
    <2>2. ASSUME NEW i \in Seeds, Goes(i, (Steps \ {"createMany"}) \cup {"stopped"})
          PROVE  seed[j].step = "createMany"
        <3>1. PICK x \in Script \cup {Stopped} :
                 /\ x.step # "createMany"
                 /\ seed' = [seed EXCEPT ![i] = x] \/ seed' = [Touched EXCEPT ![i] = x]
            BY <2>2 DEF Goes
        <3>2. i # j => seed'[j] = seed[j] \/ seed'[j] = Touched[j]
            BY <3>1 DEF Touched, SeedTypes, ScriptsOK
        <3>3. seed'[i] = x
            BY <3>1 DEF Touched, SeedTypes, ScriptsOK
        <3> QED
            BY <1>1, <3>1, <3>2, <3>3, TouchedStays DEF SeedTypes
    <2> QED
        BY <2>1, <2>2
<1> QED
    BY <1>1 DEF PostedOnce

\* Scripts count before they post.
LEMMA PostedOnceKept == SeedTypes /\ PostedOnce /\ [SeedNext]_<<vars, seedVars>> => PostedOnce'
<1> SUFFICES ASSUME SeedTypes, PostedOnce, [SeedNext]_<<vars, seedVars>> PROVE PostedOnce'
    OBVIOUS
<1>1. CASE UNCHANGED <<vars, seedVars>>
    BY <1>1, PostedStays DEF seedVars
<1>2. CASE NamesStep /\ UNCHANGED seedVars
    BY <1>2, PostedStays DEF seedVars
<1>3. ASSUME NEW s, Delete(s) PROVE PostedOnce'
    BY <1>3, PostedStays DEF Delete
<1>4. ASSUME NEW i \in Seeds,
             \/ StartSeed(i) \/ Upsert(i) \/ FindArticle(i) \/ CreateArticle(i) \/ ReadTags(i)
             \/ ResetCounts(i) \/ SetCount(i) \/ Abort(i)
      PROVE  PostedOnce'
    <2>1. UNCHANGED <<milestones, raced>>
        BY <1>4 DEF StartSeed, Upsert, FindArticle, CreateArticle, ReadTags, ResetCounts, SetCount,
                    Abort, rows
    <2>2. Goes(i, (Steps \ {"createMany"}) \cup {"stopped"})
        BY <1>4, OtherSteps DEF Goes, Steps
    <2> QED
        BY <2>1, <2>2, PostedStays
<1>5. ASSUME NEW i \in Seeds, CountMilestones(i) PROVE PostedOnce'
    <2>1. PICK y \in Script : y = seed[i]
        BY <1>5, Running DEF CountMilestones, SeedTypes
    <2>2. UNCHANGED <<milestones, raced>>
        BY <1>5 DEF CountMilestones, rows
    <2>3. CASE milestones = <<>>
        BY <2>2, <2>3 DEF PostedOnce
    <2>4. CASE milestones # <<>>
        <3>1. seed' = [seed EXCEPT ![i] = Onward(y, "find", 1)]
            BY <1>5, <2>1, <2>4 DEF CountMilestones, NoMilestones, Go, Onward
        <3>2. Onward(y, "find", 1) \in Script /\ Onward(y, "find", 1).step = "find"
            BY ScriptAt DEF Steps
        <3>3. Goes(i, (Steps \ {"createMany"}) \cup {"stopped"})
            BY <3>1, <3>2 DEF Goes, Steps
        <3> QED
            BY <2>2, <3>3, PostedStays
    <2> QED
        BY <2>3, <2>4
<1>6. ASSUME NEW i \in Seeds, CreateMilestones(i) PROVE PostedOnce'
    <2> SUFFICES ASSUME ~raced' PROVE PostedOnce'
        BY DEF PostedOnce
    <2>1. PICK y \in Script : y = seed[i] /\ y.step = "createMany"
        BY <1>6, Running DEF CreateMilestones, SeedTypes
    <2>2. Onward(y, "find", 1).step = "find"
        <3>1. "find" \in Steps /\ 1 \in Nat \ {0}
            BY DEF Steps
        <3> QED
            BY <3>1, ScriptAt
    <2>3. seed' = [seed EXCEPT ![i] = Onward(y, "find", 1)]
        BY <1>6, <2>1 DEF CreateMilestones, Go, Onward
    <2>4. ~raced /\ \A j \in Seeds : ~(seed[j].step = "createMany" /\ seed'[j] = seed[j])
        BY <1>6 DEF CreateMilestones, Post
    <2>5. milestones = <<>>
        BY <2>1, <2>4 DEF PostedOnce
    <2>6. milestones' = <<"seed">>
        BY <1>6, <2>5 DEF CreateMilestones, Post
    <2>7. \A k \in DOMAIN milestones' : milestones'[k] = "seed" => k = 1
        BY <2>6
    <2>8. \A j \in Seeds : seed'[j].step # "createMany"
        BY <2>2, <2>3, <2>4 DEF SeedTypes, ScriptsOK
    <2> QED
        BY <2>7, <2>8 DEF PostedOnce
<1>7. CASE AddMilestone
    <2> SUFFICES ASSUME ~raced' PROVE PostedOnce'
        BY DEF PostedOnce
    <2>1. ~raced /\ seed' = seed /\ \A j \in Seeds : seed[j].step # "createMany"
        BY <1>7 DEF AddMilestone, Post
    <2>2. milestones' = Append(milestones, "owner") /\ milestones \in Seq({"seed", "owner"})
        BY <1>7 DEF AddMilestone, Post, SeedTypes, FiguresOK
    <2>3. \A k \in DOMAIN milestones' : milestones'[k] = "seed" =>
             k \in DOMAIN milestones /\ milestones[k] = "seed"
        BY <2>2
    <2> QED
        BY <2>1, <2>3 DEF PostedOnce
<1>8. ASSUME NEW a \in Articles, MoveArticle(a) \/ CountMove(a) \/ LoseCount(a) PROVE PostedOnce'
    BY <1>8, PostedStays DEF MoveArticle, Move, CountMove, LoseCount
<1> QED
    BY <1>1, <1>2, <1>3, <1>4, <1>5, <1>6, <1>7, <1>8 DEF SeedNext

\* However often the script runs, at a time or one after the other, and wherever
\* it is cut short, it posts its milestones once and first, unless somebody else
\* posts between its count and its createMany.
THEOREM SeedMilestonesOnce == SeedSpec => []MilestonesOnce
<1>1. SeedInit => PostedOnce
    BY DEF SeedInit, PostedOnce, Stopped
<1>2. SeedTypes /\ PostedOnce /\ [SeedNext]_<<vars, seedVars>> => PostedOnce'
    BY PostedOnceKept
<1>3. PostedOnce => MilestonesOnce
    BY DEF PostedOnce, MilestonesOnce
<1> QED
    BY <1>1, <1>2, <1>3, SeedTypesInvariant, PTL DEF SeedSpec

-----------------------------------------------------------------------------
(* Counts *)

Gaining  == {a \in Articles : moving[a] = 1}
Losing   == {a \in Articles : moving[a] = -1}
Balanced == blogCount = Cardinality(Counted) - Cardinality(Gaining) + Cardinality(Losing)

\* What a script that recounts calmly can rely on.
Exact(i) ==
    /\ seed[i].counted = Cardinality(Counted)
    /\ \A a \in Articles : moving[a] = 0
    /\ \A j \in Seeds \ {i} : ~Recounting(j)
    /\ seed[i].step = "set" => blogCount = 0

\* Undisturbed, the count is right but for the moves still to be counted; and
\* whoever recounts calmly makes it so.
CountsInv ==
    /\ \A i \in Seeds : Recounting(i) /\ seed[i].calm => Exact(i)
    /\ ~disturbed => /\ \A i \in Seeds : Recounting(i) => seed[i].calm
                     /\ (\A i \in Seeds : seed[i] = Stopped) => Balanced

\* Whatever articles are counted are finitely many.
LEMMA CountedIsFinite ==
    ASSUME NEW A \in SUBSET Articles
    PROVE  /\ IsFiniteSet(A) /\ Cardinality(A) \in Nat
           /\ \A a \in Articles : /\ a \notin A => Cardinality(A \cup {a}) = Cardinality(A) + 1
                                  /\ a \in A => Cardinality(A \ {a}) = Cardinality(A) - 1
<1>1. IsFiniteSet(A)
    BY ListedIsFinite, FS_Subset
<1>2. Cardinality(A) \in Nat
    BY <1>1, FS_CardinalityType
<1>3. ASSUME NEW a \in Articles, a \notin A PROVE Cardinality(A \cup {a}) = Cardinality(A) + 1
    BY <1>1, <1>3, FS_AddElement
<1>4. ASSUME NEW a \in Articles, a \in A PROVE Cardinality(A \ {a}) = Cardinality(A) - 1
    BY <1>1, <1>4, FS_RemoveElement
<1> QED
    BY <1>1, <1>2, <1>3, <1>4

\* A move leaves the balance: the article, and what is still to be counted.
LEMMA MoveBalances ==
    ASSUME SeedTypes, Balanced, NEW a \in Articles, MoveArticle(a)
    PROVE  Balanced'
<1>1. /\ Counted \in SUBSET Articles /\ Gaining \in SUBSET Articles /\ Losing \in SUBSET Articles
    BY DEF Counted, Gaining, Losing
<1>2. /\ Cardinality(Counted) \in Nat /\ Cardinality(Gaining) \in Nat
      /\ Cardinality(Losing) \in Nat /\ blogCount' = blogCount
    BY <1>1, CountedIsFinite DEF MoveArticle, Move
<1>3. a \notin Gaining /\ a \notin Losing
    BY DEF MoveArticle, Move, Gaining, Losing
<1>4. CASE Move(a, "draft", "published", 1) \/ Move(a, "archived", "published", 1)
    <2>1. /\ a \notin Counted /\ Counted' = Counted \cup {a}
          /\ Gaining' = Gaining \cup {a} /\ Losing' = Losing
        BY <1>4 DEF Move, Counted, Gaining, Losing, SeedTypes, ArticlesOK
    <2>2. /\ Cardinality(Counted') = Cardinality(Counted) + 1
          /\ Cardinality(Gaining') = Cardinality(Gaining) + 1
        BY <1>1, <1>3, <2>1, CountedIsFinite
    <2> QED
        BY <1>2, <2>1, <2>2 DEF Balanced
<1>5. CASE Move(a, "published", "archived", -1)
    <2>1. /\ a \in Counted /\ Counted' = Counted \ {a}
          /\ Gaining' = Gaining /\ Losing' = Losing \cup {a}
        BY <1>5 DEF Move, Counted, Gaining, Losing, SeedTypes, ArticlesOK
    <2>2. /\ Cardinality(Counted') = Cardinality(Counted) - 1
          /\ Cardinality(Losing') = Cardinality(Losing) + 1
        BY <1>1, <1>3, <2>1, CountedIsFinite
    <2> QED
        BY <1>2, <2>1, <2>2 DEF Balanced
<1> QED
    BY <1>4, <1>5 DEF MoveArticle

\* So does counting it.
LEMMA CountMoveBalances ==
    ASSUME SeedTypes, Balanced, NEW a \in Articles, CountMove(a)
    PROVE  Balanced'
<1>1. /\ Counted \in SUBSET Articles /\ Gaining \in SUBSET Articles /\ Losing \in SUBSET Articles
    BY DEF Counted, Gaining, Losing
<1>2. /\ Cardinality(Counted) \in Nat /\ Cardinality(Gaining) \in Nat
      /\ Cardinality(Losing) \in Nat /\ Counted' = Counted
    BY <1>1, CountedIsFinite DEF CountMove, Counted
<1>3. moving[a] = 1 \/ moving[a] = -1
    BY DEF CountMove, SeedTypes, ArticlesOK
<1>4. CASE moving[a] = 1
    <2>1. /\ a \in Gaining /\ Gaining' = Gaining \ {a} /\ Losing' = Losing
          /\ blogCount' = blogCount + 1
        BY <1>4 DEF CountMove, Gaining, Losing, SeedTypes, ArticlesOK
    <2>2. Cardinality(Gaining') = Cardinality(Gaining) - 1
        BY <1>1, <2>1, CountedIsFinite
    <2> QED
        BY <1>2, <2>1, <2>2 DEF Balanced
<1>5. CASE moving[a] = -1
    <2>1. /\ a \in Losing /\ Losing' = Losing \ {a} /\ Gaining' = Gaining
          /\ blogCount' = blogCount + (-1)
        BY <1>5 DEF CountMove, Gaining, Losing, SeedTypes, ArticlesOK
    <2>2. Cardinality(Losing') = Cardinality(Losing) - 1
        BY <1>1, <2>1, CountedIsFinite
    <2> QED
        BY <1>2, <2>1, <2>2 DEF Balanced
<1> QED
    BY <1>3, <1>4, <1>5

\* When nothing moves, the balance is the count.
LEMMA Settled ==
    (\A a \in Articles : moving[a] = 0) => (Balanced <=> blogCount = Cardinality(Counted))
<1> SUFFICES ASSUME \A a \in Articles : moving[a] = 0
             PROVE  Balanced <=> blogCount = Cardinality(Counted)
    OBVIOUS
<1>1. Gaining = {} /\ Losing = {}
    BY DEF Gaining, Losing
<1>2. Cardinality({}) = 0
    BY FS_EmptySet
<1>3. Cardinality(Counted) \in Nat
    BY CountedIsFinite DEF Counted
<1> QED
    BY <1>1, <1>2, <1>3 DEF Balanced

\* Nothing happens to the articles, and nobody begins or ends.
LEMMA CountsStay ==
    ASSUME SeedTypes, CountsInv, Counted' = Counted, UNCHANGED <<moving, blogCount, disturbed>>,
           \/ seed' = seed
           \/ \E i \in Seeds : /\ seed'[i].step \notin {"reset", "set", "stopped"}
                               /\ \A j \in Seeds \ {i} : seed'[j] = seed[j]
    PROVE  CountsInv'
<1>1. Gaining' = Gaining /\ Losing' = Losing
    BY DEF Gaining, Losing
<1>2. CASE seed' = seed
    BY <1>1, <1>2 DEF CountsInv, Exact, Recounting, Balanced
<1>3. ASSUME NEW i \in Seeds, seed'[i].step \notin {"reset", "set", "stopped"},
             \A j \in Seeds \ {i} : seed'[j] = seed[j]
      PROVE  CountsInv'
    <2>1. seed'[i] # Stopped /\ ~Recounting(i)'
        BY <1>3 DEF Stopped, Recounting
    <2>2. \A j \in Seeds : Recounting(j)' => /\ Recounting(j) /\ j # i /\ seed'[j] = seed[j]
        BY <1>3, <2>1 DEF Recounting
    <2>3. \A j \in Seeds : Exact(j) /\ Recounting(j)' => Exact(j)'
        BY <2>2 DEF Exact
    <2> QED
        BY <2>1, <2>2, <2>3 DEF CountsInv
<1> QED
    BY <1>2, <1>3

\* An article or a count is touched, and whoever recounts will not be calm.
LEMMA CountsDisturbed ==
    ASSUME SeedTypes, CountsInv, Disturb,
           \A j \in Seeds : Recounting(j)' => Recounting(j) /\ seed'[j].calm = FALSE,
           ~disturbed /\ (\A j \in Seeds : seed'[j] = Stopped) => Balanced'
    PROVE  CountsInv'
<1>1. ~disturbed' => ~disturbed /\ \A j \in Seeds : ~Recounting(j)
    BY DEF Disturb
<1> QED
    BY <1>1 DEF CountsInv

\* The server's other requests, and the script's other steps.
LEMMA CountsUnrelated ==
    ASSUME SeedTypes, CountsInv,
           \/ NamesStep /\ UNCHANGED seedVars
           \/ UNCHANGED <<vars, seedVars>>
           \/ \E s : Delete(s)
           \/ AddMilestone
           \/ \E i \in Seeds : StartSeed(i) \/ Upsert(i) \/ CountMilestones(i)
                               \/ CreateMilestones(i) \/ FindArticle(i)
    PROVE  CountsInv'
<1>1. ASSUME NEW s, Delete(s) PROVE CountsInv'
    <2>1. Counted' = Counted
        BY <1>1 DEF Delete, Counted, SeedTypes, ArticlesOK
    <2> QED
        BY <1>1, <2>1, CountsStay DEF Delete
<1>2. CASE (NamesStep /\ UNCHANGED seedVars) \/ UNCHANGED <<vars, seedVars>> \/ AddMilestone
    <2>1. Counted' = Counted
        BY <1>2 DEF Counted, AddMilestone, seedVars
    <2> QED
        BY <1>2, <2>1, CountsStay DEF AddMilestone, seedVars
<1>3. ASSUME NEW i \in Seeds, StartSeed(i) \/ Upsert(i) \/ CountMilestones(i)
                              \/ CreateMilestones(i) \/ FindArticle(i)
      PROVE  CountsInv'
    <2>1. Counted' = Counted /\ UNCHANGED <<moving, blogCount, disturbed>>
        BY <1>3 DEF StartSeed, Upsert, CountMilestones, CreateMilestones, FindArticle, Counted, rows
    <2>2. \A j \in Seeds \ {i} : seed'[j] = seed[j]
        BY <1>3 DEF StartSeed, Upsert, CountMilestones, CreateMilestones, FindArticle, Go,
                    SeedTypes, ScriptsOK
    <2>3. seed'[i].step \notin {"reset", "set", "stopped"}
        <3>1. CASE StartSeed(i) \/ Upsert(i) \/ FindArticle(i)
            <4>1. PICK x \in Script \cup {Stopped} :
                     /\ x.step \in {"upsert", "count", "find", "article", "read"}
                     /\ seed' = [seed EXCEPT ![i] = x] \/ seed' = [Touched EXCEPT ![i] = x]
                BY <3>1, OtherSteps DEF Goes
            <4> QED
                BY <4>1 DEF SeedTypes, ScriptsOK, Touched
        <3>2. CASE CountMilestones(i) \/ CreateMilestones(i)
            <4>1. PICK y \in Script : y = seed[i]
                BY <3>2, Running DEF CountMilestones, CreateMilestones, SeedTypes
            <4>2. PICK step \in {"find", "createMany"} : seed' = [seed EXCEPT ![i] = Onward(y, step, 1)]
                BY <3>2, <4>1 DEF CountMilestones, CreateMilestones, Go, Onward
            <4>3. Onward(y, step, 1).step = step
                <5>1. step \in Steps /\ 1 \in Nat \ {0}
                    BY <4>2 DEF Steps
                <5> QED
                    BY <5>1, ScriptAt
            <4> QED
                BY <4>2, <4>3 DEF SeedTypes, ScriptsOK
        <3> QED
            BY <1>3, <3>1, <3>2
    <2> QED
        BY <2>1, <2>2, <2>3, CountsStay
<1> QED
    BY <1>1, <1>2, <1>3

\* Articles are created and moved, and moves counted.
LEMMA CountsTouched ==
    ASSUME SeedTypes, CountsInv,
           \/ \E i \in Seeds : CreateArticle(i)
           \/ \E a \in Articles : MoveArticle(a) \/ CountMove(a)
    PROVE  CountsInv'
<1>1. ASSUME NEW i \in Seeds, CreateArticle(i) PROVE CountsInv'
    <2>1. PICK y \in Script : y = seed[i] /\ y.at \in 1..Len(Listed)
        BY <1>1, Running DEF CreateArticle, SeedTypes, InOrder
    <2>2. PICK x \in Script : x = AfterArticle(i) /\ x.step \in {"find", "read"}
        BY <2>1, NextArticle
    <2>3. seed' = [Touched EXCEPT ![i] = x] /\ Disturb
        BY <1>1, <2>2 DEF CreateArticle
    <2>4. seed'[i] = x /\ \A j \in Seeds \ {i} : seed'[j] = Touched[j]
        BY <2>3, TouchedStays DEF SeedTypes
    <2>5. \A j \in Seeds : Recounting(j)' => Recounting(j) /\ seed'[j].calm = FALSE
        <3> SUFFICES ASSUME NEW j \in Seeds, Recounting(j)'
                     PROVE  Recounting(j) /\ seed'[j].calm = FALSE
            OBVIOUS
        <3>1. j # i
            BY <2>2, <2>4 DEF Recounting
        <3>2. seed'[j] = Touched[j] /\ Recounting(j)
            BY <2>4, <3>1, TouchedStays DEF Recounting, SeedTypes
        <3>3. PICK z \in Script : z = seed[j]
            BY <3>2, Running DEF Recounting, SeedTypes
        <3> QED
            BY <3>2, <3>3 DEF Touched, Script
    <2>6. seed'[i] # Stopped
        BY <2>2, <2>4, ScriptsRun
    <2> QED
        BY <2>3, <2>5, <2>6, CountsDisturbed
<1>2. ASSUME NEW a \in Articles, MoveArticle(a) \/ CountMove(a) PROVE CountsInv'
    <2>1. seed' = Touched /\ Disturb
        BY <1>2 DEF MoveArticle, Move, CountMove
    <2>2. \A j \in Seeds : Recounting(j)' => Recounting(j) /\ seed'[j].calm = FALSE
        <3> SUFFICES ASSUME NEW j \in Seeds, Recounting(j)'
                     PROVE  Recounting(j) /\ seed'[j].calm = FALSE
            OBVIOUS
        <3>1. seed'[j] = Touched[j] /\ Recounting(j)
            BY <2>1, TouchedStays DEF Recounting, SeedTypes
        <3>2. PICK z \in Script : z = seed[j]
            BY <3>1, Running DEF Recounting, SeedTypes
        <3> QED
            BY <3>1, <3>2 DEF Touched, Script
    <2>3. ASSUME ~disturbed, \A j \in Seeds : seed'[j] = Stopped PROVE Balanced'
        <3>1. \A j \in Seeds : seed[j] = Stopped
            BY <2>1, <2>3, TouchedStays DEF SeedTypes
        <3>2. Balanced
            BY <2>3, <3>1 DEF CountsInv
        <3> QED
            BY <1>2, <3>2, MoveBalances, CountMoveBalances
    <2> QED
        BY <2>1, <2>2, <2>3, CountsDisturbed
<1> QED
    BY <1>1, <1>2

\* A recount that begins is calm if nothing moves and nobody else recounts.
LEMMA CountsRead ==
    ASSUME SeedTypes, CountsInv, NEW i \in Seeds, ReadTags(i)
    PROVE  CountsInv'
<1>1. PICK x \in Script :
         /\ x.step = "reset" /\ x.counted = Cardinality(Counted)
         /\ x.calm <=> (\A a \in Articles : moving[a] = 0) /\ (\A j \in Seeds : ~Recounting(j))
         /\ seed' = [Touched EXCEPT ![i] = x]
    BY ReadingTags DEF SeedTypes
<1>2. seed'[i] = x /\ \A j \in Seeds \ {i} : seed'[j] = Touched[j]
    BY <1>1, TouchedStays DEF SeedTypes
<1>3. /\ Counted' = Counted /\ UNCHANGED <<moving, blogCount>>
      /\ disturbed' <=> disturbed \/ ~x.calm
    BY <1>1 DEF ReadTags, Counted, rows, SeedTypes, FiguresOK
<1>4. x # Stopped
    BY ScriptsRun
<1>5. \A j \in Seeds \ {i} : Recounting(j)' => Recounting(j) /\ ~seed'[j].calm
    BY <1>2, TouchedStays DEF Recounting, SeedTypes
<1>6. x.calm => Exact(i)'
    BY <1>1, <1>2, <1>3, <1>5 DEF Exact
<1>7. \A j \in Seeds : Recounting(j)' /\ seed'[j].calm => Exact(j)'
    BY <1>2, <1>5, <1>6
<1>8. ~disturbed' => \A j \in Seeds : Recounting(j)' => seed'[j].calm
    BY <1>1, <1>2, <1>3, <1>5
<1> QED
    BY <1>2, <1>4, <1>7, <1>8 DEF CountsInv

\* A script that recounts calmly ends with the right count.
LEMMA CountsSet ==
    ASSUME SeedTypes, CountsInv, NEW i \in Seeds, ResetCounts(i) \/ SetCount(i)
    PROVE  CountsInv'
<1>1. PICK y \in Script : y = seed[i] /\ Recounting(i)
    BY Running DEF ResetCounts, SetCount, SeedTypes, Recounting
<1>2. Counted' = Counted /\ UNCHANGED moving /\ \A j \in Seeds \ {i} : seed'[j] = seed[j]
    BY DEF ResetCounts, SetCount, Counted, Go, SeedTypes, ScriptsOK
<1>3. \A j \in Seeds \ {i} : Recounting(j) => ~seed[j].calm
    BY <1>1 DEF CountsInv, Exact
<1>4. \A j \in Seeds \ {i} : Recounting(j)' => Recounting(j) /\ ~seed'[j].calm
    BY <1>2, <1>3 DEF Recounting
<1>5. y.calm => \A j \in Seeds \ {i} : ~Recounting(j)
    BY <1>1 DEF CountsInv, Exact
<1>6. CASE ResetCounts(i)
    <2> DEFINE x == Onward(y, "set", 1)
    <2>1. x \in Script /\ x.step = "set" /\ x.counted = y.counted /\ x.calm = y.calm
        <3>1. "set" \in Steps /\ 1 \in Nat \ {0}
            BY DEF Steps
        <3> QED
            BY <3>1, ScriptAt
    <2>2. seed'[i] = x /\ blogCount' = 0 /\ UNCHANGED disturbed
        BY <1>1, <1>6 DEF ResetCounts, Go, Onward, SeedTypes, ScriptsOK
    <2> HIDE DEF x
    <2>3. ASSUME x.calm PROVE Exact(i)'
        <3>1. Exact(i)
            BY <1>1, <2>1, <2>3 DEF CountsInv
        <3> QED
            BY <1>1, <1>2, <1>4, <1>5, <2>1, <2>2, <2>3, <3>1 DEF Exact
    <2>4. x # Stopped
        BY <2>1, ScriptsRun
    <2>5. ~disturbed' => y.calm
        BY <1>1, <2>2 DEF CountsInv
    <2>6. ~disturbed' => \A j \in Seeds \ {i} : ~Recounting(j)'
        BY <1>4, <1>5, <2>5
    <2>7. \A j \in Seeds : Recounting(j)' /\ seed'[j].calm => Exact(j)'
        BY <1>4, <2>2, <2>3
    <2> QED
        BY <2>1, <2>2, <2>4, <2>5, <2>6, <2>7 DEF CountsInv
<1>7. CASE SetCount(i)
    <2>1. seed'[i] = Stopped /\ ~Recounting(i)'
        BY <1>7 DEF SetCount, SeedTypes, ScriptsOK, Stopped, Recounting
    <2>2. disturbed' <=> disturbed /\ ~y.calm
        BY <1>1, <1>7 DEF SetCount, SeedTypes, FiguresOK
    <2>3. ~disturbed' => y.calm
        BY <1>1, <2>2 DEF CountsInv
    <2>4. ASSUME y.calm PROVE Balanced'
        <3>1. /\ y.counted = Cardinality(Counted) /\ y.step = "set" /\ blogCount = 0
              /\ \A a \in Articles : moving[a] = 0
            BY <1>1, <1>7, <2>4 DEF CountsInv, Exact, SetCount
        <3>2. blogCount' = Cardinality(Counted) /\ blogCount' = y.counted
            <4>1. Cardinality(Counted) \in Nat
                BY CountedIsFinite DEF Counted
            <4> QED
                BY <1>1, <1>7, <3>1, <4>1 DEF SetCount
        <3>3. blogCount' = Cardinality(Counted')
            BY <1>2, <3>2
        <3>4. Gaining' = {} /\ Losing' = {}
            BY <1>2, <3>1 DEF Gaining, Losing
        <3>5. Cardinality({}) = 0 /\ Cardinality(Counted') \in Nat
            <4>1. Cardinality(Counted) \in Nat
                BY CountedIsFinite DEF Counted
            <4> QED
                BY <1>2, <4>1, FS_EmptySet
        <3> QED
            BY <3>3, <3>4, <3>5 DEF Balanced
    <2>5. \A j \in Seeds : Recounting(j)' => j # i /\ ~seed'[j].calm
        BY <1>4, <2>1
    <2>6. ~disturbed' => \A j \in Seeds : ~Recounting(j)'
        BY <1>4, <1>5, <2>1, <2>3
    <2> QED
        BY <2>3, <2>4, <2>5, <2>6 DEF CountsInv
<1> QED
    BY <1>6, <1>7

\* A script or a count that is lost disturbs.
LEMMA CountsLost ==
    ASSUME SeedTypes, CountsInv,
           \/ \E i \in Seeds : Abort(i)
           \/ \E a \in Articles : LoseCount(a)
    PROVE  CountsInv'
<1>1. ASSUME NEW i \in Seeds, Abort(i) PROVE CountsInv'
    <2>1. /\ disturbed' = TRUE /\ Counted' = Counted /\ UNCHANGED <<moving, blogCount>>
          /\ seed'[i] = Stopped /\ \A j \in Seeds \ {i} : seed'[j] = seed[j]
        BY <1>1 DEF Abort, Counted, rows, SeedTypes, ScriptsOK
    <2>2. \A j \in Seeds : Recounting(j)' => Recounting(j) /\ seed'[j] = seed[j]
        BY <2>1 DEF Recounting, Stopped
    <2>3. \A j \in Seeds : Exact(j) /\ Recounting(j)' => Exact(j)'
        BY <2>1, <2>2 DEF Exact
    <2> QED
        BY <2>1, <2>2, <2>3 DEF CountsInv
<1>2. ASSUME NEW a \in Articles, LoseCount(a) PROVE CountsInv'
    <2>1. disturbed' = TRUE /\ seed' = seed /\ moving[a] # 0
        BY <1>2 DEF LoseCount
    <2>2. \A j \in Seeds : ~(Recounting(j)' /\ seed'[j].calm)
        BY <2>1 DEF CountsInv, Exact, Recounting
    <2> QED
        BY <2>1, <2>2 DEF CountsInv
<1> QED
    BY <1>1, <1>2

\* The script may be run at any time: whatever the counts were, a run that nobody
\* disturbs while it recounts leaves the tag with the number of its published
\* articles, and the moves of articles after it keep that number.
THEOREM SeedCountsRepaired == SeedSpec => []CountsRepaired
<1>1. SeedInit => CountsInv
    <2> SUFFICES ASSUME SeedInit PROVE CountsInv
        OBVIOUS
    <2>1. Counted = {} /\ blogCount = 0 /\ \A a \in Articles : moving[a] = 0
        BY DEF SeedInit, Counted
    <2>2. Balanced
        BY <2>1, Settled, FS_EmptySet
    <2> QED
        BY <2>2 DEF SeedInit, CountsInv, Recounting, Stopped
<1>2. SeedTypes /\ CountsInv /\ [SeedNext]_<<vars, seedVars>> => CountsInv'
    BY CountsUnrelated, CountsTouched, CountsRead, CountsSet, CountsLost DEF SeedNext
<1>3. CountsInv => CountsRepaired
    BY Settled DEF CountsInv, CountsRepaired, Counted
<1> QED
    BY <1>1, <1>2, <1>3, SeedTypesInvariant, PTL DEF SeedSpec

=============================================================================
