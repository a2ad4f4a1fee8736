# Lorestack backend: TLA+ models and proofs

The repository is a NestJS server for a blogging platform: authors write blogs alone or
for a company, readers read, like, save, share and follow, owners manage a company's
team, and notifications go out about most of it. State lives in PostgreSQL behind Prisma.
The code takes no locks and uses few transactions: a handler reads a row, checks it, and
awaits one or more further statements. While it waits, other requests, the cron jobs,
other instances of the server and `setImmediate` callbacks run, and a statement or the
whole process may fail. This directory models what then happens, model-checks it with TLC
on small instances, and proves the central invariants with TLAPS for all instances.

Paths below are relative to the repository.

## 1. Inventory

### Components, their state and their operations

| Component | State | Operations | Where |
|---|---|---|---|
| Blogs | `blogs` (status, publishedAt, scheduledAt, ...), `blog_tags` | create, update, delete, publish, schedule, archive, unarchive, cover, previews | `src/modules/blogs` |
| Publishing scheduler | the batch of due blogs in memory | `publishDueBlogs`, every minute, in every instance | `blogs/services/blog-scheduler.service.ts` |
| Tags and tag counters | `tags` (name, slug, status, blogCount) | resolve or create, approve, reject; counters moved by the two components above | `src/modules/tags` |
| Companies | `companies`, `company_memberships`, `company_invites`, milestones | create, edit, invite, resend, revoke, accept, decline, remove a member | `src/modules/companies` |
| Permissions | none: pure functions of user, membership and blog | the `can...` checks | `src/common` |
| Accounts | `users`, `password_reset_tokens`, `email_verification_tokens`, `login_attempts` | register, login with lockout, OAuth, onboarding, verify, reset, change password | `src/modules/auth` |
| Refresh tokens | `refresh_tokens` (hash, expiresAt, revokedAt) | issue, rotate, revoke one, revoke all, reuse detection | `auth/services/token.service.ts` |
| Users | `users` (email, deletedAt) | read, update, delete | `src/modules/users` |
| Author profiles | `author_profiles` | create at onboarding, edit | `src/modules/author-profiles` |
| Engagement | `blog_likes`, `blog_saves`, `blog_shares`, `blog_read_sessions` | like, unlike, save, unsave, share, report reading progress; summary, saved list | `src/modules/engagement` |
| Aggregation | `blog_engagement_counters` | a job every ten minutes that recounts five tables | `engagement/engagement.aggregation.service.ts` |
| Analytics | `blog_views` | record a view with deduplication; reports | `src/modules/analytics` |
| Follows | `author_follows`, `company_follows`, `tag_follows` | follow, unfollow, lists | `src/modules/follows` |
| Notifications | `notifications` | nine event listeners, read, mark as read, delete, WebSocket push | `src/modules/notifications` |
| Discovery, search | none: queries | read published blogs | `src/modules/discovery`, `search` |
| Slugs and usernames | unique columns of blogs, companies, tags, profiles | find a free one, insert later | `src/common/utils/slug.utils.ts` |
| Seed script | tags, accounts, companies, milestones, blogs, counters | upserts, finds and creates, recounts; may be run again | `seed/index.ts` |
| Mail, health, filters, pipes, guards, configuration | none | I/O and plumbing | `src/modules/mail`, `src/common`, ... |

### How they interact

- **Shared rows.** Requests and cron runs meet on the same `blogs` rows and `tags.blogCount`;
  owners and invited persons meet on `company_invites` and `company_memberships`; logins,
  refreshes and password changes meet on `users` and `refresh_tokens`.
- **Events.** A handler that has committed queues a `setImmediate` callback that reads the
  actor's profile and emits an event; listeners of the notifications module write rows and
  push them. A crash loses what is queued; nothing is replayed.
- **Cron.** Two jobs per instance; neither takes a lock against another instance or against
  its own previous run.
- **Foreign keys.** Cascades remove the join rows, invites and tokens of a deleted row.

### What makes each component correct, and what is hard about it

- *Blog lifecycle.* Only the documented transitions; a published blog has a publication date
  and keeps it; a due blog gets published; an event never runs ahead of its publication.
  Hard: everything decides on a copy of the row that may be stale when it is written.
- *Tag counters.* A tag counts its published blogs. Hard: the counter is a second table,
  written after the status, from the copy or from the row depending on the handler.
- *Team and invites.* An invite is answered once, by its addressee, before it expires; a
  withdrawn one admits nobody; whoever accepts becomes a member; the company keeps an owner.
  Hard: an acceptance is two reads and two writes, in a race with its own withdrawal.
- *Sessions.* A refresh token is good once; reuse revokes the family; a password change or
  reset ends every session; five failures lock. Hard: rotations in parallel with each other
  and with `revokeAllForUser`; a lost count of failures.
- *Engagement.* One like and save per person; progress does not go back; counters catch up
  with the rows. Hard: parallel first likes, delayed reports, recounts that overlap.
- *Follows and notifications.* A follower hears of a publication once; an actor does not
  notify himself; deduplication within an hour; one recipient's failure is nobody else's.
  Hard: find-then-create, followers who come and go while the listener runs.
- *Slugs, usernames, tags.* Unique, whatever runs in parallel; a request is refused only if
  somebody was faster. Hard: find-then-create against a unique index, names that become free.
- *Who sees and does what.* Drafts are their author's; a company's blogs its owners' as well;
  nobody puts a blog under a company without belonging there. Hard: rights are read in one
  statement and used in a later one, in a dozen places.
- *Seed script.* May be repeated and interrupted, beside the server. Hard: what no unique
  key guards (milestones), and counters that are reset and set while the server moves them.

The full list of hazards, each at its line, is under `hazards` in `PROJECT.json`.

## 2. Modules

    BlogRows          the row, its transitions            CompanyTeam     abstract: operations of a team
      |      \                                                ^
    BlogCatalog  BlogLifecycle                            CompanyInvites  the handlers
     (abstract)    |        \                                 |        \
             MCBlogLifecycle  BlogLifecycleProofs     MCCompanyInvites  CompanyInvitesProofs
                                     |
                              BlogCatalogProofs

    Sessions    sign-ins, refresh tokens, links, the lockout
     |     \
    MCSessions  SessionsProofs

    EngagementRows   the tables, the counters' figures     AccessPolicy   abstract: who may see and do what
      |        \                                                ^
    EngagementLedger  Engagement                           Access         checks and queries, statement by statement
     (abstract)  |          \                               |      \
          MCEngagement  EngagementProofs               MCAccess  AccessProofs

    Notifications    follows, listeners, notices           Names          what has to be unique
      |         \                                           |     \
    MCNotifications  NotificationsProofs                 MCNames  SeedData   the script beside the requests
                                                              |     \
                                                        MCSeedData  SeedDataProofs

| Module | What it is | Code |
|---|---|---|
| `BlogRows` | status, dates and tags of a blog; what each `repo.update` writes; the scheduler's query | `schema.prisma`, `blogs.repository.ts`, the `data` of each update |
| `BlogCatalog` | abstract: each operation checks, writes and counts in one step | what ARCHITECTURE.md describes |
| `BlogLifecycle` | the handlers of `BlogsService`, the cron job, the counters, `setImmediate`, crashes | `blogs.service.ts`, `blog-scheduler.service.ts`, `tags.repository.ts` |
| `BlogLifecycleProofs` | theorems about it | |
| `BlogCatalogProofs` | that it implements `BlogCatalog` | |
| `CompanyTeam` | abstract: inviting, answering, withdrawing, removing in one step | |
| `CompanyInvites` | the handlers of `CompaniesService` that change the team | `companies.service.ts`, `companies.repository.ts` |
| `CompanyInvitesProofs` | theorems about it | |
| `Sessions` | what `AuthService` and `TokenService` do for one account, and its deletion | `auth.service.ts`, `token.service.ts`, `users.service.ts` |
| `SessionsProofs` | theorems about it | |
| `EngagementRows` | the tables of likes, saves, shares, views and progress; what the counters of a blog are computed from | `schema.prisma`, `engagement.aggregation.service.ts`, `analytics.service.ts` |
| `EngagementLedger` | abstract: react, share, see, read, recount in one step each | |
| `Engagement` | the handlers of readers, the aggregation job, moderators | `engagement.service.ts`, `analytics.service.ts`, `engagement.aggregation.service.ts` |
| `EngagementProofs` | theorems about it, and that it implements `EngagementLedger` | |
| `Notifications` | following, the events, the listeners, what people do with their notices | `follows.service.ts`, `notifications.listener.ts`, `notifications.service.ts` |
| `NotificationsProofs` | theorems about it | |
| `Names` | everything that is looked up or generated and then inserted under a unique index | `slug.utils.ts`, `tags.service.ts`, `auth.service.ts`, `companies.service.ts`, `author-profiles.service.ts`, `blogs.service.ts` |
| `SeedData` | `Names` with the seed script running beside it | `seed/index.ts` |
| `SeedDataProofs` | theorems about `Names` and about `SeedData` | |
| `AccessPolicy` | abstract: who may see and change what, checked and used in one step | |
| `Access` | the permission checks with the statements that fetch roles, and every query that lists blogs or companies | `permission-checker.ts`, `blogs.service.ts`, `blogs.repository.ts`, `companies.service.ts`, `discovery`, `search`, `author-profiles` |
| `AccessProofs` | that `Access` implements `AccessPolicy` | |
| `MC...` | symmetry sets and constants for TLC | |

### How state and actions correspond to the code

`row`, `blogCount`, `role`, `status`, `invited`, `inviter`, `expires` are columns. `task` holds,
per request (and per cron run), between which two statements it is and the copy of the data it
decided on: the local variables of an `async` function across an `await`. `batch` is the array
that `publishDueBlogs` iterates over. `toEmit` and `queue` are the callbacks waiting in
`setImmediate`; `announced` and `told` the events emitted. `anomalies`, `withdrawn` and `joined`
are history: no guard reads them.

In `Sessions`, `state`, `expires` and `replacedBy` are the columns of `refresh_tokens`, `link` and
`linkExpires` those of the two tables of mailed tokens, `failed` and `lockedUntil` those of
`login_attempts`. The fields `saw...` of a task are what its handler has read. `session`, `since`, `ended`,
`uses` and `guesses` are history: the sign-in a token descends from, the password that sign-in rested on,
the sessions somebody has ended, and how often a link took effect and a wrong password was tried.

In `Engagement`, `job` is a run of the cron job: the blogs it found published and the figures it has read
so far. In `Notifications`, `events` holds every event with what its listener is about to do: look somebody
up, read followers, or create rows. In `Names`, `entries` and `called` are the unique indexes, `saw` is what
a request found in them when it looked, and `clashes` keeps the entries that refused a request although it
could have seen them. In `Access`, `answer` is what the latest statement put into a response, and `relied` the
roles that a request goes by.

A handler is a `Start...` action (its reads and checks; a request that is refused changes nothing
and is left out) and one action per further statement. Each write has two ways to go wrong: the
row is gone or the unique key is taken, which the model decides from the state, or the statement
fails, which `MaxFaults` bounds. `Crash` empties everything that lives in memory.

What is abstracted:

- A Prisma call is one atomic statement, also `update` with `include` and `$transaction([...])`.
  (Two concurrent `replaceTags` transactions could in fact leave the union of two tag lists.)
- One clock for all instances. `MaxTime + 1` as the date of a schedule request stands for any date
  beyond the horizon.
- Titles, bodies and covers: no modelled decision reads them. The title check of publish is taken as passed.
  `BlogLifecycle` leaves out who may act on a blog (`Access` has it, with the statuses but without dates), and
  the reads of tags and slugs before a blog is inserted (`Names` has them).
- One company: companies share no row. Its only owner is its creator (no handler makes another),
  so the requester's membership, read before other checks, cannot change meanwhile, and that read
  is merged with the next one. A person is identified with an email address and an account.
- An invite is given its expiry when it is inserted; the code computes it one statement earlier.
- One account, registered with a password: accounts share no token, link or count. Creating accounts and
  onboarding are in `Names`; changing the email address is left out.
- A password is the number of times it was set; whether a login brings the right one is the client's
  choice. A client may present a token as soon as its row exists. No row in `login_attempts` is a count of 0.
- `forgotPassword` and `resendVerification` are merged with their read of the user: what they create is
  looked at again when it is used. So is deletion: its read has no part in what it writes.
- `isActive` is left out, since no handler clears it; so are access tokens, which are not stored, and the
  audit log, which nothing reads.
- A reader is an address (`ipHash`) and perhaps a session; the routes for views, shares and progress are
  public, so the server does not know who calls (`Caller`). Percentages are whole numbers; the trending score
  (a floating-point formula over the same figures) is left out. A client sends its reports in the order of its
  progress; they may arrive in any order. The six reads of the job are atomic one by one.
- The company of `Notifications` has the owners it has: what changes them is `CompanyInvites`. The services
  that emit are one step each there, since they emit after they have written; what they do before is in
  `Engagement`, `BlogLifecycle` and `CompanyInvites`. A listener's `Promise.all` is its statements in any order.
- `Names` keeps of each row only its unique entries. A slug is a sequence of words and numbers, so that a
  generated suffix can meet a name that somebody chose.
- Of each list in the seed script one row is kept; its one article is published.
- In `Access`, filters that narrow a list (type, date, tag, text) and pages are subsets of the list; a
  response that is put together from several statements is several answers. Members join and are removed, and
  the scheduler publishes or fails, in one step (`CompanyInvites` and `BlogLifecycle` have the statements).
- Mail is sent without awaiting and its failures are logged: left out.

### Anomalies

The abstract specifications cannot hold of code without locks, and the properties say exactly how
long they do: until the first of a few named anomalies. For blogs: `stale_write` (a row was written
that had changed since the writer read it), `live_tag_edit` (update replaced the tags of a published
blog), `lost_count` (a failure between the status and its count). For invites: `stale_write` and
`lost_join` (a failure between the acceptance and the membership). So a handler that takes a second
copy of a tag count, forgets a status check or counts on the wrong branch violates the property, and
the races that are inherent in the code do not mask it.

In `Sessions` there is no single abstract step to compare with, so each property names the anomalies
that excuse it: `stale_rotation` (the token rotated was revoked since it was read), `stale_password` (a token
issued on a password that was replaced after the sign-in had checked it), `stale_link` (a link used up
since it was read), `stale_attempt` and `lost_attempt` (a failed login counted over another, or not at all),
`lost_revocation` (a password set and the revocation failed). That a deleted account gets no token has no
anomaly: the task whose token it is must itself have read the account while it was not deleted.

An anomaly is raised by what a request has read, not by the state it happens to meet: a handler that never
looks cannot be overtaken, and violates the property instead. So `Engagement` has `late` (a row was written on a
blog that the request had found published and that was hidden since; `sawStatus`), `parallel_view` (a view was
written beside another of its reader that was not there when the request looked; `looked` is how many views
there were), `overtaken` and `lost_report` (a report was written after one that tells more, or never), `lost_event`,
and for the job `straddled` (a view between its two counts of views), `stale_counts` (a figure was made of
other rows than there are when it is written; `rows` is what it was made of) and `overlapping` (another run
wrote since this one began). `Notifications` has `parallel_reaction` (a notice written beside one just like it
that was not there when the listener looked; `looked`). In `Names` a clash
is an anomaly if the request could have seen the name; `SeedData` has `raced` (milestones posted between a
script's count and its insert) and `disturbed` (a recount that something else touched, or cut short). In
`Access` a request is `Outdated` when a role, the company of the blog or the saved list it goes by has changed
since it was read.

## 3. Runs

| Run | Instance | Shows |
|---|---|---|
| `blog_safety` | one blog, one tag, two requests at a time of four in all, two cron runs, one fault, 0..1 time | counters exact, dates match status, no event ahead of its row; `BlogLifecycle` implements `BlogCatalog` until an anomaly |
| `blog_liveness` | two blogs sharing a tag, one of them without a profile behind it, one request at a time of three, one cron run, two faults | a due blog is handled; counters come to rest on the right value |
| `invites` | two persons, one of them also an administrator, three invites, two requests at a time of five, one fault, an expiry | withdrawn invites admit nobody, owners hear the truth, the owner stays; `CompanyInvites` implements `CompanyTeam` until an anomaly |
| `invites_accept_crash` | two persons, two invites, one crash | **violated**: an accepted invite that made nobody a member |
| `sessions` | three tokens, two links, two requests at a time of five, a lock after two failures, one fault, 0..1 time | ended sessions stay ended, a session is a chain of tokens with one to use, passwords end sessions, links take effect once, the lockout bounds wrong passwords, a deleted account gets no token |
| `engagement` | one blog, its author and a reader, two requests at a time of three of every kind, a run of the job, one fault, 0..1 time | one view per session or window, each reaction announced once, progress is the depth reached; `Engagement` implements `EngagementLedger` until an anomaly |
| `engagement_counters` | two overlapping runs of the job, one request at a time of two, one fault | a summary never shows more unique than total views, and never fewer views than before, until a run is straddled or overtaken; under fairness it becomes right and stays so |
| `notifications` | two owners, one of them the author, and an administrator without a profile; three happenings of ten kinds, one fault, 0..1 time | nobody hears of an own act (milestones and publications for others excepted) or of one event twice, likes are told once a window, the right people are told, one failure harms nobody else, every event is dealt with |
| `seed` | two scripts and two requests of every kind, one move of an article, interruptions anywhere | an index refuses only who was overtaken (tag spellings excepted), milestones are seeded once, counts are repaired |
| `access` | an author, an owner, an administrator; two companies, one of which has a member, one blog that may be published already, two requests at a time of three, one change of team or saves | `Access` implements `AccessPolicy` except through requests that are outdated |
| `authors_counted` | views only | **violated**: an author's own view is counted |
| `tag_spelling` | two spellings of one tag | **violated**: a new name is refused |

The violated runs state what a document of the repository says; the findings in `PROJECT.json`
quote it.

**Why the bounds are enough.** On one blog every actor meets every other; blogs interact only
through a shared counter, which moves by one commutative increment per blog, and the liveness run
has two blogs to show a batch of more than one. Four requests allow publish, archive, unarchive and
a fourth in a race with any of them; two cron runs overlap on one batch; time 0..1 separates "not yet
due", "due" and "due in an old copy". Five invite requests allow an invite, its resend, a racing third
invite and two answers; the third identifier is what the racing one uses.
Five requests on sessions allow a sign-in, two refreshes in a race, a password set beside them and one more
refresh of an old token; three tokens make a chain of three or two sessions; two failures to a lock and
time 0..1 let a lock be reached, overrun by a request already past the check, and expire. One fault is either a failed
statement or a crash at any point.
Three requests of readers are two in a race and one before or after them; two runs of the job are enough to
overlap, and a third could only repeat what the second does. Three happenings are an event, a second one like
it or about it (an unfollow, a registration, a reading) and one more to race with either; the hour of
deduplication closes with the one tick of the clock, so a notice is within it or before it. Two scripts of `SeedData` overlap; the bases are such that a generated slug meets a
chosen username and a seeded article. Three requests of `Access` are one that is being checked, one that
moves the blog to another company under it and the creation before both; with a blog that is published at the
outset they also archive it and list it among somebody's saves, and the one change removes the member under
a request or makes that save. Symmetry (interchangeable requests, cron runs, invites) is used
only in safety runs. Deadlock is not checked: with requests, time and faults bounded, a server with
nothing left to do stops rightly.

**Fairness.** `blog_liveness` assumes weak fairness of each started request, of each cron worker and
of each blog's callback: a server that is up runs its own continuations, and `@Cron` fires every minute
(ARCHITECTURE.md, scheduler). Nothing is assumed of clients, of the clock, or of failures beyond their
bound. `engagement_counters` assumes the same of each request and of each run of the job (`@Cron` starts it
again every ten minutes whatever became of the last). `notifications` assumes weak fairness of the event loop as a
whole: while listeners have statements to run it runs one of them, of whichever listener.

## 4. Proofs

All constants are arbitrary (finite where a cardinality is taken); requests, cron runs, faults and time
are unbounded in effect since their bounds are arbitrary.

- `TypeCorrect` and `CountsExact` (`BlogLifecycleProofs`): `Spec => []TypeOK` and `Spec => []TagCountExact`.
  `TagCountExact` is not inductive: a cron task's `seen` could be any row. The strengthening is
  `IInv == TypeOK /\ TaskShape /\ CronTags /\ TagCountExact`: `TaskShape` says which operations can be in
  which step and that a task that owes a count has as `seen` the row it wrote; `CronTags` that the tags a
  cron run will count are those it saw, so they differ from the row's only after a stale write, which is an
  anomaly. The counting argument is in lemmas about how the sets of carriers and of updates in flight
  change when one row or one task changes, and their cardinalities.
- `DatesAreThere`, `AnnouncedAfterCommit` (`BlogLifecycleProofs`). `DatesMatchStatus` holds even of stale writes
  because each write leaves a row `Sound` (what it makes published or scheduled it dates; `RowChange`), which
  for `schedule` needs `ScheduledAhead`: a request that will schedule carries a date.
  `AnnouncedWasPublished` is not inductive either: `AnnounceInv` adds that whoever owes a count for a
  publication, or waits in `setImmediate`, does so for a blog that is `Dated`, and that a dated blog stays so.
- `CatalogImplemented` (`BlogCatalogProofs`): `Spec => AtomicUntilAnomaly`, the refinement of `BlogCatalog`.
  A clean write found the row its task had read (`CleanWrite`), so the check of then is the guard of
  now; `BatchDue` (what a run has read as due stays due) gives the scheduler's. That the counters move along
  is `CountsExact`, before and after the step (`SettledMoves`).
- `InvitesTyped`, `OwnerKept`, `NewsIsTrue`, `WithdrawnIsOut` (`CompanyInvitesProofs`). Types need
  `Addressed` (an invite that exists names a person) and `Aimed` (a task that will write an invite names
  one). `OwnerStays` needs `SparesCreator`: a removal under way never aims at the creator. `AcceptanceIsTrue`
  is inductive over types: the event is queued by the step that writes the membership. `WithdrawnStaysOut`
  needs `Reserved` (identifiers in the hands of different tasks differ and are unused, so a withdrawn
  invite never comes back) and `Answered` (a task about to write a membership wrote the acceptance, and
  its invite was not deleted while pending since).
- `TeamStaysTidy`, `TeamImplemented` (`CompanyInvitesProofs`). What a request has seen of roles and invites
  may be outdated; `Knowing` says what of it still holds as long as nothing has gone wrong (`Knows`, one
  clause per operation), and with it every write is admissible for `CompanyTeam`, whose roles are the
  settled ones: an acceptance half written counts as a membership (`SettledStays`).
- `SessionsTyped`, `SessionsEnd`, `SessionsAreChains`, `PasswordsEndSessions`, `DeletedGetNoTokens`,
  `LinksTakeEffectOnce`, `GuessesAreBounded` (`SessionsProofs`). Types need `Rooted` (sessions begin with issued tokens) and `Aimed`
  (what a task is about to rotate or use up it had read as live or open). The next two are proved together
  with `Fresh` (nothing replaces a token not issued): that an ended session stays ended needs chains, since a
  logout revokes one token only, and chains need that a live token has no successor. `PasswordEndsSessions`
  is inductive over types; its argument is that whoever sets the password revokes, or is lost
  (`PendingStays`, `PasswordSteps`). `LinksOnce` needs `UnusedLinks` (an open link has not taken effect).
  `GuessesBounded` follows from `Tally`: wrong passwords are counted or in the hands of a request about to count
  them; after a lock has expired only the latter are left; and those let in are reckoned with beforehand, when
  `assertLoginAllowed` lets one more in and its own slot was free (`LoginsFit` counts the slots).
  What each kind of step does to tokens is stated once, in `IssueEffect`, `RotateEffect`, `RevokeEffect`.

- `NoticesTyped`, `NobodyToldOfOwn`, `ToldOnce`, `ReactionsDeduplicated`, `OnlyTheMeantAreTold`,
  `NobodyForgotten` (`NotificationsProofs`). All follow from one invariant about each event, `EventOK`: those
  still to be told and those told are apart, both were meant (`may`), the actor is not among them, and who
  has to be told (`must`) is told, missed through a fault, still to be told, or follows a source not read yet.
  Batches matter: what `createMany` has written leaves those to be told in the same step (`BatchTold`).
  `ReactionToldOnce` needs `LooksOK`: a listener that has looked and goes on to write had found nothing alike
  among the notices written by then.

- `EngagementTyped`, `AnnouncementsExact`, `UniqueBelowTotal`, `SummariesGrow`, `ReadersCountedOnce`,
  `ProgressIsKept`, `LedgerImplemented` (`EngagementProofs`). Types need `Sensible` (which operation can be in
  which step) and that the set of reactions is finite, since its members are counted. `AnnounceInv` counts the
  requests about to announce (`Announcers`). `UniqueWithinTotal` and `CountsOnlyGrow` say what is written,
  and need what a run knows while it reads, `RunKnows`: no more views than there are, no fewer than the summary
  says unless another run has written since, and no more addresses than views unless one was straddled.
  `ProgressIsDepthReached` is not inductive, since a shallower report under way would excuse a deeper one:
  `Reached` asks for the very report that tells the depth reached, and `Honest` that none tells more.
  `OneViewPerReader` and the views of the refinement need `ViewsInv`: a request about to write a view had found
  its reader nowhere among the views there were when it looked (`Looked`), and views that covered nobody then
  cover nobody later. The progress of the refinement needs `Written`, that the row tells what the last report
  to be written said, and the rest types and `Sensible`: a request has read its blog as published,
  and a like under way is not the author's own.

- `UniqueSlugIsFree`, `NamesTypes`, `NamesRefusedOnlyIfRaced` (`SeedDataProofs`), about `Names` alone.
  `generateUniqueSlug` finds a free name by counting: it may try one more suffix than there are names taken, and
  different suffixes make different names. `RefusedOnlyIfRaced` needs of each request `Sound`, above all `Looked`:
  what it is going to add was not among what it saw (tag slugs, which nobody looks for, excepted). Whether the
  name is still free when it is inserted is then a matter of what came in between. For usernames it also needs,
  in `RowsOK`, that they belong to accounts and differ, for whoever renames gives the old name up.
- `SeedTypesHold`, `SeedRefusedOnlyIfRaced`, `SeedMilestonesOnce`, `SeedCountsRepaired` (`SeedDataProofs`). The
  invariant of `Names` holds beside any number of scripts because a script only adds entries, and keeps accounts
  (`Kept`); a script past the author's upsert has found or created that (`InOrder`). `MilestonesOnce` is not
  inductive: `PostedOnce` adds that, until somebody posts in between, a script about to create milestones still
  finds none. Nor is `CountsRepaired`: `CountsInv` says that whoever recounts undisturbed (`calm`) holds the
  right figure, with no move under way and nobody else recounting (`Exact`), and that with all scripts stopped
  the counter is the number of published articles but for the moves still to be counted (`Balanced`).
- `AccessImplementsPolicy` (`AccessProofs`): `Spec => PolicyUntilOutdated`. The invariant says of each request in
  progress what the roles it has read entitle it to: `OnBlog` (its caller is the author, or may do this in the
  company the blog was in), `UnderName` (may write under the company it names), `OnTeam` (may see that company's
  page, invites or totals, or add a milestone); and that nobody else is creating the blog it creates (`CreatesOK`). A request that is
  not outdated still holds those roles (`StillEntitled`), so its write or answer is allowed at that moment. The
  queries that list blogs and companies need no more than the types of the rows and that only whoever created a
  company owns it.

Proofs about `Names` assume that the value for "no username" is neither a person nor a slug, those about
`SeedData` that the script has at least one article; TLC evaluates both.

Three things came to light by proving. A request that renames to the username it has already does not count that
as taken (`updateMe` compares the row it finds with its caller): the model had it see its own name, which made
`RefusedOnlyIfRaced` false with more requests than the run has. Two requests that create different blogs were
kept apart by a guard that no code has. And an empty list of articles would have left a script without a step.

Only model-checked: the liveness properties (`blog_liveness`, `engagement_counters`, `notifications`), and
everything that needs ENABLED, which this prover does not handle. Every invariant and every action property
that a passing run checks is proved.

## 5. Differences from the documents met without a run

ARCHITECTURE.md 671-672 gives publish and archive narrower source statuses than the code (which also
publishes archived and failed blogs and archives failed ones); docs/PRODUCT_README.md:361 describes
cancelling a schedule back to draft, which no handler does; :467 says the owner is not notified of a
decline, :459 that the invitee is notified of an acceptance: the code tells the owners in both cases and
nobody else; an expired invite counts as pending when inviting again; a resent invite is announced by mail
only, not in the app. A logout with a token that was already rotated revokes nothing
(`revokeByHash` passes over it), so the session goes on under the newer token. ARCHITECTURE.md 472-473 calls
reset and verification links single-use: two requests at a time can both use one (`stale_link`).
The count of failed logins is not reset when a lock expires, so the next failure locks again at once.

The races that the anomalies name are also contradicted by documents, though no run is spent on each:
ARCHITECTURE.md:512 has `blogCount` maintained synchronously by publish, archive, unarchive and the cron job,
but editing a published blog's tags moves no counter; docs/TESTING.md:1263 "Only drafts can be deleted" and
docs/PRODUCT_README.md:360 (rescheduling at any time before it publishes) fail to a request or a cron run that
acts on an old read; docs/PRODUCT_README.md:464 (one pending invite per address), :162 (five failures lock) and
README.md:87 (sessions revoked on password changes) fail to two requests at a time. The anomalies
`live_tag_edit`, `stale_write`, `stale_attempt` and `stale_rotation` are exactly these.

- Likes, saves, follows, registration, Google sign-in and onboarding do not map a refusal by a unique index
  (`mapPrismaError`): the loser of a race gets a server error where the one before got a conflict.
- A follow taken back and given again notifies again (docs/NOTIFICATIONS_MODULE.md, 15, calls it one-shot).
  An owner or administrator who posts a milestone and follows the company is told of it, for `addMilestone` emits
  its event without saying who posted and the listener leaves nobody out; so is whoever publishes another's blog and
  follows its author. docs/FRONTEND_NOTIFICATIONS_CHECKLIST.md:304 says "Backend never sends notifications to
  yourself". `NotOwnAct` names these two events as its exceptions. `skipDuplicates` of both fan-outs has
  no unique key to act on; what keeps a person from hearing twice is the set the listener builds.
- The trending list and the lead article order by the score of a row that may not exist yet: PostgreSQL puts
  NULL first when descending, so blogs not yet aggregated come before the best.
- The seed's tag "Next.js" has the slug `nextjs` where `toSlug` makes `next-js`: on a database where a request
  has created that tag first, the script stops at the unique name.
- An owner may move another author's blog to a second company in which the owner writes; somebody who has
  left a company still edits their own blogs there, and publishes a draft that is under its name:
  `getAndAuthorize` lets the author pass before it asks about membership, where `canPublishUnderCompany`
  (permission-checker.ts:73-77, docs/PRODUCT_README.md:102) wants a member for every publication. `AccessPolicy` says
  what the code does: membership is needed to put a blog under a company, not to keep it there.
  `isPublic` hides a company from lists and search, not from its page. The list of saved articles shows them whatever their status. `getCompanyAnalytics` admits owners
  only, where `canViewCompanyAnalytics`, which nothing calls, would admit members and administrators.
- `shareBlog` announces a share only if it knows the user, which on a public route it never does, so
  `handleBlogShared` is dead.

## 6. Not modelled

Mail, file uploads, WebSocket delivery, HTTP plumbing, health probes and configuration: I/O or stateless.
Approving a tag and changing an account's email address are single UPDATEs of columns that nothing modelled
depends on. The trending score is floating-point arithmetic over figures that are modelled. Audit rows and
slug redirects are written or declared and never read. Statistics (`getStats`, `getMyStats`) count what the
lists show.

## 7. Plan

In this order:

1. *Done:* blog lifecycle with scheduler and counters; company invites; their first theorems.
2. *Done:* sessions: refresh tokens beside login with lockout, password change and reset, and deletion.
3. *Done:* `Engagement` with the aggregation job, `Notifications` with follows, `Names` and `SeedData`,
   `Access` with its policy.
4. *Done:* theorems about `Notifications`; dates, announcements and the refinement of `BlogCatalog`; tidy teams
   and the refinement of `CompanyTeam`; all safety properties of `Engagement` and the refinement of
   `EngagementLedger`.
5. *Done:* theorems about `Names` and `SeedData`, and the refinement of `AccessPolicy`.
6. The safety half of the liveness arguments: what has to be done is never lost sight of (for a due blog, a
   counter with an update in flight), as invariants that can be proved although liveness itself cannot.
