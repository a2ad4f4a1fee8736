\* One row of each of the script's lists, all operations of Names, two requests
\* and two scripts at a time.  The script's article and a request's have the
\* same title, its author's username is one that a request may ask for, and the
\* tag is one that both spell alike and slug differently.
\* The bounds on requests, scripts and moves let the system stop.
SPECIFICATION SeedSpec
SYMMETRY Slots
CONSTANTS
  ann = ann
  go = go
  NextJs = NextJs
  nextjs = nextjs
  next_js = next_js
  None = None
  People = {ann}
  Handles = {acme}
  Words = {go}
  Bases <- MCBases
  Chosen <- MCChosen
  Spellings = {NextJs}
  TagSlugs = {nextjs, next_js}
  SlugOf <- MCSlugOf
  Clients = {c1, c2}
  Asked = {"register", "google", "onboard", "rename", "company", "blog", "retag", "unblog"}
  MaxRequests = 2
  SeedTag = NextJs
  SeedTagSlug = nextjs
  SeedAuthor = ann
  SeedUsername <- MCSeedUsername
  SeedCompany = acme
  Listed <- MCListed
  SeedPublished <- MCSeedPublished
  Seeds = {s1, s2}
  MaxSeeds = 2
  MaxMoves = 1
INVARIANTS SeedTypeOK RefusedOnlyIfRaced MilestonesOnce CountsRepaired
CHECK_DEADLOCK FALSE
