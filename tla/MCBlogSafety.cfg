\* One blog, so that everybody meets on it: four requests, two of them at a
\* time, are enough to publish, archive and restore it with a fourth racing
\* any of them; two cron runs overlap; one statement fails or one crash.
SPECIFICATION Spec
CONSTANTS
    NoDate = NoDate
    Blogs = {b1}
    Tags = {t1}
    Clients = {c1, c2}
    Workers = {w1, w2}
    Profiled = {b1}
    MaxTime = 1
    MaxRequests = 4
    MaxFaults = 1
SYMMETRY TaskSymmetry
INVARIANTS TypeOK TagCountExact DatesMatchStatus AnnouncedWasPublished
PROPERTY AtomicUntilAnomaly
CHECK_DEADLOCK FALSE
