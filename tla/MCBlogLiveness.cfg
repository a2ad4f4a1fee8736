\* Two blogs with a tag in common and one without a profile behind it.
\* No symmetry: TLC checks liveness here.
SPECIFICATION FairSpec
CONSTANTS
    NoDate = NoDate
    Blogs = {b1, b2}
    Tags = {t1}
    Clients = {c1}
    Workers = {w1}
    Profiled = {b1}
    MaxTime = 1
    MaxRequests = 3
    MaxFaults = 2
PROPERTIES DueIsHandled CountsConverge
CHECK_DEADLOCK FALSE
