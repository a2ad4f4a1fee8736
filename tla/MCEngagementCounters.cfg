\* Two runs of the job that overlap, a request, and every figure that they read
\* and that the properties compare.  Without a clock every view is recent.
\* The bounds on requests and faults let the system stop.
SPECIFICATION FairSpec
CONSTANTS
    None = None
    ann = ann
    ben = ben
    Blogs = {b1}
    People = {ann, ben}
    Author <- WrittenByAnn
    Profiled = {ben}
    Sessions = {s1}
    Addresses = {a1}
    Window = 0
    Figures = {"views", "unique", "completion"}
    Clients = {c1}
    Workers = {w1, w2}
    Asked = {"view", "read", "moderate"}
    Depths = {40}
    MaxTime = 0
    MaxRequests = 2
    MaxFaults = 1
INVARIANTS UniqueWithinTotal
PROPERTIES CountsOnlyGrow CountersConverge
CHECK_DEADLOCK FALSE
