\* One blog of Ann's and her reader Ben, three requests of any kind, two at a
\* time, a run of the job, an archiving, and a fault; one tick of the clock, so
\* that a view meets one from before and one from within the window.
\* The bounds on requests and faults let the system stop.
SPECIFICATION Spec
CONSTANTS
    None = None
    ann = ann
    ben = ben
    Blogs = {b1}
    People = {ann, ben}
    Author <- WrittenByAnn
    Profiled = {ben}
    Sessions = {s1}
    Addresses = {a1}
    Window = 0
    Figures = {"views", "unique"}
    Clients = {c1, c2}
    Workers = {w1}
    Asked = {"like", "save", "unlike", "unsave", "share", "view", "read", "moderate"}
    Depths = {40, 90}
    MaxTime = 1
    MaxRequests = 3
    MaxFaults = 1
INVARIANTS TypeOK OneViewPerReader AnnouncedOnce ProgressIsDepthReached
PROPERTIES AtomicUntilAnomaly
SYMMETRY TaskSymmetry
CHECK_DEADLOCK FALSE
