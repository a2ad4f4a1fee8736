\* A comment's promise that the code does not keep: Ann reads her own blog.
SPECIFICATION Spec
CONSTANTS
    None = None
    ann = ann
    ben = ben
    Blogs = {b1}
    People = {ann, ben}
    Author <- WrittenByAnn
    Profiled = {ann, ben}
    Sessions = {s1}
    Addresses = {a1}
    Window = 0
    Figures = {"views", "unique", "completion"}
    Clients = {c1, c2}
    Workers = {w1}
    Asked = {"view"}
    Depths = {40, 90}
    MaxTime = 1
    MaxRequests = 3
    MaxFaults = 1
INVARIANT AuthorsNotCounted
SYMMETRY TaskSymmetry
CHECK_DEADLOCK FALSE
