\* docs/PRODUCT_README.md:745; one request and one crash are enough.
SPECIFICATION Spec
CONSTANTS
    Users = {o, u}
    Creator = o
    None = None
    Admins = {}
    Profiled = {o, u}
    Invites = {i1, i2}
    Clients = {c1, c2}
    Lifetime = 0
    MaxTime = 1
    MaxRequests = 3
    MaxFaults = 1
INVARIANTS AcceptedMadeMember
CHECK_DEADLOCK FALSE
