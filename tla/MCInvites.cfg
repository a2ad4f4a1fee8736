\* One person to invite, who is also an administrator, and three invites: an
\* invite, its resend and a racing third; five requests, two of them at a time.
SPECIFICATION Spec
CONSTANTS
    Users = {o, u}
    Creator = o
    None = None
    Admins = {u}
    Profiled = {o, u}
    Invites = {i1, i2, i3}
    Clients = {c1, c2}
    Lifetime = 0
    MaxTime = 1
    MaxRequests = 5
    MaxFaults = 1
INVARIANTS TypeOK WithdrawnStaysOut AcceptanceIsTrue OwnerStays TidyUntilAnomaly
PROPERTIES AtomicUntilAnomaly
SYMMETRY InviteSymmetry
CHECK_DEADLOCK FALSE
