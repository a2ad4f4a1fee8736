\* Sessions and passwords.
SPECIFICATION Spec
CONSTANTS
    None = None
    Tokens = {t1, t2, t3}
    Links = {l1, l2}
    Clients = {c1, c2}
    Asked = {"login", "google", "refresh", "logout", "forgot", "reset", "change", "resend", "verify", "delete"}
    MaxFailed = 2
    LockTime = 1
    TokenLife = 1
    LinkLife = 1
    MaxTime = 1
    MaxRequests = 5
    MaxFaults = 1
INVARIANTS TypeOK EndedStaysEnded SessionIsChain PasswordEndsSessions LinksOnce GuessesBounded
PROPERTIES DeletedStaysOut
SYMMETRY SessionSymmetry
CHECK_DEADLOCK FALSE
