\* Two owners, of whom one is the author, and an administrator without a
\* profile, who registers late; one event of each shape: to one person, to
\* followers, to owners, to an address.  Three happenings meet while handlers
\* read and write.  The window is closed as soon as the clock ticks.
\* The bounds on happenings and faults let the system stop.
SPECIFICATION FairSpec
CONSTANTS
    ann = ann
    ben = ben
    cal = cal
    None = None
    Company = acme
    Blog = blog
    Tag = tag
    People = {ann, ben, cal}
    Profiled = {ann, ben}
    Owners = {ann, ben}
    Admins = {cal}
    Members = {ann, ben}
    Author = ann
    Clients = {c1}
    Asked = {"blog_liked", "blog_published_fan_out", "company_invite_received", "company_invite_declined", "company_milestone", "follow", "unfollow", "register", "read", "delete"}
    Hour = 0
    MaxTime = 1
    MaxRequests = 3
    MaxFaults = 1
INVARIANTS TypeOK NotOwnAct OncePerEvent ReactionToldOnce OnlyThoseMeant EveryoneTold
PROPERTIES EventsHandled
CHECK_DEADLOCK FALSE
