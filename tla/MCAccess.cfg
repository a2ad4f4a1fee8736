\* One blog, two companies, a member of one of them, two requests in progress: a
\* blog may move between companies, and a member be removed, while a request is
\* being checked.  From a published blog, one change and two requests suffice for
\* it to be saved, archived and then fetched from the list of saves.
SPECIFICATION Spec
SYMMETRY Slots
VIEW Unanswered
CONSTANTS
  ann = ann
  bob = bob
  eve = eve
  acme = acme
  blue = blue
  b1 = b1
  People = {ann, bob, eve}
  Admins = {eve}
  Companies = {acme, blue}
  Blogs = {b1}
  Anyone = Anyone
  None = None
  Same = Same
  Creator <- OwnerOf
  Authors <- Joined
  Begun <- Begun1
  DeepDives = {b1}
  Open = {acme}
  Featured = {acme}
  Clients = {c1, c2}
  MaxRequests = 3
  MaxChanges = 1
PROPERTY PolicyUntilOutdated
\* Requests run out of their bound.
CHECK_DEADLOCK FALSE
