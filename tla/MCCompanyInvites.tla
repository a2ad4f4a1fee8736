-------------------------- MODULE MCCompanyInvites --------------------------
EXTENDS CompanyInvites, TLC

\* Requests, and the invites they create, are alike.
InviteSymmetry == Permutations(Clients) \cup Permutations(Invites)
=============================================================================
