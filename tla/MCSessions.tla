----------------------------- MODULE MCSessions -----------------------------
EXTENDS Sessions, TLC

\* Requests, and the tokens and links they create, are alike.
SessionSymmetry ==
    Permutations(Clients) \cup Permutations(Tokens) \cup Permutations(Links)
=============================================================================
