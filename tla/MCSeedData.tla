---------------------------- MODULE MCSeedData ----------------------------
EXTENDS SeedData, TLC

CONSTANTS ann, go, NextJs, nextjs, next_js

MCBases  == {<<go>>}
MCChosen == {<<go>>}
\* Next.js is next-js to the server and nextjs to the seed.
MCSlugOf == [t \in {NextJs} |-> next_js]

MCSeedUsername  == <<go>>
MCListed        == <<<<go>>>>
MCSeedPublished == {<<go>>}
Slots == Permutations(Clients) \cup Permutations(Seeds)
=============================================================================
