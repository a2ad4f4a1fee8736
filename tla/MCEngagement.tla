---------------------------- MODULE MCEngagement ----------------------------
(* Small instances of Engagement. *)
EXTENDS Engagement, TLC

CONSTANTS ann, ben  \* people

\* Ann has written every blog.
WrittenByAnn == [b \in Blogs |-> ann]

\* Requests are alike, and so are runs of the job and addresses.
TaskSymmetry == Permutations(Clients) \cup Permutations(Workers)
=============================================================================
