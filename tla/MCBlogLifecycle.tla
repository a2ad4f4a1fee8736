--------------------------- MODULE MCBlogLifecycle ---------------------------
(* Small instances of BlogLifecycle. *)
EXTENDS BlogLifecycle, TLC

\* Requests are interchangeable, and so are runs of the cron job: no
\* property names one.
TaskSymmetry == Permutations(Clients) \cup Permutations(Workers)
=============================================================================
