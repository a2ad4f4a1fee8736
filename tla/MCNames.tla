------------------------------ MODULE MCNames ------------------------------
EXTENDS Names, TLC

CONSTANTS ann, ben, go, React, react, reactSlug

\* "Go" and "Go 1"; the slug of a title in another script is empty.
MCBases  == {<<go>>, <<go, 1>>}
MCChosen == {<<go>>}
\* React and react differ in case only.
MCSlugOf == [t \in {React, react} |-> reactSlug]
=============================================================================
