\* Two spellings with one slug: React and react.
\* The bound on requests lets the system stop.
SPECIFICATION Spec
CONSTANTS
  ann = ann
  ben = ben
  go = go
  React = React
  react = react
  reactSlug = reactSlug
  None = None
  People = {ann, ben}
  Handles = {acme}
  Words = {go}
  Bases <- MCBases
  Chosen <- MCChosen
  Spellings = {React, react}
  TagSlugs = {reactSlug}
  SlugOf <- MCSlugOf
  Clients = {c1, c2}
  Asked = {"retag"}
  MaxRequests = 2
INVARIANT NewNamesAccepted
CHECK_DEADLOCK FALSE
