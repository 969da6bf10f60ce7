SPECIFICATION FairSpec

CONSTANTS
  Deliveries = {d1, d2}
  Branches = {master, r1, r2}
  Base = master
  Users = {author, stranger}
  Author = author
  Trusted = {author}
  Commands = {{r1}, {r1, r2}, {master}}
  LabelFor = {r1}
  Central = FALSE
  Taken = {r2}
  Faults = TRUE
  Restarts = TRUE
  None = None

INVARIANTS
  TypeOK
  Authorized
  PushedByOpener
  AllAttempted

PROPERTIES
  DeliveriesEnd
  RequestsServed
