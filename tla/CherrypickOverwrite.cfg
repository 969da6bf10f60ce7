SPECIFICATION Spec

CONSTANTS
  Deliveries = {d1, d2}
  Branches = {master, r1, r2}
  Base = master
  Users = {author, stranger}
  Author = author
  Trusted = {author}
  Commands = {{r1}, {r1, r2}, {master}}
  LabelFor = {r1}
  Central = FALSE
  Taken = {}
  Faults = FALSE
  Restarts = FALSE
  None = None

PROPERTIES
  OpenPickKept
