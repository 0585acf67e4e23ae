\* Publish, create, delete, fetch and ack: the consumer is replaced under its
\* users, and w2 has no org.
SPECIFICATION Spec
CONSTANTS
  w1 = w1
  w2 = w2
  t1 = t1
  t2 = t2
  t3 = t3
  t4 = t4
  t5 = t5
  s1 = s1
  s2 = s2
  Workers = {w1, w2}
  Closed = {w2}
  Subjects = {s1, s2}
  Tickets = {t1, t2, t3}
  Uses = {"publish", "pub", "create", "delete", "fetch", "ack"}
  Batches = {0, 1}
  MaxDeliver = 1
  MaxLog = 2
  MaxGen = 1
SYMMETRY Symmetry
CHECK_DEADLOCK FALSE
INVARIANTS
  FullInfoFilters
  PublishedOnce
  GateHolds
