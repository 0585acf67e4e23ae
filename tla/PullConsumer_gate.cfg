\* WithRequireOrg against the calls that ask for no org.
SPECIFICATION Spec
CONSTANTS
  w1 = w1
  w2 = w2
  t1 = t1
  t2 = t2
  t3 = t3
  t4 = t4
  t5 = t5
  s1 = s1
  s2 = s2
  Workers = {w1}
  Closed = {w1}
  Subjects = {s1}
  Tickets = {t1, t2}
  Uses = {"publish", "pub", "create", "fetch"}
  Batches = {1}
  MaxDeliver = 0
  MaxLog = 1
  MaxGen = 0
SYMMETRY Symmetry
CHECK_DEADLOCK FALSE
INVARIANTS
  FailClosed
