\* Three callers, one without an org, and three calls on streams, buckets and keys.
SPECIFICATION Spec
CONSTANTS
  c1 = c1
  c2 = c2
  c3 = c3
  t1 = t1
  t2 = t2
  t3 = t3
  Callers = {c1, c2, c3}
  Closed = {c3}
  Tickets = {t1, t2, t3}
  Earlier = Earlier
  Uses <- AllUses
CONSTRAINT OneStore
SYMMETRY Symmetry
CHECK_DEADLOCK FALSE
INVARIANTS
  InfoExisted
  NilMeansDone
  FullInfoIsMine
