\* Fetch, ack and nack by two workers on one consumer, with late requests.
SPECIFICATION Spec
CONSTANTS
  w1 = w1
  w2 = w2
  t1 = t1
  t2 = t2
  t3 = t3
  t4 = t4
  t5 = t5
  s1 = s1
  s2 = s2
  Workers = {w1, w2}
  Closed = {}
  Subjects = {s1}
  Tickets = {t1, t2, t3, t4}
  Uses = {"fetch", "ack", "nack"}
  Batches = {2}
  MaxDeliver = 2
  MaxLog = 2
  MaxGen = 0
SYMMETRY Symmetry
CHECK_DEADLOCK FALSE
INVARIANTS
  AckMeansStored
  NoRedeliveryAfterAck
  
PROPERTY ImplementsWorkQueue
