\* Calls of every shape with lengths at the limits of a small byte.
SPECIFICATION WireSpec
CONSTANTS
  B = 6
  Null = Null
  ClientID <- MCClientID
  Calls <- MCCalls
  Listings <- MCListings
INVARIANTS
  RecordIntact
  ReadersAgree
  ReplyReadAsMeant
CHECK_DEADLOCK FALSE
