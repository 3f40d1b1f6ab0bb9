\* One request per connection, cut into segments in every way.
SPECIFICATION FairSpec
CONSTANTS
  c1 = c1
  c2 = c2
  Conn = {c1, c2}
  Script <- OneRequest
  UuidMod = 4
INVARIANTS
  TypeOK
  ExtractsOneRequest
  HandledAtMostOnce
PROPERTIES
  EveryClientAnswered
\* Clients run out of things to send.
CHECK_DEADLOCK FALSE
