\* A second request on the same connection.
SPECIFICATION Spec
CONSTANTS
  c1 = c1
  Conn = {c1}
  Script <- TwoRequests
  UuidMod = 4
INVARIANTS
  ExtractsOneRequest
\* Clients run out of things to send.
CHECK_DEADLOCK FALSE
