\* One or two requests, and streams that are none, cut into segments in every way.
SPECIFICATION Spec
CONSTANTS
  Streams <- AllStreams
  HTTP_MAX_HEADER_SIZE = 40
  Width = 65536
INVARIANTS
  TypeOK
  SameHoweverCut
  ImplementsFraming
  FieldsBelongToTheirNames
\* A stream comes to its end.
CHECK_DEADLOCK FALSE
