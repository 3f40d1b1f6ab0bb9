\* A Content-Length that does not fit into content_length.
SPECIFICATION Spec
CONSTANTS
  Streams <- LongBody
  HTTP_MAX_HEADER_SIZE = 100
  Width = 256
INVARIANTS
  LengthIsStated
\* A stream comes to its end.
CHECK_DEADLOCK FALSE
