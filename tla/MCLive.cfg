\* Requests come to an end; a school may end full, and a request may then have
\* nothing left to ask for.
SPECIFICATION Spec
CONSTANTS
  q1 = q1
  q2 = q2
  None = None
  Gone = Gone
CHECK_DEADLOCK FALSE
INVARIANTS
  NoDeadlyEmbrace
PROPERTIES
  RequestsEnd
