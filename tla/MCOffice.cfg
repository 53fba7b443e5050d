\* Fees, the calendar, guardians, settings, files, reminders, the register, schemes,
\* results, seats, numbers and imports; a school may end full.
SPECIFICATION Spec
CONSTANTS
  x1 = x1
  x2 = x2
  y1 = y1
  y2 = y2
  q1 = q1
  q2 = q2
  None = None
  Gone = Gone
SYMMETRY Symmetry
CHECK_DEADLOCK FALSE
INVARIANTS
  TypeOK
  OneOfEach
  NothingByHalves
  AnswersAgree
PROPERTIES
  OnlyWhatWasAsked
  RemindersAreDue
