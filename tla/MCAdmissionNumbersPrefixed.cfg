\* With a prefix from the beginning.
SPECIFICATION PrefixedSpec
CONSTANTS
  Admission = {a1, a2, a3}
  Batch = {}
  Prefix = {p1}
  NoPrefix = NoPrefix
  ADMISSION_NUMBER_ATTEMPTS = 2
  WRITE_ATTEMPTS = 2
  BatchSize = 2
  MaxSequence = 2
SYMMETRY Symmetry
INVARIANTS
  GivesUpWhenBeaten
