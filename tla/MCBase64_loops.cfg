\* Writing, reading back, hashing, and reading texts of any length.
CONSTANTS
  Data <- MCData
  Texts <- MCTexts
SPECIFICATION Spec
CHECK_DEADLOCK FALSE
INVARIANTS TypeOK RoundTrip TextIsRfc4648 BytesAreRfc4648
