\* Every handler of up to three arguments, and every string of up to four
\* characters as an integer.
CONSTANTS
  Calls <- MCCalls
  LongLongBits = 8
  IntBits = 4
SPECIFICATION Spec
INVARIANTS ArgumentsInOrder ReadsWithinBounds IntegersAsWritten
CHECK_DEADLOCK FALSE
