\* Every stream of up to seven bytes, in every cut, ending and error.
SPECIFICATION Spec
CONSTANTS
  MaxSizes = {1, 2, 3}
  MaxStream = 7
INVARIANT RecordsAsDefined
INVARIANT RecordsFit
INVARIANT NeverTooLong
INVARIANT OneStampPerLine
\* A scanner is over at the end of its stream.
CHECK_DEADLOCK FALSE
