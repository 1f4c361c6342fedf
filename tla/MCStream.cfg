\* Calls of the string functions in any order, and formats in what they leave.
\* The characters are 1 '%', 2 'd', 3 'p', 4 's', 5 'x'.
SPECIFICATION StringsSpec
CONSTANTS
  Bytes       = 5
  SizeModulus = 16
  CharModulus = 6
  Percent     = 1
  LetterD     = 2
  LetterP     = 3
  LetterS     = 4
  LetterX     = 5
  DigitZero   = 100
  Nil         <- MCNil
  IntModulus  = 256
  Arguments   <- MCArguments
INVARIANTS
  CopiesAreExact
  ConcatenationIsExact
  ComparisonIsLexicographic
  StrstrFindsFirst
  NumbersReadBack
  PrintfExpandsFormat
\* A copy that leaves the memory ends in panic.
CHECK_DEADLOCK FALSE
