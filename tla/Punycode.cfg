SPECIFICATION MCSpec
CONSTANTS
  MaxInt = 2147483647
  CodePoints = {97, 95, 252, 2048, 128512, 1114111}
  MaxPoints = 4
  MaxCut = 3
  Letters = {97, 122, 74, 33}
  MaxLetters = 8
INVARIANTS
  Roundtrip
  Growing
  SixDigitsFit
  Utf8Exact
\* The decoder comes back once.
CHECK_DEADLOCK FALSE
