\* Two workers of one channel calling Allow concurrently, a limit of 2 per
\* window of 3 clock units and a nanosecond clock (no two reads equal): do
\* the admissions of any window stay within the limit?
CONSTANTS
  Workers = {w1, w2}
  Limit = 2
  Window = 3
  MaxTime = 2
  MaxAdmits = 4
  DistinctStamps = TRUE
SPECIFICATION Spec
INVARIANT WindowLimit
CHECK_DEADLOCK FALSE
