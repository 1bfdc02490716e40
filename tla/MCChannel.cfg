\* Two workers of one channel, a limit of 1 per window of 2 clock units and
\* time for the limiter's key to expire (2 * Window) and be recreated; two
\* queue items of any priority, stamped at three clock readings (in 2^-52
\* of a score): 786432, 1.5 normal spacings of 2^19, a tie rounded to even;
\* 786434, 2 units later, a distinct score for high but the same rounded
\* score for normal and low; 1835010, one low spacing of 2^20 plus 2 units
\* after the first, just beyond low's resolution and two normal spacings on.
CONSTANTS
  Workers = {w1, w2}
  Limit = 1
  Window = 2
  MaxTime = 4
  MaxAdmits = 3
  DistinctStamps = TRUE
  Items = {i1, i2}
  Priorities = {"high", "normal", "low"}
  Times = {786432, 786434, 1835010}
SPECIFICATION Spec
SYMMETRY WorkerSymmetry
INVARIANT TypeOK
INVARIANT MarkersBounded
PROPERTY FIFOBeyondResolution
\* The clocks and the items are bounded, so behaviours end.
CHECK_DEADLOCK FALSE
