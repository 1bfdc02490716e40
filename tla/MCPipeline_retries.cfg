\* Spec invariant 4 (retry_count <= max_retries) against a sweep cut short
\* by a graceful shutdown: one scheduled or immediate notification, two
\* workers, one restart, one provider code per class of answer.
CONSTANTS
  Notifications = {n1}
  Workers = {w1, w2}
  Priorities = {"low"}
  ScheduledAt = {TRUE, FALSE}
  Responses = {0, 200, 204, 429}
  MaxRetries = 2
  BatchSize = 100
  MaxRestarts = 1

SPECIFICATION Spec
SYMMETRY PoolSymmetry
CONSTRAINT CallsWithinBound

INVARIANT RetryCountWithinMax

CHECK_DEADLOCK FALSE
