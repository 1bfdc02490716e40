\* Safety of the core pipeline across a graceful shutdown and restart:
\* one notification, immediate or scheduled, two workers, every
\* class of provider answer (one code each: timeout, success, other 2xx,
\* retryable), including a timeout after the provider took
\* the request, and SIGTERM at any point of every worker's processNext and
\* of a scheduler sweep.  Priority order is not what these invariants are
\* about, so one class suffices.
CONSTANTS
  Notifications = {n1}
  Workers = {w1, w2}
  Priorities = {"low"}
  ScheduledAt = {TRUE, FALSE}
  Responses = {0, 200, 204, 429}
  MaxRetries = 2
  BatchSize = 100
  MaxRestarts = 2

SPECIFICATION Spec
SYMMETRY PoolSymmetry
CONSTRAINT CallsWithinBound

 
INVARIANT NotSentBeforeScheduledTime

\* Workers poll an empty queue forever once every notification is settled.
CHECK_DEADLOCK FALSE
