\* At-least-once delivery without faults: one notification, immediate or
\* scheduled, three workers, every class of provider answer, Cancel, the
\* scheduler and the retry loop under the fairness of Spec.  No symmetry:
\* it is unsound for liveness.
CONSTANTS
  Notifications = {n1}
  Workers = {w1, w2, w3}
  Priorities = {"low"}
  ScheduledAt = {TRUE, FALSE}
  Responses = {0, 200, 202, 204, 400, 429, 503}
  MaxRetries = 3
  BatchSize = 100
  MaxRestarts = 0

SPECIFICATION Spec

PROPERTY DeliveredAtLeastOnce

\* Workers poll an empty queue forever once every notification is settled.
CHECK_DEADLOCK FALSE
