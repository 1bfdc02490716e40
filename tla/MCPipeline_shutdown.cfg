\* Does at-least-once delivery survive a graceful shutdown and restart?
CONSTANTS
  Notifications = {n1}
  Workers = {w1, w2}
  Priorities = {"low"}
  ScheduledAt = {FALSE}
  Responses = {0, 200, 202, 204, 400, 429, 503}
  MaxRetries = 2
  BatchSize = 100
  MaxRestarts = 1

SPECIFICATION Spec

PROPERTY DeliveredAtLeastOnce

CHECK_DEADLOCK FALSE
