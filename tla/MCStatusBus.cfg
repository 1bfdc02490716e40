\* Two clients, four publications of one notification, a broadcast channel
\* of 2 and client buffers of 1 (so both kinds of drop happen).
CONSTANTS
  Clients = {c1, c2}
  Objects = {"o1", "o2"}
  NoFilter = NoFilter
  BusCap = 2
  BufCap = 1
  Of <- MCOf
  Plan <- MCPlan
  Filters <- MCFilters
SPECIFICATION Spec
PROPERTY FinalStatusDelivered
\* The hub and the pumps block on their channels forever once the plan is done.
CHECK_DEADLOCK FALSE
