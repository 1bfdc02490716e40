\* Can a client receive a status other than the one its publication set?
CONSTANTS
  Clients = {c1, c2}
  Objects = {"o1", "o2"}
  NoFilter = NoFilter
  BusCap = 2
  BufCap = 1
  Of <- MCOf
  Plan <- MCPlan
  Filters <- MCFilters
SPECIFICATION Spec
INVARIANT EnvelopeFaithful
\* The hub and the pumps block on their channels forever once the plan is done.
CHECK_DEADLOCK FALSE
