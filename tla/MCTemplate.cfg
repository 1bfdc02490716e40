\* Concurrent template requests: name races between create and update,
\* a content update racing a rename, a delete, and renders with plain,
\* nested and incomplete variable maps.
CONSTANTS
  Requests <- MCRequests
  Op <- MCOp
  Names = {"t1", "t2"}
  WordChars = {"a", "b", "x", "y"}
  Unset = Unset

SPECIFICATION Spec

INVARIANT TypeOK
INVARIANT VariablesMatchContent
