\* The same requests; a render whose variable value holds another
\* placeholder is compared with the spec's one-pass literal
\* replacement.
CONSTANTS
  Requests <- MCRequests
  Op <- MCOp
  Names = {"t1", "t2"}
  WordChars = {"a", "b", "x", "y"}
  Unset = Unset

SPECIFICATION Spec

INVARIANT RenderAsSpecified
