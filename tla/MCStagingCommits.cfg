CONSTANTS
  File = {s1, s2}
  Handle = {h1, h2, h3, h4, h5, h6}
  Place = {photo, meta}
  Meta = {meta}
  Original = {h1}
  Job = {j1}
  Discovery = discovery
  Renames = FALSE
  Failing = {"delete"}
  MaxFailures = 1
  MaxCalls = 2
  None = None
SPECIFICATION FairSpec
PROPERTIES Committed
CHECK_DEADLOCK FALSE
