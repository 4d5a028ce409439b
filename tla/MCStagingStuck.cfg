CONSTANTS
  File = {s1, s2}
  Handle = {h1, h2, h3, h4}
  Place = {photo, meta}
  Meta = {meta}
  Original = {h1}
  Job = {j1}
  Discovery = discovery
  Renames = FALSE
  Failing = {"upload"}
  MaxFailures = 1
  MaxCalls = 1
  None = None
SPECIFICATION FairSpec
PROPERTIES Committed
CHECK_DEADLOCK FALSE
