CONSTANTS
  File = {s1, s2}
  Handle = {h1, h2, h3, h4, h5, h6}
  Place = {photo, meta}
  Meta = {meta}
  Original = {h1}
  Job = {j1, j2}
  Discovery = discovery
  Renames = TRUE
  Failing = {"upload", "backup", "promote", "restore", "delete"}
  MaxFailures = 2
  MaxCalls = 2
  None = None
SPECIFICATION Spec
INVARIANTS TypeOK CleanMeansStored OneOverlay StableSurvives LeftoverPerFailure
PROPERTIES StoreSpec
SYMMETRY Interchangeable
CHECK_DEADLOCK FALSE
