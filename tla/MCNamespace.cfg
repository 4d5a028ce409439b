CONSTANTS
  Storage = {s1, s2}
  h1 = h1
  h2 = h2
  h3 = h3
  h4 = h4
  Handle <- Handles
  Renumbering <- Shifted
  File = {f1, f2}
  Name = {1, 2, 3}
  Doc = {d1, d2, d3, d4}
  Job = {j1, j2}
  Page = 2
  Op = {"create", "mkdir", "remove", "rmdir", "rename", "read", "write"}
  Failing = {"list", "delete", "rename"}
  MaxCalls = 2
  MaxReplugs = 1
  MaxFailures = 1
  Top = Top
  None = None
SPECIFICATION Spec
INVARIANTS TypeOK Traversed
PROPERTIES NoBystander ReadsOwn RenamesExactly
SYMMETRY Interchangeable
CHECK_DEADLOCK FALSE
