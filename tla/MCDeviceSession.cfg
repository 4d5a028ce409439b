CONSTANTS
  f = f
  a = a
  b = b
  n1 = n1
  n2 = n2
  Object = {f, a, b}
  Folder = {f}
  RootKey = root
  Name = {n1}
  Task = {t1}
  Client = {c1}
  Listener = listener
  Absent = Absent
  None = None
  Chatty = {}
  Initial <- FolderAndFile
  MaxChanges = 0
  MaxOps = 2
  MaxEvents = 1
SPECIFICATION Spec
INVARIANTS Coherent
CHECK_DEADLOCK FALSE
