CONSTANTS
  f = f
  a = a
  b = b
  n1 = n1
  n2 = n2
  Object = {a, b}
  Folder = {}
  RootKey = root
  Name = {n1, n2}
  Task = {t1}
  Client = {c1}
  Listener = listener
  Absent = Absent
  None = None
  Chatty = {b}
  Initial <- RootFiles
  MaxChanges = 1
  MaxOps = 0
  MaxEvents = 1
SPECIFICATION FairSpec
PROPERTIES HealsEventually
CHECK_DEADLOCK FALSE
