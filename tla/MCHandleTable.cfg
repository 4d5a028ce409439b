CONSTANTS
  Node = {root, n1, n2}
  Root = root
  Thread = {t1, t2, t3}
  NoThread = NoThread
SPECIFICATION FairSpec
INVARIANTS TypeOK IssuedResolves
PROPERTIES IdsSpec InternReturns
CHECK_DEADLOCK FALSE
