CONSTANTS
  pixel = pixel
  google = google
  left = left
  right = right
  sn = sn
  Phone = {pixel}
  Model = {google}
  ModelOf <- Models
  Ports <- PortsOf
  Serials <- SerialsOf
  Unreadable = unreadable
  Discovery = discovery
  Client = {client}
  QuickReplug = FALSE
  MaxPlugs <- Plugs
  MaxMishaps = 1
  MaxRefreshes = 1
  None = None
SPECIFICATION FairSpec
INVARIANTS TypeOK OneSession OncePerCooldown
PROPERTIES GenerationsGrow DeadRemoved ServedAtLast ErrorClears
CHECK_DEADLOCK FALSE
