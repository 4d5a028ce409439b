CONSTANTS
  pixel = pixel
  google = google
  left = left
  right = right
  sn = sn
  Phone = {pixel}
  Model = {google}
  ModelOf <- Models
  Ports <- PortsOf
  Serials <- SerialsOf
  Unreadable = unreadable
  Discovery = discovery
  Client = {client}
  QuickReplug = TRUE
  MaxPlugs <- Plugs
  MaxMishaps = 0
  MaxRefreshes = 1
  None = None
SPECIFICATION FairSpec
PROPERTIES DeadRemoved
CHECK_DEADLOCK FALSE
