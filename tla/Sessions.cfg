SPECIFICATION FairSessionsSpec
CONSTANTS
  Services = {"mqtt", "http"}
  Clients = {c1, c2}
  Peers = {p1, p2}
  None = None
INVARIANTS PeersInv RightRecipient
PROPERTIES Cleaned
CHECK_DEADLOCK FALSE
