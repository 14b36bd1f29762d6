SPECIFICATION FairSpec
CONSTANTS
  Modes = {"mqtt", "http", "publisher", "subscriber"}
  Candidates = {c1, c2}
  MaxOffers = 3
INVARIANTS DeliveryInv OnlyClosedUnderCaller
PROPERTIES PeerResolves TracksNegotiated
CHECK_DEADLOCK FALSE
