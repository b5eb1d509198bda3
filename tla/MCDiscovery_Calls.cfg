CONSTANTS
  Nodes = {p1, p2, s1}
  PubNodes = {p1, p2}
  SubNodes = {s1}
  Topics = {t1}
  Lossy = TRUE
  MaxCalls = 4
SPECIFICATION FairSpec
INVARIANTS IndInv AgreesUnlessDisturbed
PROPERTIES NamedPublisherIsReached
