CONSTANTS
  NameOrder <- Order
  FindOrder <- Order
  Replacements <- Targets
SPECIFICATION TopicsSpec
INVARIANTS TablesAgree TopicsAreCurrent LookupsSucceed
