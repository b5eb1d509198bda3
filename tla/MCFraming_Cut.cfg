CONSTANTS
  Base = 2
  Width = 2
  Messages <- AllMessages
  CutZeros = FALSE
  Filter = 2
  MaxOffered = 6
  WireCap = 5
SPECIFICATION FramingFairSpec
INVARIANTS FilterRate
PROPERTIES ImplementsChannel EventuallyDelivered
