CONSTANTS
  Base = 2
  Width = 2
  Messages <- AllMessages
  CutZeros = TRUE
  Filter = 2
  MaxOffered = 6
  WireCap = 5
SPECIFICATION FramingSpec
INVARIANTS DeliveredInOrder
