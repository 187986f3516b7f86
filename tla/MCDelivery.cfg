SPECIFICATION DeliverySpec
CONSTANTS
  Published <- MCPublished
  MaxStops = 1
  MaxCopies = 2
  NoMessage = NoMessage
INVARIANTS
  DeliveryTypeOK
  NothingIsPassedOver
PROPERTIES
  CommittedIsFinal
  EventsGetThrough
CHECK_DEADLOCK FALSE
