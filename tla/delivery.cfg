SPECIFICATION Spec
CONSTANTS
    MaxMade = 2
    MaxChecks = 2
    MaxFaults = 1
    None = None
INVARIANTS
    DeliveryInv
    CompletedDelivered
PROPERTIES
    CompletedForGood
    DeliveryReviewed
    SettlesUnattended
CHECK_DEADLOCK FALSE
