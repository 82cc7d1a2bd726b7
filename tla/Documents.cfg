SPECIFICATION DocumentSpec
CONSTANTS
    Originals <- WorkflowSpecs
    MaxTrips = 3
INVARIANTS
    ConditionsKept
    AttributesKept
PROPERTIES
    LossHappensOnce
CHECK_DEADLOCK FALSE
