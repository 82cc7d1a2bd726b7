SPECIFICATION Spec
CONSTANTS
    Net <- BpmnNet
    Tops = {"B"}
    Event <- TwoCycles
    Choices <- BpmnChoices
    ExternalEvents <- FromOutside
    Calls <- AnyCall
    MaxCalls <- OutsideCalls
    ByHand <- RunByHand
INVARIANTS
    NothingRaised
CHECK_DEADLOCK FALSE
