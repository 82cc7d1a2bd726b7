\* An event is caught by a task that has not been reached.
SPECIFICATION Spec
CONSTANTS
    Net <- BpmnNet
    Tops = {"D"}
    Event <- BpmnDefs
    Choices <- BpmnChoices
    ExternalEvents <- FromOutside
    Calls <- AnyCall
    MaxCalls <- OutsideCalls
    ByHand <- RunByHand
INVARIANTS
    CaughtWhenReached
CHECK_DEADLOCK FALSE
