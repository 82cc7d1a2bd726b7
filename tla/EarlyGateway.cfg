\* An inclusive gateway fires although a task is on its way to it.
SPECIFICATION Spec
CONSTANTS
    Net <- MergingNet
    Tops = {"G"}
    Event <- BpmnDefs
    Choices <- BpmnChoices
    ExternalEvents <- FromOutside
    Calls <- AnyCall
    MaxCalls <- OutsideCalls
    ByHand <- RunByHand
INVARIANTS
    InclusiveWaits
CHECK_DEADLOCK FALSE
