\* Two events behind an event gateway go on.
SPECIFICATION Spec
CONSTANTS
    Net <- BpmnNet
    Tops = {"D"}
    Event <- BpmnDefs
    Choices <- BpmnChoices
    ExternalEvents <- FromOutside
    Calls <- EventAndTimer
    MaxCalls <- OutsideCalls
    ByHand <- RunByHand
INVARIANTS
    OneEventChosen
CHECK_DEADLOCK FALSE
