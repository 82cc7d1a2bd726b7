SPECIFICATION Spec
CONSTANTS
    Net <- BpmnNet
    Tops = {"B", "D", "G", "M"}
    Event <- BpmnDefs
    Choices <- BpmnChoices
    ExternalEvents <- FromOutside
    Calls <- AnyCall
    MaxCalls <- OutsideCalls
    ByHand <- RunByHand
INVARIANTS
    TypeOK
    InterruptExclusive
    NoEventLeft
    SubHasOwner
    NothingRaised
    JoinedOnce
    InclusiveWaits
    CompletedIsQuiet
PROPERTIES
    OwnersNotified
    CancelledStays
    NeverStuck
    OneConversation
    EventKept
CHECK_DEADLOCK FALSE
