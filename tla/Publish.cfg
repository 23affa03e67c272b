SPECIFICATION Spec
CONSTANTS
    Inputs <- MCInputs
    Chunks = 2
INVARIANTS
    OkMeansDelivered
    ListsComplete
PROPERTIES
    PublishesEnd
