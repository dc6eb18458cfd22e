SPECIFICATION Spec
CONSTANTS
    Options <- WideOptions
    Collections <- LongCollection
    Faults = {"Canceled"}
INVARIANT ReturnsEveryItem
CHECK_DEADLOCK FALSE
