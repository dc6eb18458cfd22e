SPECIFICATION Spec
CONSTANTS
    Options <- WideOptions
    Collections <- LongCollection
    Faults = {}
INVARIANT BufferBounded
CHECK_DEADLOCK FALSE
