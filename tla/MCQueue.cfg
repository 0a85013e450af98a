CONSTANTS
    Values = {a, b}
    Raw = Raw
    MaxSize = 1
    MaxBlockSize = 2
    MaxBlocks = 2
SPECIFICATION Spec
INVARIANTS SlotsAreOwned AssertionsHold HoldsMaxSize
PROPERTIES ImplementsMailbox CallsReturn
