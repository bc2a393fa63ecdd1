SPECIFICATION Spec
CONSTANTS
    Op <- MCOp
    Filler = "a"
    MAX_UCYC = 4
INVARIANTS IndicesInBounds
PROPERTIES ImplementsFifo
