SPECIFICATION FastSpec
CONSTANTS
    PAGE_SIZE = 2
    num_pages = 2
    DebugAssertions = FALSE
    Addrs <- OnceBeyond
    Slices = {"p", "q"}
    Lengths = {2}
    Byte = {0, 1}
    LineNames = {"rdy"}
INVARIANT MappedPagesExist
PROPERTY ImplementsAddressSpace
