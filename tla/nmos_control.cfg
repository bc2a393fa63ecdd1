SPECIFICATION Spec
CONSTANTS
    F <- NMOS6502
    Opcode <- Representatives
    Decode <- DecodeTable
    Lines <- AllLines
INVARIANTS TypeOK QueueSafe FootprintExact ReturnAddressExact EntryKeepsItsSource
PROPERTIES NmiNeverLost NoNestedIrq WritesIgnoreRdy JamUntilReset
