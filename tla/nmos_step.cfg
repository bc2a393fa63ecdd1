SPECIFICATION TestSpec
CONSTANTS
    F <- NMOS6502
    Digits = 2
    Opcode <- AllOpcodes
    Decode <- DecodeTable
    Lines <- TestLines
    Entries <- AllEntries
    Recorded <- RecordedBytes
INVARIANTS DatapathTypeOK AddressesExact StackExact UnstableStoreExact UndocumentedCombine
CHECK_DEADLOCK FALSE
