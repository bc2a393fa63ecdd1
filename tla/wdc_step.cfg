SPECIFICATION TestSpec
CONSTANTS
    F <- WDC65C02
    Digits = 2
    Opcode <- AllOpcodes
    Decode <- DecodeTable
    Lines <- TestLines
    Entries <- AllEntries
    Recorded <- RecordedBytes
INVARIANTS AddressesExact NoInvalidRead WritesBack Footprint AccumulatorColumn
CHECK_DEADLOCK FALSE
