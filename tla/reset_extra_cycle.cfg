SPECIFICATION Spec
CONSTANTS
    F <- WDC65C02
    Opcode <- Representatives
    Decode <- DecodeTable
    Lines <- AllLines
PROPERTIES TimingExact
