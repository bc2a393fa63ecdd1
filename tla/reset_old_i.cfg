SPECIFICATION Spec
CONSTANTS
    F <- NMOS6502
    Opcode <- Representatives
    Decode <- DecodeTable
    Lines <- AllLines
PROPERTIES IrqNeedsClearI
