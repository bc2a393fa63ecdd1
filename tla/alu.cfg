SPECIFICATION Spec
CONSTANTS
    Digits = 2
    Operands <- AllBytes
    Semantics <- AllSemantics
INVARIANTS BinaryArithmetic DecimalArithmetic DecimalModeOfTheChips
