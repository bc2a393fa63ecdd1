----------------------------- MODULE Accumulator -----------------------------
(***************************************************************************)
(* An accumulator driven by ADC and SBC with any operand (finish_read of   *)
(* src/cpu6502/mod.rs) and by the flag instructions.  Of the status it     *)
(* keeps C and D, all that adc and sbc read; N, V and Z are only outputs.  *)
(***************************************************************************)
EXTENDS Alu

CONSTANTS
    Operands,   \* the words the program works on; the bound on the accumulator, too
    Semantics   \* the decimal semantics of the flavors checked
ASSUME OperandsAssumption == Operands \subseteq 0..MASK
ASSUME SemanticsAssumption == Semantics \subseteq {"None", "Nmos6502", "Cmos65C02", "Wdc65C816"}

VARIABLES
    semantics,  \* the flavor's DECIMAL
    a,          \* the accumulator
    p           \* which of C and D are set

vars == << semantics, a, p >>

Init ==
    /\ semantics \in Semantics
    /\ a \in Operands
    /\ p = {}

\* Bound: the accumulator goes on as an operand; the properties look at every result.
Accumulate(result) ==
    /\ result.value \in Operands
    /\ a' = result.value
    /\ p' = Apply(result, p) \cap {"C", "D"}
    /\ UNCHANGED semantics

AddOperand(b) == Accumulate(Adc(a, b, p, semantics))
SubtractOperand(b) == Accumulate(Sbc(a, b, p, semantics))

\* CLC, SEC, CLD, SED
SetFlags ==
    /\ p' \in SUBSET {"C", "D"}
    /\ UNCHANGED << semantics, a >>

Next ==
    \/ \E b \in Operands : AddOperand(b) \/ SubtractOperand(b)
    \/ SetFlags

Spec == Init /\ [][Next]_vars

-----------------------------------------------------------------------------
(* What the operations should compute.  Carry and Borrow are the numbers.  *)

Carry == IF "C" \in p THEN 1 ELSE 0
Borrow == 1 - Carry
SignedWord(word) == IF word < SIGN THEN word ELSE word - MASK - 1
OutOfRange(number) == number < -SIGN \/ number >= SIGN
Out(flag, result) == flag \in result.flags

\* In binary mode the value and the carry are the sum, or the difference; V is set exactly
\* when the signed result does not fit; the Ricoh flavor is always in binary mode.
BinaryArithmetic ==
    Binary(p, semantics) =>
        \A b \in Operands :
            LET sum == Adc(a, b, p, semantics)
                difference == Sbc(a, b, p, semantics)
            IN  /\ sum.value + (IF Out("C", sum) THEN MASK + 1 ELSE 0) = a + b + Carry
                /\ Out("V", sum) <=> OutOfRange(SignedWord(a) + SignedWord(b) + Carry)
                /\ difference.value - (IF Out("C", difference) THEN 0 ELSE MASK + 1)
                      = a - b - Borrow
                /\ Out("V", difference) <=> OutOfRange(SignedWord(a) - SignedWord(b) - Borrow)

IsBcd(word) == \A d \in 0..(Digits - 1) : Digit(word, d) < 10
Decimal(word) ==
    Digit(word, 0) + 10 * Digit(word, 1)
    + (IF Digits = 2 THEN 0 ELSE 100 * Digit(word, 2) + 1000 * Digit(word, 3))
DecimalCarry == IF Digits = 2 THEN 100 ELSE 10000

\* In decimal mode, on decimal operands, every flavor computes the decimal sum and
\* difference with a decimal carry, whichever of the three ways it corrects the digits.
DecimalArithmetic ==
    ~Binary(p, semantics) /\ IsBcd(a) =>
        \A b \in {n \in Operands : IsBcd(n)} :
            LET sum == Adc(a, b, p, semantics)
                difference == Sbc(a, b, p, semantics)
            IN  /\ IsBcd(sum.value) /\ IsBcd(difference.value)
                /\ Decimal(sum.value) + (IF Out("C", sum) THEN DecimalCarry ELSE 0)
                      = Decimal(a) + Decimal(b) + Carry
                /\ Decimal(difference.value) - (IF Out("C", difference) THEN 0 ELSE DecimalCarry)
                      = Decimal(a) - Decimal(b) - Borrow

-----------------------------------------------------------------------------
(* The chips' decimal mode on a byte, as it is published: whole-byte       *)
(* formulas with a low half and a high half, also for operands that are    *)
(* not decimal.                                                            *)

LowHalf(byte) == byte % 16
HighHalf(byte) == byte - (byte % 16)

ChipAdc(b) ==
    LET low == LowHalf(a) + LowHalf(b) + Carry
        fixedLow == IF low >= 10 THEN ((low + 6) % 16) + 16 ELSE low
        high == HighHalf(a) + HighHalf(b) + fixedLow
        signed == SignedWord(HighHalf(a)) + SignedWord(HighHalf(b)) + fixedLow
        value == (IF high >= 160 THEN high + 96 ELSE high) % 256
        nz == IF semantics = "Nmos6502"
              THEN Flag("N", (high \div 128) % 2 = 1)
                   \cup Flag("Z", (a + b + Carry) % 256 = 0)
              ELSE Flag("N", value >= 128) \cup Flag("Z", value = 0)
    IN  [value |-> value,
         flags |-> nz \cup Flag("C", high >= 160) \cup Flag("V", OutOfRange(signed))]

ChipSbc(b) ==
    LET low == LowHalf(a) - LowHalf(b) - Borrow
        fixedLow == IF low < 0 THEN ((low - 6) % 16) - 16 ELSE low
        high == HighHalf(a) - HighHalf(b) + fixedLow
        binary == a - b - Borrow
        cmos == binary - (IF binary < 0 THEN 96 ELSE 0) - (IF low < 0 THEN 6 ELSE 0)
        value == (IF semantics = "Cmos65C02" THEN cmos
                  ELSE IF high < 0 THEN high - 96 ELSE high) % 256
        nz == IF semantics = "Nmos6502" THEN binary % 256 ELSE value
    IN  [value |-> value,
         flags |-> Flag("N", nz >= 128) \cup Flag("Z", nz = 0) \cup Flag("C", binary >= 0)
                   \cup Flag("V", OutOfRange(SignedWord(a) - SignedWord(b) - Borrow))]

\* Decimal mode on any two bytes, decimal or not: the code's loop over digits computes the
\* value and the flags of the published formulas of the NMOS 6502 and the 65C02.
DecimalModeOfTheChips ==
    ~Binary(p, semantics) /\ semantics # "Wdc65C816" =>
        \A b \in Operands :
            LET sum == Adc(a, b, p, semantics)
                difference == Sbc(a, b, p, semantics)
            IN  /\ sum.value = ChipAdc(b).value /\ sum.flags = ChipAdc(b).flags
                /\ difference.value = ChipSbc(b).value
                /\ difference.flags = ChipSbc(b).flags
=============================================================================
