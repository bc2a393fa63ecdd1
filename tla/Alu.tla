--------------------------------- MODULE Alu ---------------------------------
(***************************************************************************)
(* The arithmetic of src/alu.rs, for the two operand widths AluWord is     *)
(* implemented for.  A result is a value, the flags it computed and the    *)
(* mask of the flags it replaces.                                          *)
(***************************************************************************)
EXTENDS Bytes

CONSTANT Digits   \* hexadecimal digits of the operand type: 2 for u8, 4 for u16
ASSUME DigitsAssumption == Digits \in {2, 4}

MASK == IF Digits = 2 THEN 255 ELSE 65535
SIGN == IF Digits = 2 THEN 128 ELSE 32768
Truncate(value) == value % (MASK + 1)
Negative(value) == (value \div SIGN) % 2 = 1

AluResult(value, flags, mask) == [value |-> value, flags |-> flags, flag_mask |-> mask]
Apply(result, p) == (p \ result.flag_mask) \cup (result.flags \cap result.flag_mask)

Zn(value) ==
    AluResult(value, Flag("N", Negative(value)) \cup Flag("Z", value = 0), {"Z", "N"})

WithShiftFlags(value, carry) ==
    AluResult(value, Zn(value).flags \cup Flag("C", carry), {"Z", "N", "C"})

Asl(value) == WithShiftFlags(Truncate(2 * value), Negative(value))
Lsr(value) == WithShiftFlags(value \div 2, value % 2 = 1)
Rol(value, carry) ==
    WithShiftFlags(Truncate(2 * value + (IF carry THEN 1 ELSE 0)), Negative(value))
Ror(value, carry) ==
    WithShiftFlags(value \div 2 + (IF carry THEN SIGN ELSE 0), value % 2 = 1)
Inc(value) == Zn(Truncate(value + 1))
Dec(value) == Zn(Truncate(value - 1))
Tsb(a, value) == AluResult(Or(value, a), Flag("Z", And(a, value) = 0), {"Z"})
Trb(a, value) == AluResult(AndNot(value, a), Flag("Z", And(a, value) = 0), {"Z"})

WithArithFlags(value, carry, overflow) ==
    AluResult(value, WithShiftFlags(value, carry).flags \cup Flag("V", overflow),
              {"Z", "N", "C", "V"})

-----------------------------------------------------------------------------
(* Addition and subtraction.  The decimal loops go through the digits from *)
(* the lowest, with the value so far and the carry or borrow; `pre_high`   *)
(* is the value when the top digit is not yet corrected.                   *)

Place(digit) == << 1, 16, 256, 4096, 65536 >>[digit + 1]
Digit(word, digit) == (word \div Place(digit)) % 16
FirstDigit(carry) == [value |-> 0, carry |-> carry, pre_high |-> 0]

\* The overflow of an addition, and of a subtraction, from the signs
AddOverflow(a, b, value) == Negative(a) = Negative(b) /\ Negative(a) # Negative(value)
SubOverflow(a, b, value) == Negative(a) # Negative(b) /\ Negative(a) # Negative(value)

\* Mutant: a digit is corrected from 11 on.
AddDigitLate(a, b, acc, digit) ==
    LET nibble == Digit(a, digit) + Digit(b, digit) + acc.carry
        corrected == IF nibble > 10 THEN nibble + 6 ELSE nibble
    IN  [value |-> acc.value + (corrected % 16) * Place(digit),
         carry |-> IF nibble > 10 THEN 1 ELSE 0,
         pre_high |-> IF digit = Digits - 1 THEN acc.value + nibble * Place(digit)
                      ELSE acc.pre_high]

\* One turn of the loop of adc
AddDigit(a, b, acc, digit) ==
    LET nibble == Digit(a, digit) + Digit(b, digit) + acc.carry
        corrected == IF nibble > 9 THEN nibble + 6 ELSE nibble
    IN  [value |-> acc.value + (corrected % 16) * Place(digit),
         carry |-> IF nibble > 9 THEN 1 ELSE 0,
         pre_high |-> IF digit = Digits - 1 THEN acc.value + nibble * Place(digit)
                      ELSE acc.pre_high]

\* The loop, over two digits or four
AddDigits(a, b, carry) ==
    LET two == AddDigit(a, b, AddDigit(a, b, FirstDigit(carry), 0), 1)
    IN  IF Digits = 2 THEN two ELSE AddDigit(a, b, AddDigit(a, b, two, 2), 3)

Binary(p, semantics) == "D" \notin p \/ semantics = "None"

\* Mutant: the flags of an NMOS decimal addition come from the result.
AdcResultFlags(a, b, p, semantics) ==
    LET carry_in == IF "C" \in p THEN 1 ELSE 0
        sum == a + b + carry_in
        decimal == AddDigits(a, b, carry_in)
    IN  IF Binary(p, semantics)
        THEN WithArithFlags(Truncate(sum), sum > MASK, AddOverflow(a, b, sum))
        ELSE WithArithFlags(decimal.value, decimal.carry # 0,
                            AddOverflow(a, b, decimal.pre_high))

Adc(a, b, p, semantics) ==
    LET carry_in == IF "C" \in p THEN 1 ELSE 0
        sum == a + b + carry_in
        decimal == AddDigits(a, b, carry_in)
        result == WithArithFlags(decimal.value, decimal.carry # 0,
                                 AddOverflow(a, b, decimal.pre_high))
    IN  IF Binary(p, semantics)
        THEN WithArithFlags(Truncate(sum), sum > MASK, AddOverflow(a, b, sum))
        ELSE IF semantics = "Nmos6502"
        THEN [result EXCEPT !.flags =
                 (@ \ {"Z", "N"}) \cup Flag("Z", Truncate(sum) = 0)
                                  \cup Flag("N", Negative(decimal.pre_high))]
        ELSE result

\* One turn of the loop of sbc, for NMOS and 65816
SubDigit(a, b, acc, digit) ==
    LET nibble == Digit(a, digit) - Digit(b, digit) - acc.carry
        corrected == IF nibble < 0 THEN nibble - 6 ELSE nibble
    IN  [value |-> acc.value + (corrected % 16) * Place(digit),
         carry |-> IF nibble < 0 THEN 1 ELSE 0,
         pre_high |-> IF digit = Digits - 1 THEN acc.value + nibble * Place(digit)
                      ELSE acc.pre_high]

SubDigits(a, b, borrow) ==
    LET two == SubDigit(a, b, SubDigit(a, b, FirstDigit(borrow), 0), 1)
    IN  IF Digits = 2 THEN two ELSE SubDigit(a, b, SubDigit(a, b, two, 2), 3)

\* The 65C02's correction: a digit is corrected if the digits up to it borrow.
CmosCorrection(a, b, borrow, binary) ==
    LET fix(d) ==
            IF d < Digits /\ (a % Place(d + 1)) - (b % Place(d + 1)) - borrow < 0
            THEN 6 * Place(d) ELSE 0
    IN  Truncate(binary - fix(0) - fix(1) - fix(2) - fix(3))

\* Mutant: the borrow of a subtraction is the carry, not its complement.
SbcWrongBorrow(a, b, p, semantics) ==
    LET sum == a + (MASK - b) + (IF "C" \in p THEN 0 ELSE 1)
    IN  WithArithFlags(Truncate(sum), sum > MASK, SubOverflow(a, b, Truncate(sum)))

Sbc(a, b, p, semantics) ==
    LET borrow_in == IF "C" \in p THEN 0 ELSE 1
        sum == a + (MASK - b) + (1 - borrow_in)
        binary == Truncate(sum)
        carry == sum > MASK
        byBinary == WithArithFlags(binary, carry, SubOverflow(a, b, binary))
        decimal == SubDigits(a, b, borrow_in)
    IN  CASE Binary(p, semantics) -> byBinary
          [] ~Binary(p, semantics) /\ semantics = "Cmos65C02" ->
                WithArithFlags(CmosCorrection(a, b, borrow_in, binary), carry,
                               SubOverflow(a, b, binary))
          [] ~Binary(p, semantics) /\ semantics = "Nmos6502" ->
                [byBinary EXCEPT !.value = decimal.value]
          [] OTHER ->
                WithArithFlags(decimal.value, decimal.carry = 0,
                               SubOverflow(a, b, decimal.pre_high))
=============================================================================
